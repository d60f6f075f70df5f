----------------------------- MODULE Ops_proofs ------------------------------
(***************************************************************************)
(* Proofs about the operations.  WorkOrders, for any number of requests,   *)
(* people, versions and sheets: two decisions that do not cross keep the   *)
(* separation of duties, one base per order and the cause of every         *)
(* premium. JointCosts, for any forms: a split bears its cost whole.       *)
(* Inventory, for any movements and interleavings: until two movements     *)
(* cross, the stock is worth what entered and did not leave, but for the   *)
(* rounding of its prices.  ProcessChain, for any chain, months, forms and *)
(* requests that overlap: the cost of a month is all where its report      *)
(* says, and a month opens with what the one before closed with, to the    *)
(* digits of its columns.  Departments, for any departments and requests:  *)
(* until one write crosses another, the chain has no hole and keeps the    *)
(* order of its calculations.                                              *)
(***************************************************************************)
EXTENDS WorkOrders, Inventory, JointCosts, ProcessChain, Departments, Fractions_proofs, SequenceTheorems

Approved(v) == budget[v].tipo = "ADICIONAL" /\ budget[v].estado = "APROBADO"

\* Who has asked for a base, and still holds what it asked.
NumberFacts(r) == wreq[r].at = "number" =>
  /\ wreq[r].v = 0 /\ wreq[r].tipo \in Kinds
  /\ wreq[r].tipo = "BASE" /\ ~wreq[r].crossed => Bases = {}

\* Who has its number: every number before it is taken, so that an order that has got a
\* base since has got the number as well.
CreateFacts(r) == wreq[r].at = "create" =>
  /\ wreq[r].v \in Nat \ {0} /\ wreq[r].tipo \in Kinds
  /\ \A w \in Versions : w < wreq[r].v => IsBudget(w)
  /\ wreq[r].tipo = "BASE" /\ ~wreq[r].crossed =>
       Bases = {} \/ wreq[r].v \notin Versions \/ IsBudget(wreq[r].v)

\* Who has read a version, and what it still knows of it.
DecisionFacts(r) == wreq[r].at \in Decisions =>
  /\ wreq[r].v \in Versions /\ IsBudget(wreq[r].v)
  /\ wreq[r].at \in {"prepare", "approve"} => wreq[r].user \in People
  /\ ~wreq[r].crossed =>
       /\ budget[wreq[r].v].estado = IF wreq[r].at = "prepare" THEN "BORRADOR" ELSE "PREPARADO"
       /\ wreq[r].at = "approve" => budget[wreq[r].v].preparadoPor # wreq[r].user

SheetFacts(r) ==
  /\ wreq[r].at = "load" =>
       /\ wreq[r].s \in Sheets /\ wreq[r].v \in Versions
       /\ wreq[r].v \in stale \/ Approved(wreq[r].v)
  /\ wreq[r].at = "approveSheet" => wreq[r].s \in Sheets /\ hours[wreq[r].s] # NoHours

RequestInv(r) == NumberFacts(r) /\ CreateFacts(r) /\ DecisionFacts(r) /\ SheetFacts(r)

\* What is written of a version that nobody decided on from an old reading.
DutiesInv == \A v \in Versions \ stale :
  /\ budget[v].estado \in {"PREPARADO", "APROBADO"} => budget[v].preparadoPor \in People
  /\ budget[v].estado = "APROBADO" =>
       budget[v].aprobadoPor \in People /\ budget[v].aprobadoPor # budget[v].preparadoPor

CausesInv == \A s \in Sheets : hours[s] # NoHours =>
  hours[s].cause \in Versions /\ (hours[s].cause \in stale \/ Approved(hours[s].cause))

\* The versions are numbered without holes.
NumberedInv == \E n \in 0 .. MaxVersions : \A v \in Versions : IsBudget(v) <=> v <= n

BasesInv == \A v, w \in Bases \ stale : v = w

RowsInv == DutiesInv /\ CausesInv /\ NumberedInv /\ BasesInv

WorkOrdersInv == WorkOrdersTypeOK /\ RowsInv /\ \A r \in Requests : RequestInv(r)

-----------------------------------------------------------------------------

\* The records of the requests.
Locals ==
  [at : {"idle", "number", "create", "prepare", "approve", "reject", "revalidate",
         "load", "approveSheet"},
   tipo : Kinds \union {"none"}, v : Nat, user : People \union {Nobody},
   s : Sheets \union {"none"}, crossed : BOOLEAN]

\* One request takes another record.
LEMMA LocalsStep ==
  ASSUME WorkOrdersTypeOK, UNCHANGED <<budget, hours, stale>>,
         NEW r \in Requests, NEW l \in Locals, wreq' = [wreq EXCEPT ![r] = l]
  PROVE  /\ WorkOrdersTypeOK' /\ wreq'[r] = l
         /\ \A q \in Requests \ {r} : wreq'[q] = wreq[q]
BY DEF WorkOrdersTypeOK, Locals

\* A request at rest holds nothing.
LEMMA RestFacts ==
  ASSUME NEW r \in Requests, wreq[r] = AtRest
  PROVE  RequestInv(r)
BY DEF AtRest, RequestInv, NumberFacts, CreateFacts, DecisionFacts, SheetFacts, Decisions

\* The next number is the one after the last.
LEMMA NextNumberFacts ==
  ASSUME WorkOrdersInv
  PROVE  /\ NextNumber \in Nat \ {0}
         /\ \A w \in Versions : w < NextNumber => IsBudget(w)
<1>1. PICK n \in 0 .. MaxVersions : \A v \in Versions : IsBudget(v) <=> v <= n
  BY DEF WorkOrdersInv, RowsInv, NumberedInv
<1>2. {v \in Versions : IsBudget(v)} = 1 .. n
  BY <1>1, WorkOrdersAssumption DEF Versions
<1>3. Cardinality(1 .. n) = n
  <2>1. n \in Int /\ 1 \in Int /\ n \in Nat
    BY WorkOrdersAssumption
  <2>2. Cardinality(1 .. n) = IF 1 > n THEN 0 ELSE n - 1 + 1
    BY <2>1, FS_Interval
  <2> QED BY <2>1, <2>2
<1>4. NextNumber = 1 + n
  BY <1>2, <1>3 DEF NextNumber
<1> QED BY <1>1, <1>4, WorkOrdersAssumption DEF Versions

\* The steps of one request that write no version: the others know what they knew.
LEMMA QuietStep ==
  ASSUME WorkOrdersInv, WorkOrdersTypeOK', UNCHANGED <<budget, stale>>, CausesInv',
         NEW r \in Requests, RequestInv(r)',
         \A q \in Requests \ {r} : wreq'[q] = wreq[q],
         \A s \in Sheets : hours[s] # NoHours => hours'[s] # NoHours
  PROVE  WorkOrdersInv'
<1>1. \A q \in Requests \ {r} : RequestInv(q)'
  BY DEF WorkOrdersInv, RequestInv, NumberFacts, CreateFacts, DecisionFacts, SheetFacts,
         Bases, IsBudget, Approved
<1>2. RowsInv'
  BY DEF WorkOrdersInv, RowsInv, DutiesInv, NumberedInv, BasesInv, Bases, IsBudget
<1> QED BY <1>1, <1>2 DEF WorkOrdersInv

\* A request that only reads.
LEMMA ReadStep ==
  ASSUME WorkOrdersInv, WorkOrdersTypeOK', UNCHANGED <<budget, hours, stale>>,
         NEW r \in Requests, RequestInv(r)',
         \A q \in Requests \ {r} : wreq'[q] = wreq[q]
  PROVE  WorkOrdersInv'
<1>1. CausesInv'
  BY DEF WorkOrdersInv, RowsInv, CausesInv, Approved
<1> QED BY <1>1, QuietStep

LEMMA CheckBaseStep ==
  ASSUME WorkOrdersInv, NEW r \in Requests, NEW tipo \in Kinds, CheckBase(r, tipo)
  PROVE  WorkOrdersInv'
<1>1. WorkOrdersTypeOK'
  BY DEF CheckBase, WorkOrdersInv, WorkOrdersTypeOK, AtRest
<1>2. /\ wreq'[r] = [AtRest EXCEPT !.at = "number", !.tipo = tipo]
      /\ \A q \in Requests \ {r} : wreq'[q] = wreq[q]
  BY DEF CheckBase, WorkOrdersInv, WorkOrdersTypeOK
<1>3. RequestInv(r)'
  BY <1>2 DEF CheckBase, RequestInv, NumberFacts, CreateFacts, DecisionFacts, SheetFacts,
              Decisions, AtRest, Bases
<1> QED BY <1>1, <1>2, <1>3, ReadStep DEF CheckBase

LEMMA ReadLastNumberStep ==
  ASSUME WorkOrdersInv, NEW r \in Requests, ReadLastNumber(r)
  PROVE  WorkOrdersInv'
<1>1. NextNumber \in Nat \ {0} /\ \A w \in Versions : w < NextNumber => IsBudget(w)
  BY NextNumberFacts
<1> DEFINE l == [wreq[r] EXCEPT !.at = "create", !.v = NextNumber]
<1>a. wreq[r] \in Locals
  BY DEF WorkOrdersInv, WorkOrdersTypeOK, Locals
<1>b. l \in Locals
  BY <1>1, <1>a DEF Locals
<1>c. wreq' = [wreq EXCEPT ![r] = l]
  BY DEF ReadLastNumber, WorkOrdersInv, WorkOrdersTypeOK
<1>2. WorkOrdersTypeOK' /\ \A q \in Requests \ {r} : wreq'[q] = wreq[q]
  BY <1>b, <1>c, LocalsStep DEF ReadLastNumber, WorkOrdersInv
<1>3. wreq'[r] = l
  BY <1>b, <1>c, LocalsStep DEF ReadLastNumber, WorkOrdersInv
<1>4. /\ wreq'[r].at = "create" /\ wreq'[r].v = NextNumber
      /\ wreq'[r].tipo = wreq[r].tipo /\ wreq'[r].crossed = wreq[r].crossed
  BY <1>3, <1>a DEF Locals
<1>5. NumberFacts(r) /\ wreq[r].at = "number" /\ UNCHANGED budget
  BY DEF ReadLastNumber, WorkOrdersInv, RequestInv
<1>6. CreateFacts(r)'
  BY <1>1, <1>4, <1>5 DEF NumberFacts, CreateFacts, Bases, IsBudget
<1>7. RequestInv(r)'
  BY <1>4, <1>6 DEF RequestInv, NumberFacts, DecisionFacts, SheetFacts, Decisions
<1> QED BY <1>2, <1>7, ReadStep DEF ReadLastNumber

\* The four readings of a version.
LEMMA DecisionReadStep ==
  ASSUME WorkOrdersInv, NEW r \in Requests, NEW v \in Versions,
         NEW user \in People \union {Nobody}, NEW what \in Decisions,
         Reads(r, v, user, what),
         what \in {"prepare", "approve"} => user \in People,
         budget[v].estado = IF what = "prepare" THEN "BORRADOR" ELSE "PREPARADO",
         what = "approve" => budget[v].preparadoPor # user
  PROVE  WorkOrdersInv'
<1> DEFINE l == [AtRest EXCEPT !.at = what, !.v = v, !.user = user]
<1>n. v \in Nat
  BY WorkOrdersAssumption DEF Versions
<1>a. l \in Locals /\ l.at = what /\ l.v = v /\ l.user = user
  BY <1>n DEF Locals, AtRest, Decisions
<1>1. WorkOrdersTypeOK' /\ \A q \in Requests \ {r} : wreq'[q] = wreq[q]
  BY <1>a, LocalsStep DEF Reads, WorkOrdersInv
<1>2. wreq'[r] = l
  BY <1>a, LocalsStep DEF Reads, WorkOrdersInv
<1>3. DecisionFacts(r)'
  BY <1>2, <1>a DEF Reads, DecisionFacts, IsBudget
<1>4. RequestInv(r)'
  BY <1>2, <1>3, <1>a DEF RequestInv, NumberFacts, CreateFacts, SheetFacts, Decisions
<1> QED BY <1>1, <1>4, ReadStep DEF Reads

LEMMA ReadingStep ==
  ASSUME WorkOrdersInv, NEW r \in Requests, NEW v \in Versions,
         \/ \E user \in People : PrepareRead(r, v, user) \/ ApproveRead(r, v, user)
         \/ RejectRead(r, v)
         \/ RevalidateRead(r, v)
  PROVE  WorkOrdersInv'
<1>1. CASE \E user \in People : PrepareRead(r, v, user)
  BY <1>1, DecisionReadStep DEF PrepareRead, Decisions
<1>2. CASE \E user \in People : ApproveRead(r, v, user)
  BY <1>2, DecisionReadStep DEF ApproveRead, Decisions
<1>3. CASE RejectRead(r, v)
  BY <1>3, DecisionReadStep DEF RejectRead, Decisions
<1>4. CASE RevalidateRead(r, v)
  BY <1>4, DecisionReadStep DEF RevalidateRead, Decisions
<1> QED BY <1>1, <1>2, <1>3, <1>4

LEMMA LoadSheetReadStep ==
  ASSUME WorkOrdersInv, NEW r \in Requests, NEW s \in Sheets, NEW v \in Versions,
         LoadSheetRead(r, s, v)
  PROVE  WorkOrdersInv'
<1> DEFINE l == [AtRest EXCEPT !.at = "load", !.s = s, !.v = v]
<1>n. v \in Nat
  BY WorkOrdersAssumption DEF Versions
<1>a. l \in Locals
  BY <1>n DEF Locals, AtRest
<1>1. WorkOrdersTypeOK' /\ \A q \in Requests \ {r} : wreq'[q] = wreq[q]
  BY <1>a, LocalsStep DEF LoadSheetRead, WorkOrdersInv
<1>2. wreq'[r] = l
  BY <1>a, LocalsStep DEF LoadSheetRead, WorkOrdersInv
<1>3. RequestInv(r)'
  BY <1>2 DEF LoadSheetRead, RequestInv, NumberFacts, CreateFacts, DecisionFacts,
              SheetFacts, Decisions, AtRest, Approved
<1> QED BY <1>1, <1>2, <1>3, ReadStep DEF LoadSheetRead

LEMMA ApproveSheetReadStep ==
  ASSUME WorkOrdersInv, NEW r \in Requests, NEW s \in Sheets, ApproveSheetRead(r, s)
  PROVE  WorkOrdersInv'
<1>1. WorkOrdersTypeOK'
  BY DEF ApproveSheetRead, WorkOrdersInv, WorkOrdersTypeOK, AtRest
<1>2. /\ wreq'[r] = [AtRest EXCEPT !.at = "approveSheet", !.s = s]
      /\ \A q \in Requests \ {r} : wreq'[q] = wreq[q]
  BY DEF ApproveSheetRead, WorkOrdersInv, WorkOrdersTypeOK
<1>3. RequestInv(r)'
  BY <1>2 DEF ApproveSheetRead, RequestInv, NumberFacts, CreateFacts, DecisionFacts,
              SheetFacts, Decisions, AtRest, NoHours
<1> QED BY <1>1, <1>2, <1>3, ReadStep DEF ApproveSheetRead

LEMMA LoadSheetStep ==
  ASSUME WorkOrdersInv, NEW r \in Requests, LoadSheet(r)
  PROVE  WorkOrdersInv'
<1> DEFINE s == wreq[r].s
           v == wreq[r].v
<1>1. /\ s \in Sheets /\ v \in Versions /\ (v \in stale \/ Approved(v))
      /\ hours' = IF hours[s] = NoHours
                  THEN [hours EXCEPT ![s] = [estado |-> "CARGADO", cause |-> v]] ELSE hours
      /\ UNCHANGED <<budget, stale>>
      /\ wreq' = [wreq EXCEPT ![r] = AtRest]
  BY DEF LoadSheet, Rests, WorkOrdersInv, RequestInv, SheetFacts
<1> HIDE DEF s, v
<1>2. WorkOrdersTypeOK'
  BY <1>1 DEF WorkOrdersInv, WorkOrdersTypeOK, AtRest
<1>3. wreq'[r] = AtRest /\ \A q \in Requests \ {r} : wreq'[q] = wreq[q]
  BY <1>1 DEF WorkOrdersInv, WorkOrdersTypeOK
<1>4. RequestInv(r)'
  BY <1>3 DEF AtRest, RequestInv, NumberFacts, CreateFacts, DecisionFacts, SheetFacts,
              Decisions
<1>5. CausesInv'
  BY <1>1 DEF WorkOrdersInv, WorkOrdersTypeOK, RowsInv, CausesInv, Approved
<1>6. \A x \in Sheets : hours[x] # NoHours => hours'[x] # NoHours
  BY <1>1 DEF WorkOrdersInv, WorkOrdersTypeOK
<1> QED BY <1>1, <1>2, <1>3, <1>4, <1>5, <1>6, QuietStep

LEMMA ApproveSheetStep ==
  ASSUME WorkOrdersInv, NEW r \in Requests, ApproveSheet(r)
  PROVE  WorkOrdersInv'
<1> DEFINE s == wreq[r].s
<1>1. /\ s \in Sheets /\ hours[s] # NoHours
      /\ hours' = [hours EXCEPT ![s].estado = "APROBADO"]
      /\ UNCHANGED <<budget, stale>>
      /\ wreq' = [wreq EXCEPT ![r] = AtRest]
  BY DEF ApproveSheet, Rests, WorkOrdersInv, RequestInv, SheetFacts
<1> HIDE DEF s
<1>2. WorkOrdersTypeOK'
  BY <1>1 DEF WorkOrdersInv, WorkOrdersTypeOK, AtRest
<1>3. wreq'[r] = AtRest /\ \A q \in Requests \ {r} : wreq'[q] = wreq[q]
  BY <1>1 DEF WorkOrdersInv, WorkOrdersTypeOK
<1>4. RequestInv(r)'
  BY <1>3 DEF AtRest, RequestInv, NumberFacts, CreateFacts, DecisionFacts, SheetFacts,
              Decisions
<1>5. /\ \A x \in Sheets \ {s} : hours'[x] = hours[x]
      /\ hours'[s].estado = "APROBADO" /\ hours'[s].cause = hours[s].cause
  BY <1>1 DEF WorkOrdersInv, WorkOrdersTypeOK
<1>6. CausesInv'
  BY <1>1, <1>5 DEF WorkOrdersInv, RowsInv, CausesInv, Approved
<1>7. \A x \in Sheets : hours[x] # NoHours => hours'[x] # NoHours
  BY <1>5 DEF NoHours
<1> QED BY <1>1, <1>2, <1>3, <1>4, <1>6, <1>7, QuietStep

\* The insertion is of the first number that is free, and whoever had asked for a number
\* or for the base meanwhile no longer holds what it asked.
LEMMA CreateBudgetStep ==
  ASSUME WorkOrdersInv, NEW r \in Requests, CreateBudget(r)
  PROVE  WorkOrdersInv'
<1> DEFINE v == wreq[r].v
           tipo == wreq[r].tipo
           crossed == wreq[r].crossed
<1>1. CASE v \notin Versions \/ IsBudget(v)
  <2>1. /\ wreq' = [wreq EXCEPT ![r] = AtRest]
        /\ UNCHANGED <<budget, hours, stale>>
    BY <1>1 DEF CreateBudget, Rests
  <2>2. AtRest \in Locals
    BY DEF AtRest, Locals
  <2>3. /\ WorkOrdersTypeOK' /\ wreq'[r] = AtRest
        /\ \A q \in Requests \ {r} : wreq'[q] = wreq[q]
    BY <2>1, <2>2, LocalsStep DEF WorkOrdersInv
  <2>4. RequestInv(r)'
    BY <2>3 DEF AtRest, RequestInv, NumberFacts, CreateFacts, DecisionFacts, SheetFacts,
                Decisions
  <2> QED BY <2>1, <2>3, <2>4, ReadStep
<1>2. CASE v \in Versions /\ ~IsBudget(v)
  <2>1. /\ budget' = [budget EXCEPT ![v] = [NoBudget EXCEPT !.tipo = tipo]]
        /\ stale' = IF crossed THEN stale \union {v} ELSE stale
        /\ hours' = hours
        /\ wreq' = [q \in Requests |->
             IF q = r THEN AtRest
             ELSE [wreq[q] EXCEPT
                     !.crossed = @ \/ (wreq[q].at \in {"number"} /\ wreq[q].v \in {0})]]
    BY <1>2 DEF CreateBudget, Crosses
  <2>2. /\ tipo \in Kinds /\ v \in Nat \ {0}
        /\ \A w \in Versions : w < v => IsBudget(w)
        /\ tipo = "BASE" /\ ~crossed => Bases = {}
    BY <1>2 DEF CreateBudget, WorkOrdersInv, RequestInv, CreateFacts
  <2>3. \A q \in Requests \ {r} :
          /\ wreq'[q].at = wreq[q].at /\ wreq'[q].v = wreq[q].v
          /\ wreq'[q].tipo = wreq[q].tipo /\ wreq'[q].s = wreq[q].s
          /\ wreq'[q].user = wreq[q].user
          /\ wreq'[q].crossed =
               (wreq[q].crossed \/ (wreq[q].at = "number" /\ wreq[q].v = 0))
    BY <2>1 DEF WorkOrdersInv, WorkOrdersTypeOK
  <2>4. WorkOrdersTypeOK'
    <3>1. budget' \in [Versions -> Budgets]
      BY <1>2, <2>1, <2>2 DEF WorkOrdersInv, WorkOrdersTypeOK, Budgets, NoBudget, BudgetStates
    <3>2. stale' \subseteq Versions /\ hours' = hours
      BY <1>2, <2>1 DEF WorkOrdersInv, WorkOrdersTypeOK
    <3>3. wreq' \in [Requests -> Locals]
      <4>1. AtRest \in Locals
        BY DEF AtRest, Locals
      <4>2. \A q \in Requests : wreq[q] \in Locals
        BY DEF WorkOrdersInv, WorkOrdersTypeOK, Locals
      <4>3. ASSUME NEW q \in Requests \ {r}
            PROVE  [wreq[q] EXCEPT !.crossed =
                      @ \/ (wreq[q].at \in {"number"} /\ wreq[q].v \in {0})] \in Locals
        BY <4>2 DEF Locals
      <4> QED BY <2>1, <4>1, <4>3
    <3> QED BY <3>1, <3>2, <3>3 DEF WorkOrdersInv, WorkOrdersTypeOK, Locals
  <2> HIDE DEF v, tipo, crossed
  <2>5. /\ \A w \in Versions \ {v} : budget'[w] = budget[w]
        /\ budget'[v].tipo = tipo /\ budget'[v].estado = "BORRADOR" /\ tipo # "none"
        /\ budget[v].tipo = "none"
    BY <1>2, <2>1, <2>2 DEF WorkOrdersInv, WorkOrdersTypeOK, NoBudget, Kinds, IsBudget
  <2>6. /\ \A w \in Versions : IsBudget(w)' <=> IsBudget(w) \/ w = v
        /\ \A w \in Versions : Approved(w) => Approved(w)'
        /\ stale \subseteq stale'
    BY <2>1, <2>5 DEF IsBudget, Approved
  <2>7. \A w \in Versions : w <= v => IsBudget(w)'
    BY <1>2, <2>2, <2>6, WorkOrdersAssumption DEF Versions
  <2>8. RowsInv'
    <3>1. DutiesInv'
      BY <1>2, <2>1, <2>5 DEF WorkOrdersInv, RowsInv, DutiesInv
    <3>2. CausesInv'
      BY <2>1, <2>6 DEF WorkOrdersInv, RowsInv, CausesInv
    <3>3. NumberedInv'
      <4>1. PICK n \in 0 .. MaxVersions : \A w \in Versions : IsBudget(w) <=> w <= n
        BY DEF WorkOrdersInv, RowsInv, NumberedInv
      <4>2. v = n + 1
        <5>1. v \in 1 .. MaxVersions /\ v > n
          BY <1>2, <4>1, WorkOrdersAssumption DEF Versions
        <5>2. CASE v > n + 1
          <6>1. n + 1 \in Versions /\ n + 1 < v /\ ~(n + 1 <= n)
            BY <5>1, <5>2, WorkOrdersAssumption DEF Versions
          <6> QED BY <6>1, <2>2, <4>1
        <5> QED BY <5>1, <5>2, WorkOrdersAssumption
      <4>3. \A w \in Versions : IsBudget(w)' <=> w <= n + 1
        BY <2>6, <4>1, <4>2, WorkOrdersAssumption DEF Versions
      <4>4. n + 1 \in 0 .. MaxVersions
        BY <1>2, <4>2, WorkOrdersAssumption DEF Versions
      <4> QED BY <4>3, <4>4 DEF NumberedInv
    <3>4. BasesInv'
      <4>1. CASE tipo # "BASE"
        <5>1. Bases' = Bases
          BY <1>2, <2>5, <4>1 DEF Bases
        <5> QED BY <5>1, <2>6 DEF WorkOrdersInv, RowsInv, BasesInv
      <4>2. CASE crossed
        <5>1. Bases' \ stale' \subseteq Bases \ stale
          BY <2>1, <2>5, <4>2 DEF Bases
        <5> QED BY <5>1 DEF WorkOrdersInv, RowsInv, BasesInv
      <4>3. CASE tipo = "BASE" /\ ~crossed
        <5>1. Bases' = {v}
          BY <1>2, <2>2, <2>5, <4>3 DEF Bases
        <5> QED BY <5>1 DEF BasesInv
      <4> QED BY <4>1, <4>2, <4>3
    <3> QED BY <3>1, <3>2, <3>3, <3>4 DEF RowsInv
  <2>9. ASSUME NEW q \in Requests PROVE RequestInv(q)'
    <3>1. CASE q = r
      <4>1. wreq'[q] = AtRest
        BY <2>1, <3>1
      <4> QED BY <4>1 DEF AtRest, RequestInv, NumberFacts, CreateFacts, DecisionFacts,
                          SheetFacts, Decisions
    <3>2. CASE q # r
      <4> USE <2>3, <3>2
      <4>1. NumberFacts(q)'
        BY DEF WorkOrdersInv, RequestInv, NumberFacts
      <4>2. CreateFacts(q)'
        <5>1. CASE wreq[q].at = "create"
          <6>1. CASE Bases' = Bases \/ wreq[q].v \notin Versions \/ IsBudget(wreq[q].v)
            BY <2>6, <5>1, <6>1 DEF WorkOrdersInv, RequestInv, CreateFacts
          <6>2. CASE wreq[q].v \in Versions /\ ~IsBudget(wreq[q].v)
            <7>1. ~(v < wreq[q].v)
              BY <1>2, <5>1, <2>5 DEF WorkOrdersInv, RequestInv, CreateFacts, IsBudget
            <7>2. IsBudget(wreq[q].v)'
              BY <1>2, <7>1, <6>2, <2>7, WorkOrdersAssumption DEF Versions
            <7> QED BY <2>6, <5>1, <7>2 DEF WorkOrdersInv, RequestInv, CreateFacts
          <6> QED BY <6>1, <6>2
        <5> QED BY <5>1 DEF CreateFacts
      <4>3. DecisionFacts(q)'
        <5>1. CASE wreq[q].at \in Decisions
          <6>1. DecisionFacts(q) /\ wreq[q].v \in Versions \ {v}
            BY <5>1, <2>5 DEF WorkOrdersInv, RequestInv, DecisionFacts, IsBudget
          <6>2. budget'[wreq[q].v] = budget[wreq[q].v]
            BY <6>1, <2>5
          <6>3. wreq'[q].crossed <=> wreq[q].crossed
            BY <5>1 DEF Decisions
          <6> QED BY <6>1, <6>2, <6>3, <5>1 DEF DecisionFacts, IsBudget
        <5> QED BY <5>1 DEF DecisionFacts
      <4>4. SheetFacts(q)'
        BY <2>1, <2>6 DEF WorkOrdersInv, RequestInv, SheetFacts
      <4> QED BY <4>1, <4>2, <4>3, <4>4 DEF RequestInv
    <3> QED BY <3>1, <3>2
  <2> QED BY <2>4, <2>8, <2>9 DEF WorkOrdersInv
<1> QED BY <1>1, <1>2

\* A prepared version runs out: nobody has read that it has not, but to approve it.
LEMMA ExpireStep ==
  ASSUME WorkOrdersInv, NEW v \in Versions, Expire(v)
  PROVE  WorkOrdersInv'
<1>1. /\ budget' = [budget EXCEPT ![v].expired = TRUE]
      /\ UNCHANGED <<hours, wreq, stale>>
  BY DEF Expire
<1>t. budget[v] \in Budgets
  BY DEF WorkOrdersInv, WorkOrdersTypeOK
<1>u. [budget[v] EXCEPT !.expired = TRUE] \in Budgets
  BY <1>t DEF Budgets
<1>2. WorkOrdersTypeOK'
  BY <1>1, <1>u DEF WorkOrdersInv, WorkOrdersTypeOK
<1>3. \A w \in Versions :
        /\ budget'[w].tipo = budget[w].tipo /\ budget'[w].estado = budget[w].estado
        /\ budget'[w].preparadoPor = budget[w].preparadoPor
        /\ budget'[w].aprobadoPor = budget[w].aprobadoPor
  BY <1>1 DEF WorkOrdersInv, WorkOrdersTypeOK, Budgets
<1>4. /\ \A w \in Versions : IsBudget(w)' <=> IsBudget(w)
      /\ \A w \in Versions : Approved(w)' <=> Approved(w)
      /\ Bases' = Bases
  BY <1>3 DEF IsBudget, Approved, Bases
<1>5. RowsInv'
  <2>1. DutiesInv'
    BY <1>1, <1>3 DEF WorkOrdersInv, RowsInv, DutiesInv
  <2>2. CausesInv'
    BY <1>1, <1>4 DEF WorkOrdersInv, RowsInv, CausesInv
  <2>3. NumberedInv' /\ BasesInv'
    BY <1>1, <1>4 DEF WorkOrdersInv, RowsInv, NumberedInv, BasesInv
  <2> QED BY <2>1, <2>2, <2>3 DEF RowsInv
<1>6. ASSUME NEW q \in Requests PROVE RequestInv(q)'
  <2>1. NumberFacts(q)' /\ CreateFacts(q)'
    BY <1>1, <1>4 DEF WorkOrdersInv, RequestInv, NumberFacts, CreateFacts
  <2>2. DecisionFacts(q)'
    BY <1>1, <1>3, <1>4 DEF WorkOrdersInv, RequestInv, DecisionFacts
  <2>3. SheetFacts(q)'
    BY <1>1, <1>4 DEF WorkOrdersInv, RequestInv, SheetFacts
  <2> QED BY <2>1, <2>2, <2>3 DEF RequestInv
<1> QED BY <1>2, <1>5, <1>6 DEF WorkOrdersInv

\* The update by id: what it writes is right when the reading it was decided on still held,
\* and otherwise the version is stale.
LEMMA ChangeStep ==
  ASSUME WorkOrdersInv, NEW r \in Requests, Change(r)
  PROVE  WorkOrdersInv'
<1> DEFINE v == wreq[r].v
           what == wreq[r].at
           user == wreq[r].user
           crossed == wreq[r].crossed
<1>1. /\ what \in Decisions
      /\ budget' = [budget EXCEPT ![v] = Changed(budget[v], what, user)]
      /\ stale' = IF crossed THEN stale \union {v} ELSE stale
      /\ hours' = hours
      /\ wreq' = [q \in Requests |->
           IF q = r THEN AtRest
           ELSE [wreq[q] EXCEPT
                   !.crossed = @ \/ (wreq[q].at \in Decisions /\ wreq[q].v \in {v})]]
  BY DEF Change, Crosses
<1>2. DecisionFacts(r)
  BY DEF WorkOrdersInv, RequestInv
<1>3. /\ v \in Versions /\ IsBudget(v)
      /\ what \in {"prepare", "approve"} => user \in People
      /\ user \in People \union {Nobody}
      /\ ~crossed =>
           /\ budget[v].estado = IF what = "prepare" THEN "BORRADOR" ELSE "PREPARADO"
           /\ what = "approve" => budget[v].preparadoPor # user
  BY <1>1, <1>2 DEF DecisionFacts, WorkOrdersInv, WorkOrdersTypeOK
<1>4. \A q \in Requests \ {r} :
        /\ wreq'[q].at = wreq[q].at /\ wreq'[q].v = wreq[q].v
        /\ wreq'[q].tipo = wreq[q].tipo /\ wreq'[q].s = wreq[q].s
        /\ wreq'[q].user = wreq[q].user
        /\ wreq'[q].crossed =
             (wreq[q].crossed \/ (wreq[q].at \in Decisions /\ wreq[q].v = v))
  BY <1>1 DEF WorkOrdersInv, WorkOrdersTypeOK
<1>5. wreq'[r] = AtRest /\ wreq' \in [Requests -> Locals]
  <2>1. AtRest \in Locals
    BY DEF AtRest, Locals
  <2>2. \A q \in Requests : wreq[q] \in Locals
    BY DEF WorkOrdersInv, WorkOrdersTypeOK, Locals
  <2>3. ASSUME NEW q \in Requests \ {r}
        PROVE  [wreq[q] EXCEPT !.crossed =
                  @ \/ (wreq[q].at \in Decisions /\ wreq[q].v \in {v})] \in Locals
    BY <2>2 DEF Locals
  <2> QED BY <1>1, <2>1, <2>3
<1> HIDE DEF v, what, user, crossed
<1>6. budget[v] \in Budgets
  BY <1>3 DEF WorkOrdersInv, WorkOrdersTypeOK
<1>7. /\ Changed(budget[v], what, user) \in Budgets
      /\ Changed(budget[v], what, user).tipo = budget[v].tipo
      /\ what = "prepare" => /\ Changed(budget[v], what, user).estado = "PREPARADO"
                             /\ Changed(budget[v], what, user).preparadoPor = user
      /\ what = "approve" =>
           /\ Changed(budget[v], what, user).estado = "APROBADO"
           /\ Changed(budget[v], what, user).aprobadoPor = user
           /\ Changed(budget[v], what, user).preparadoPor = budget[v].preparadoPor
      /\ what = "reject" => Changed(budget[v], what, user).estado = "RECHAZADO"
      /\ what = "revalidate" => Changed(budget[v], what, user).estado = "BORRADOR"
  <2>1. CASE what = "prepare"
    BY <1>3, <1>6, <2>1 DEF Changed, Budgets, BudgetStates
  <2>2. CASE what = "approve"
    BY <1>3, <1>6, <2>2 DEF Changed, Budgets, BudgetStates
  <2>3. CASE what = "reject"
    BY <1>3, <1>6, <2>3 DEF Changed, Budgets, BudgetStates
  <2>4. CASE what = "revalidate"
    BY <1>3, <1>6, <2>4 DEF Changed, Budgets, BudgetStates
  <2> QED BY <1>1, <2>1, <2>2, <2>3, <2>4 DEF Decisions
<1>8. /\ \A w \in Versions \ {v} : budget'[w] = budget[w]
      /\ budget'[v] = Changed(budget[v], what, user)
  BY <1>1, <1>3 DEF WorkOrdersInv, WorkOrdersTypeOK
<1>9. WorkOrdersTypeOK'
  <2>1. budget' \in [Versions -> Budgets]
    BY <1>1, <1>7 DEF WorkOrdersInv, WorkOrdersTypeOK
  <2>2. stale' \subseteq Versions /\ hours' = hours
    BY <1>1, <1>3 DEF WorkOrdersInv, WorkOrdersTypeOK
  <2> QED BY <2>1, <2>2, <1>5 DEF WorkOrdersInv, WorkOrdersTypeOK, Locals
<1>10. /\ \A w \in Versions : IsBudget(w)' <=> IsBudget(w)
       /\ Bases' = Bases /\ stale \subseteq stale'
  BY <1>1, <1>7, <1>8 DEF IsBudget, Bases
<1>11. \A w \in Versions : w \in stale \/ Approved(w) => w \in stale' \/ Approved(w)'
  <2>1. v \in stale' \/ ~Approved(v)
    BY <1>1, <1>3 DEF Approved
  <2> QED BY <2>1, <1>8, <1>10 DEF Approved
<1>12. DutiesInv'
  <2> SUFFICES ASSUME NEW w \in Versions \ stale'
               PROVE  /\ budget'[w].estado \in {"PREPARADO", "APROBADO"} =>
                           budget'[w].preparadoPor \in People
                      /\ budget'[w].estado = "APROBADO" =>
                           /\ budget'[w].aprobadoPor \in People
                           /\ budget'[w].aprobadoPor # budget'[w].preparadoPor
    BY DEF DutiesInv
  <2>1. CASE w # v
    BY <2>1, <1>8, <1>10 DEF WorkOrdersInv, RowsInv, DutiesInv
  <2>2. CASE w = v
    <3>1. ~crossed /\ v \notin stale
      BY <2>2, <1>1
    <3>2. budget[v].estado = "PREPARADO" => budget[v].preparadoPor \in People
      BY <3>1, <1>3 DEF WorkOrdersInv, RowsInv, DutiesInv
    <3> QED BY <2>2, <3>1, <3>2, <1>1, <1>3, <1>7, <1>8 DEF Decisions
  <2> QED BY <2>1, <2>2
<1>13. RowsInv'
  <2>1. CausesInv'
    BY <1>1, <1>11 DEF WorkOrdersInv, RowsInv, CausesInv
  <2>2. NumberedInv'
    BY <1>10 DEF WorkOrdersInv, RowsInv, NumberedInv
  <2>3. BasesInv'
    BY <1>10 DEF WorkOrdersInv, RowsInv, BasesInv
  <2> QED BY <1>12, <2>1, <2>2, <2>3 DEF RowsInv
<1>14. ASSUME NEW q \in Requests PROVE RequestInv(q)'
  <2>1. CASE q = r
    BY <1>5, <2>1 DEF AtRest, RequestInv, NumberFacts, CreateFacts, DecisionFacts,
                      SheetFacts, Decisions
  <2>2. CASE q # r
    <3> USE <1>4, <2>2
    <3>1. RequestInv(q)
      BY DEF WorkOrdersInv
    <3>2. NumberFacts(q)' /\ CreateFacts(q)'
      BY <3>1, <1>10 DEF RequestInv, NumberFacts, CreateFacts, Decisions
    <3>3. DecisionFacts(q)'
      <4>1. CASE wreq[q].at \in Decisions /\ wreq[q].v = v
        <5>1. wreq'[q].crossed
          BY <4>1
        <5> QED BY <3>1, <5>1, <4>1, <1>10 DEF RequestInv, DecisionFacts
      <4>2. CASE wreq[q].at \in Decisions /\ wreq[q].v # v
        <5>1. wreq'[q].crossed <=> wreq[q].crossed
          BY <4>2
        <5>2. budget'[wreq[q].v] = budget[wreq[q].v]
          BY <3>1, <4>2, <1>8 DEF RequestInv, DecisionFacts
        <5> QED BY <3>1, <5>1, <5>2, <4>2, <1>10 DEF RequestInv, DecisionFacts
      <4>3. CASE wreq[q].at \notin Decisions
        BY <4>3 DEF DecisionFacts
      <4> QED BY <4>1, <4>2, <4>3
    <3>4. SheetFacts(q)'
      BY <3>1, <1>1, <1>11 DEF RequestInv, SheetFacts
    <3> QED BY <3>2, <3>3, <3>4 DEF RequestInv
  <2> QED BY <2>1, <2>2
<1> QED BY <1>9, <1>13, <1>14 DEF WorkOrdersInv

-----------------------------------------------------------------------------

LEMMA InitStep == ASSUME WorkOrdersInit PROVE WorkOrdersInv
<1>1. WorkOrdersTypeOK
  BY DEF WorkOrdersInit, WorkOrdersTypeOK, Budgets, NoBudget, NoHours, AtRest, BudgetStates
<1>2. \A r \in Requests : RequestInv(r)
  BY RestFacts DEF WorkOrdersInit
<1>3. DutiesInv /\ CausesInv /\ BasesInv
  BY DEF WorkOrdersInit, DutiesInv, CausesInv, BasesInv, Bases, NoBudget
<1>4. NumberedInv
  <2>1. 0 \in 0 .. MaxVersions /\ \A v \in Versions : ~(v <= 0)
    BY WorkOrdersAssumption DEF Versions
  <2>2. \A v \in Versions : ~IsBudget(v)
    BY DEF WorkOrdersInit, IsBudget, NoBudget
  <2> QED BY <2>1, <2>2 DEF NumberedInv
<1> QED BY <1>1, <1>2, <1>3, <1>4 DEF WorkOrdersInv, RowsInv

LEMMA StutterStep == ASSUME WorkOrdersInv, UNCHANGED workOrdersVars PROVE WorkOrdersInv'
BY DEF workOrdersVars, WorkOrdersInv, WorkOrdersTypeOK, RowsInv, DutiesInv, CausesInv,
       NumberedInv, BasesInv, Bases, IsBudget, Approved, RequestInv, NumberFacts,
       CreateFacts, DecisionFacts, SheetFacts

\* Every step of every request keeps the invariant.
LEMMA NextStep == ASSUME WorkOrdersInv, WorkOrdersNext PROVE WorkOrdersInv'
<1>1. CASE \E v \in Versions : Expire(v)
  BY <1>1, ExpireStep
<1>2. ASSUME NEW r \in Requests, \E tipo \in Kinds : CheckBase(r, tipo)
      PROVE  WorkOrdersInv'
  BY <1>2, CheckBaseStep
<1>3. ASSUME NEW r \in Requests, ReadLastNumber(r) \/ CreateBudget(r) \/ Change(r)
      PROVE  WorkOrdersInv'
  BY <1>3, ReadLastNumberStep, CreateBudgetStep, ChangeStep
<1>4. ASSUME NEW r \in Requests, NEW v \in Versions,
             \/ \E user \in People : PrepareRead(r, v, user) \/ ApproveRead(r, v, user)
             \/ RejectRead(r, v) \/ RevalidateRead(r, v)
      PROVE  WorkOrdersInv'
  BY <1>4, ReadingStep
<1>5. ASSUME NEW r \in Requests, NEW s \in Sheets,
             ApproveSheetRead(r, s) \/ \E v \in Versions : LoadSheetRead(r, s, v)
      PROVE  WorkOrdersInv'
  BY <1>5, ApproveSheetReadStep, LoadSheetReadStep
<1>6. ASSUME NEW r \in Requests, LoadSheet(r) \/ ApproveSheet(r)
      PROVE  WorkOrdersInv'
  BY <1>6, LoadSheetStep, ApproveSheetStep
<1> QED BY <1>1, <1>2, <1>3, <1>4, <1>5, <1>6 DEF WorkOrdersNext

\* No step of two requests about one order, its budget or its hours leaves the
\* inductive invariant (presupuesto-orden-service.ts, parte-horas-service.ts), whatever they read.
THEOREM WorkOrdersInductive == WorkOrdersSpec => []WorkOrdersInv
<1>1. WorkOrdersInit => WorkOrdersInv
  BY InitStep
<1>2. WorkOrdersInv /\ [WorkOrdersNext]_workOrdersVars => WorkOrdersInv'
  BY NextStep, StutterStep
<1> QED BY <1>1, <1>2, PTL DEF WorkOrdersSpec

\* The rows and the requests in flight of a work order are always of their types.
THEOREM WorkOrdersTypeCorrect == WorkOrdersSpec => []WorkOrdersTypeOK
<1>1. WorkOrdersInv => WorkOrdersTypeOK
  BY DEF WorkOrdersInv
<1> QED BY <1>1, WorkOrdersInductive, PTL

\* presupuesto-orden-service.ts: whoever prepared the version in force did not approve it,
\* for any number of people deciding at once, unless two decisions crossed.
THEOREM DutiesAreSeparate == WorkOrdersSpec => []SeparationOfDuties
<1>1. WorkOrdersInv => SeparationOfDuties
  BY WorkOrdersAssumption DEF WorkOrdersInv, RowsInv, DutiesInv, SeparationOfDuties
<1> QED BY <1>1, WorkOrdersInductive, PTL

\* presupuesto-orden-service.ts, create: an order has one base at most, however many ask
\* for one, unless one was created on a check that no longer held.
THEOREM OneBase == WorkOrdersSpec => []OneBasePerOrder
<1>1. ASSUME WorkOrdersInv PROVE OneBasePerOrder
  <2> DEFINE B == Bases \ stale
  <2>1. \A v, w \in B : v = w
    BY <1>1 DEF WorkOrdersInv, RowsInv, BasesInv
  <2>2. CASE B = {}
    BY <2>2, FS_EmptySet DEF OneBasePerOrder
  <2>3. CASE B # {}
    <3>1. PICK v \in B : B = {v}
      BY <2>1, <2>3
    <3>2. Cardinality({v}) = 1
      BY FS_Singleton
    <3> QED BY <3>1, <3>2 DEF OneBasePerOrder
  <2> QED BY <2>2, <2>3
<1> QED BY <1>1, WorkOrdersInductive, PTL

\* parte-horas-service.ts: the premium of every sheet rests on an additional that is still
\* approved, unless two decisions on it crossed.
THEOREM PremiumIsCaused == WorkOrdersSpec => []PremiumHasItsCause
<1>1. WorkOrdersInv => PremiumHasItsCause
  BY DEF WorkOrdersInv, RowsInv, CausesInv, PremiumHasItsCause, Approved
<1> QED BY <1>1, WorkOrdersInductive, PTL

-----------------------------------------------------------------------------
(* The split of the joint costs.                                             *)

BasesOf(f) == [i \in DOMAIN f.products |-> BaseOf(f.method, f.products[i])]

\* The base of a product that takes part is an amount.
LEMMA BaseIsAmount ==
  ASSUME NEW method \in Methods, NEW p, IsFraction(p.units), IsPositive(p.units), ~NoBase(method, p),
         IsOptional(p.yield), IsOptional(p.price), IsOptional(p.varPct), IsOptional(p.fixedPerUnit)
  PROVE  IsAmount(BaseOf(method, p))
<1>2. IsFraction(p.units) /\ IsPositive(p.units) /\ ~NoBase(method, p)
      /\ IsOptional(p.yield) /\ IsOptional(p.price) /\ IsOptional(p.varPct)
      /\ IsOptional(p.fixedPerUnit)
  OBVIOUS
<1>3. IsAmount(p.units)
  BY PositiveFacts
<1>4. CASE method = "PHYSICAL_UNITS"
  BY <1>3, <1>4 DEF BaseOf
<1>5. CASE method = "TECHNICAL_YIELD"
  BY <1>2, <1>5 DEF BaseOf, NoBase, Given, IsOptional
<1>6. CASE method = "MARKET_VALUE"
  <2>1. IsAmount(p.price)
    BY <1>2, <1>6 DEF NoBase, Given, IsOptional
  <2> QED BY <1>3, <1>6, <2>1, AmountOps DEF BaseOf, SalesValue
<1>7. CASE method = "NET_REALIZABLE_VALUE"
  <2>1. IsAmount(p.price) /\ ~IsNegative(NetRealizable(p))
    BY <1>2, <1>7 DEF NoBase, Given, IsOptional
  <2>2. IsFraction(Default(p.varPct, Zero)) /\ IsFraction(Default(p.fixedPerUnit, Zero))
    BY <1>2, ZeroAt, 1 \in Int DEF Default, IsOptional, At, IsAmount, Given
  <2>3. IsFraction(SalesValue(p))
    BY <1>3, <2>1, FractionOps DEF SalesValue, IsAmount
  <2>4. /\ IsFraction(Times(SalesValue(p), Default(p.varPct, Zero)))
        /\ IsFraction(Times(p.units, Default(p.fixedPerUnit, Zero)))
    BY <1>2, <2>2, <2>3, FractionOps
  <2>5. IsFraction(Minus(SalesValue(p), Times(SalesValue(p), Default(p.varPct, Zero))))
    BY <2>3, <2>4, FractionOps
  <2>6. IsFraction(NetRealizable(p))
    BY <2>4, <2>5, FractionOps DEF NetRealizable
  <2> QED BY <1>7, <2>1, <2>6 DEF BaseOf, IsAmount
<1> QED BY <1>4, <1>5, <1>6, <1>7 DEF Methods

\* What a form that is not refused holds.
LEMMA JointFormFacts ==
  ASSUME NEW f \in JointForms, ~RefusedSplit(f)
  PROVE  /\ IsFiniteSet(DOMAIN f.products) /\ IsAmount(f.total)
         /\ \A i \in DOMAIN f.products :
              /\ IsFraction(f.products[i].units) /\ IsPositive(f.products[i].units)
              /\ IsAmount(BaseOf(f.method, f.products[i]))
<1>1. /\ f.method \in Methods /\ IsFraction(f.total) /\ ~IsNegative(f.total)
      /\ Len(f.products) \in Nat /\ DOMAIN f.products = 1 .. Len(f.products)
  BY JointFormsAssumption DEF RefusedSplit
<1>2. IsFiniteSet(DOMAIN f.products)
  BY <1>1, FS_Interval, 1 \in Int, Len(f.products) \in Int
<1>3. ASSUME NEW i \in DOMAIN f.products
      PROVE  /\ IsFraction(f.products[i].units) /\ IsPositive(f.products[i].units)
             /\ IsAmount(BaseOf(f.method, f.products[i]))
  <2>1. PICK p : p = f.products[i]
    OBVIOUS
  <2>2. /\ IsFraction(p.units) /\ IsPositive(p.units) /\ ~NoBase(f.method, p)
        /\ IsOptional(p.yield) /\ IsOptional(p.price) /\ IsOptional(p.varPct)
        /\ IsOptional(p.fixedPerUnit)
    <3>1. IsFraction(p.units)
      BY <2>1, JointFormsAssumption
    <3>2. IsPositive(p.units) /\ ~NoBase(f.method, p)
      BY <2>1 DEF RefusedSplit
    <3>3. \A field \in {"yield", "price", "varPct", "fixedPerUnit"} : IsOptional(p[field])
      BY <2>1, JointFormsAssumption
    <3> QED BY <3>1, <3>2, <3>3
  <2>3. IsAmount(BaseOf(f.method, p))
    BY <1>1, <2>2, BaseIsAmount
  <2> QED BY <2>1, <2>2, <2>3
<1> QED BY <1>1, <1>2, <1>3 DEF IsAmount

\* The lines of a split bear its total.
LEMMA SplitBears ==
  ASSUME NEW f \in JointForms, ~RefusedSplit(f)
  PROVE  /\ SumOver(AllocatedCosts(f), DOMAIN f.products) = f.total
         /\ \A i \in DOMAIN f.products : IsAmount(AllocatedCosts(f)[i])
<1> DEFINE S == DOMAIN f.products
           k == Over(f.total, TotalBase(f))
<1>1. /\ IsFiniteSet(S) /\ IsAmount(f.total) /\ IsFraction(f.total)
      /\ \A i \in S : IsAmount(BaseOf(f.method, f.products[i]))
  BY JointFormFacts DEF IsAmount
<1>2. AreFractions(BasesOf(f), S)
  BY <1>1 DEF AreFractions, BasesOf, IsAmount
<1>3. TotalBase(f) = SumOver(BasesOf(f), S)
  BY DEF TotalBase, BasesOf
<1>4. IsFraction(TotalBase(f)) /\ IsPositive(TotalBase(f)) /\ TotalBase(f) # Zero /\ IsAmount(TotalBase(f))
  <2>1. IsFraction(TotalBase(f))
    BY <1>1, <1>2, <1>3, SumType
  <2>2. IsPositive(TotalBase(f))
    BY DEF RefusedSplit
  <2> QED BY <2>1, <2>2, PositiveFacts
<1>5. IsFraction(k)
  BY <1>1, <1>4, FractionOps
<1> HIDE DEF k
<1>6. ASSUME NEW i \in S
      PROVE  AllocatedCosts(f)[i] = Times(k, BasesOf(f)[i]) /\ IsAmount(AllocatedCosts(f)[i])
  <2>1. PICK b : b = BaseOf(f.method, f.products[i])
    OBVIOUS
  <2>2. IsAmount(b) /\ IsFraction(b) /\ BasesOf(f)[i] = b
    BY <1>1, <2>1 DEF BasesOf, IsAmount
  <2>3. AllocatedCosts(f)[i] = Times(Over(b, TotalBase(f)), f.total)
    BY <2>1 DEF AllocatedCosts
  <2>4. Times(Over(b, TotalBase(f)), f.total) = Times(k, b)
    BY <1>1, <1>4, <2>2, OverSwaps DEF k
  <2>5. IsAmount(Over(b, TotalBase(f)))
    BY <1>4, <2>2, AmountOps
  <2>6. IsAmount(Times(Over(b, TotalBase(f)), f.total))
    BY <1>1, <2>5, AmountOps
  <2> QED BY <2>2, <2>3, <2>4, <2>6
<1>7. SumOver(AllocatedCosts(f), S) = Times(k, SumOver(BasesOf(f), S))
  BY <1>1, <1>2, <1>5, <1>6, SumTimes
<1>8. Times(k, TotalBase(f)) = f.total
  BY <1>1, <1>4, OverTimes DEF k
<1> QED BY <1>3, <1>6, <1>7, <1>8

\* Every split that is saved bears its joint cost whole, none of its lines less than nothing,
\* and its unit costs say the same (save, allocate).
THEOREM JointSplitsAreWhole == JointCostsSpec => []JointCostIsBorneWhole
<1>1. JointCostsInit => JointCostIsBorneWhole
  BY DEF JointCostsInit, NoSplit, JointCostIsBorneWhole
<1>2. JointCostIsBorneWhole /\ [JointCostsNext]_split => JointCostIsBorneWhole'
  <2> SUFFICES ASSUME JointCostIsBorneWhole, [JointCostsNext]_split
               PROVE  JointCostIsBorneWhole'
    OBVIOUS
  <2>1. CASE UNCHANGED split
    BY <2>1 DEF JointCostIsBorneWhole
  <2>2. ASSUME NEW f \in JointForms, SaveSplit(f)
        PROVE  JointCostIsBorneWhole'
    <3> DEFINE S == DOMAIN f.products
               a == AllocatedCosts(f)
               u == [i \in S |-> Over(a[i], f.products[i].units)]
               back == [i \in S |-> Times(u[i], f.products[i].units)]
    <3>1. ~RefusedSplit(f)
      BY <2>2 DEF SaveSplit
    <3>2. /\ split'.allocated = a /\ split'.total = f.total /\ split'.products = f.products
          /\ split'.unitCost = u
      BY <2>2 DEF SaveSplit
    <3>3. DOMAIN a = S
      BY DEF AllocatedCosts
    <3>4. SumOver(a, S) = f.total /\ \A i \in S : IsAmount(a[i])
      BY <3>1, SplitBears
    <3>5. ASSUME NEW i \in S
          PROVE  back[i] = a[i]
      <4>1. IsFraction(f.products[i].units) /\ IsPositive(f.products[i].units)
        BY <3>1, JointFormFacts
      <4>2. f.products[i].units # Zero
        BY <4>1, PositiveFacts
      <4>3. IsFraction(a[i])
        BY <3>4 DEF IsAmount
      <4>4. back[i] = Times(Over(a[i], f.products[i].units), f.products[i].units)
        OBVIOUS
      <4> HIDE DEF back, a, S
      <4> QED BY <4>1, <4>2, <4>3, <4>4, OverTimes
    <3>6. IsFiniteSet(S)
      BY <3>1, JointFormFacts
    <3>7. SumOver(back, S) = SumOver(a, S)
      <4> HIDE DEF back, a, S
      <4> QED BY <3>5, <3>6, SumSame
    <3> HIDE DEF a, S
    <3> QED BY <3>2, <3>3, <3>4, <3>7 DEF JointCostIsBorneWhole, IsAmount, S
  <2> QED BY <2>1, <2>2 DEF JointCostsNext
<1> QED BY <1>1, <1>2, PTL DEF JointCostsSpec

-----------------------------------------------------------------------------
(* The inventory.                                                            *)

\* The last decimal kept.
LEMMA ScaleFacts == Scale \in Nat /\ Scale \in Int /\ Scale > 0
BY InventoryAssumption

\* A fraction multiplied by -1.
LEMMA NegatedAt ==
  ASSUME NEW x, NEW a \in Int, NEW d \in Int, d > 0, At(x, a, d)
  PROVE  At(Times(Whole(-1), x), -a, d)
<1>1. PICK o \in Int : o = -1
  OBVIOUS
<1>2. At(Whole(o), o, 1) /\ 1 \in Int /\ 1 > 0
  BY WholeAt
<1>3. At(Times(Whole(o), x), o * a, 1 * d)
  BY <1>2, TimesAt
<1>4. o * a = -a /\ 1 * d = d
  BY <1>1
<1> QED BY <1>1, <1>3, <1>4

\* HalfUnits, over a denominator.
LEMMA HalfAt ==
  ASSUME NEW x, NEW a \in Int, NEW d \in Int, d > 0, At(x, a, d), NEW e \in Int, e = 2 * (Scale * d)
  PROVE  e > 0 /\ At(HalfUnits(x), a, e)
<1>1. PICK s \in Int : s = 2 * Scale
  BY ScaleFacts
<1>2. s > 0 /\ s * d = e
  <2>1. s * d = 2 * (Scale * d)
    BY <1>1, ScaleFacts
  <2> QED BY <1>1, <2>1, ScaleFacts
<1>3. e > 0
  BY <1>2, ProductPositive
<1>4. At(Whole(s), s, 1)
  BY WholeAt
<1>5. At(Whole(s), s * d, 1 * d)
  BY <1>4, ScaleAt, 1 \in Int
<1>6. At(Whole(s), e, d)
  BY <1>2, <1>5, 1 * d = d
<1>7. At(Over(x, Whole(s)), a, e)
  BY <1>3, <1>6, OverAt
<1> QED BY <1>1, <1>3, <1>7 DEF HalfUnits

\* HalfUnits of a sum.
LEMMA HalfOfSum ==
  ASSUME NEW x, NEW y, IsFraction(x), IsFraction(y)
  PROVE  /\ HalfUnits(Plus(x, y)) = Plus(HalfUnits(x), HalfUnits(y)) /\ IsFraction(HalfUnits(x))
         /\ IsAmount(x) => IsAmount(HalfUnits(x))
<1>1. PICK a, b \in Int, d \in Nat : d > 0 /\ At(x, a, d) /\ At(y, b, d)
  BY TwoBase
<1>2. d \in Int /\ d > 0
  BY <1>1
<1>3. PICK e, n \in Int : e = 2 * (Scale * d) /\ n = a + b
  BY <1>2, ScaleFacts
<1>4. At(Plus(x, y), n, d)
  BY <1>1, <1>2, <1>3, PlusAt
<1>5. e > 0 /\ At(HalfUnits(x), a, e) /\ At(HalfUnits(y), b, e) /\ At(HalfUnits(Plus(x, y)), n, e)
  BY <1>1, <1>2, <1>3, <1>4, HalfAt
<1>6. At(Plus(HalfUnits(x), HalfUnits(y)), n, e)
  BY <1>3, <1>5, PlusAt
<1>7. (IsNegative(x) <=> a < 0) /\ (IsNegative(HalfUnits(x)) <=> a < 0)
  BY <1>1, <1>2, <1>5, OrderAt
<1> QED BY <1>5, <1>6, <1>7, SameAt DEF At, IsAmount

\* What an issue of q at the cost c may take of a stock h that is worth w: no more than there
\* is, the worth but for its rounding when it takes all, and not much more in any case.
Takes(q, c, h, w) ==
  /\ q = h => Near(w, Times(q, c), HalfUnits(q))
  /\ ~IsNegative(c) => AtMost(Times(q, c), HalfUnits(q)) \/ AtMost(Times(q, c), Plus(w, HalfUnits(q)))

\* An issue at the rounded average cost of the stock.
LEMMA IssueTakes ==
  ASSUME NEW h, NEW w, NEW q, IsFraction(h), IsFraction(w), IsAmount(q), IsPositive(h), AtMost(q, h)
  PROVE  Takes(q, Rounded(Over(w, h), Scale), h, w)
<1>1. PICK a, b, r \in Int, d \in Nat : d > 0 /\ At(w, a, d) /\ At(h, b, d) /\ At(q, r, d)
  BY ThreeBase DEF IsAmount
<1>2. d \in Int /\ d > 0 /\ Scale \in Int /\ Scale > 0
  BY <1>1, ScaleFacts
<1>3. b > 0 /\ r >= 0 /\ r <= b
  <2>1. (IsPositive(h) <=> b > 0) /\ (IsNegative(q) <=> r < 0) /\ (Less(h, q) <=> b < r)
    BY <1>1, <1>2, OrderAt
  <2> QED BY <2>1 DEF IsAmount, AtMost
<1>4. At(Over(w, h), a, b)
  BY <1>1, <1>2, <1>3, OverAt
<1> DEFINE c == Rounded(Over(w, h), Scale)
<1>5. PICK k \in Int : At(c, k, Scale) /\ IsNearest(k, Scale, a, b)
  <2>1. RoundsTo(Over(w, h), c, Scale)
    BY <1>2, <1>4, ScaleFacts, NearestFacts DEF Rounded, At
  <2> QED BY <1>2, <1>3, <1>4, <2>1, NearestAt
<1> HIDE DEF c
<1>6. PICK e, rk, kb, sa, w2, q2 \in Int :
        e = 2 * (Scale * d) /\ rk = r * k /\ kb = k * b /\ sa = a * Scale /\ w2 = 2 * sa /\ q2 = 2 * rk
  BY <1>2
<1>7. e > 0 /\ At(HalfUnits(q), r, e)
  BY <1>1, <1>2, <1>6, HalfAt
<1>8. At(Times(q, c), q2, e)
  <2>1. PICK f \in Int : f = d * Scale
    BY <1>2
  <2>2. At(Times(q, c), rk, f)
    BY <1>1, <1>2, <1>5, <1>6, <2>1, TimesAt
  <2>3. At(Times(q, c), rk * 2, f * 2) /\ 2 \in Int
    BY <2>2, ScaleAt
  <2>4. rk * 2 = q2 /\ f * 2 = e
    BY <1>2, <1>6, <2>1
  <2> QED BY <2>3, <2>4
<1>9. At(w, w2, e)
  <2>1. PICK f \in Int : f = 2 * Scale
    BY <1>2
  <2>2. At(w, a * f, d * f)
    BY <1>1, <1>2, <2>1, ScaleAt
  <2>3. a * f = w2 /\ d * f = e
    BY <1>2, <1>6, <2>1
  <2> QED BY <2>2, <2>3
<1>10. -b <= 2 * kb - w2 /\ 2 * kb - w2 <= b
  BY <1>5, <1>6 DEF IsNearest
<1>11. q = h => Near(w, Times(q, c), HalfUnits(q))
  <2> SUFFICES ASSUME q = h PROVE Near(w, Times(q, c), HalfUnits(q))
    OBVIOUS
  <2>1. r = b
    BY <1>1, <1>2, NumeratorAt
  <2>2. q2 = 2 * kb
    BY <2>1, <1>6
  <2>3. w2 <= q2 + r /\ q2 <= w2 + r
    BY <2>1, <2>2, <1>10
  <2> QED BY <2>3, <1>7, <1>8, <1>9, NearAt
<1>12. ASSUME ~IsNegative(c)
       PROVE  AtMost(Times(q, c), HalfUnits(q)) \/ AtMost(Times(q, c), Plus(w, HalfUnits(q)))
  <2>1. k >= 0
    <3>1. IsNegative(c) <=> k < 0
      BY <1>2, <1>5, OrderAt
    <3> QED BY <3>1, <1>12
  <2>2. CASE a >= 0
    <3>1. w2 >= 0
      BY <2>2, <1>2, <1>6, ProductPositive
    <3>2. PICK n \in Int : n = w2 + r
      OBVIOUS
    <3>3. q2 <= n
      <4>1. (b + w2 - 2 * kb) * r >= 0 /\ (b - r) * w2 >= 0
        BY <1>3, <1>10, <3>1, ProductPositive
      <4>2. PICK br, wr, wb, kbr \in Int : br = b * r /\ wr = w2 * r /\ wb = w2 * b /\ kbr = kb * r
        OBVIOUS
      <4>3. (b + w2 - 2 * kb) * r = br + wr - 2 * kbr /\ (b - r) * w2 = wb - wr
        BY <4>2
      <4>4. q2 * b = 2 * kbr /\ n * b = wb + br
        BY <4>2, <3>2, <1>6
      <4>5. PICK qb, nb \in Int : qb = q2 * b /\ nb = n * b
        OBVIOUS
      <4>6. ~(nb < qb)
        BY <4>1, <4>3, <4>4, <4>5
      <4> QED BY <4>5, <4>6, <1>3, Cancel
    <3>4. At(Plus(w, HalfUnits(q)), n, e)
      BY <3>2, <1>7, <1>9, PlusAt
    <3>5. Less(Plus(w, HalfUnits(q)), Times(q, c)) <=> n < q2
      BY <3>4, <1>7, <1>8, OrderAt
    <3> QED BY <3>3, <3>5 DEF AtMost
  <2>3. CASE a < 0
    <3>1. (-a) * Scale > 0 /\ (-a) * Scale = -sa
      BY <2>3, <1>2, <1>6, ProductPositive, -a \in Int
    <3>2. 2 * kb < b
      BY <3>1, <1>6, <1>10
    <3>3. k = 0
      <4> SUFFICES ASSUME k >= 1 PROVE FALSE
        BY <2>1
      <4>1. (k - 1) * b >= 0 /\ (k - 1) * b = kb - b
        BY <1>3, <1>6, ProductPositive
      <4> QED BY <4>1, <3>2, <1>3
    <3>4. q2 = 0
      BY <3>3, <1>6
    <3>5. Less(HalfUnits(q), Times(q, c)) <=> r < q2
      BY <1>7, <1>8, OrderAt
    <3> QED BY <3>4, <3>5, <1>3 DEF AtMost
  <2> QED BY <2>2, <2>3
<1> QED BY <1>11, <1>12 DEF Takes, c

\* What comes in leaves an issue as possible as it was.
LEMMA TakesGrows ==
  ASSUME NEW q, NEW c, NEW h, NEW w, NEW x, NEW y, IsFraction(q), IsFraction(c), IsFraction(h),
         IsFraction(w), IsAmount(x), IsAmount(y), x = Zero => y = Zero, AtMost(q, h), Takes(q, c, h, w)
  PROVE  AtMost(q, Plus(x, h)) /\ Takes(q, c, Plus(x, h), Plus(y, w))
<1>1. CASE x = Zero
  <2>1. Plus(x, h) = h /\ Plus(y, w) = w
    BY <1>1, PlusZero
  <2> QED BY <2>1
<1>2. CASE x # Zero
  <2>1. PICK a, b, r \in Int, d \in Nat : d > 0 /\ At(q, a, d) /\ At(h, b, d) /\ At(x, r, d)
    BY ThreeBase DEF IsAmount
  <2>2. d \in Int /\ d > 0
    BY <2>1
  <2>3. PICK n \in Int : n = r + b
    OBVIOUS
  <2>4. At(Plus(x, h), n, d)
    BY <2>1, <2>2, <2>3, PlusAt
  <2>5. r > 0 /\ a <= b
    <3>1. (IsNegative(x) <=> r < 0) /\ (Less(h, q) <=> b < a)
      BY <2>1, <2>2, OrderAt
    <3>2. r # 0
      BY <1>2, <2>1, <2>2, ZeroAt, SameAt
    <3> QED BY <3>1, <3>2 DEF AtMost, IsAmount
  <2>6. AtMost(q, Plus(x, h)) /\ q # Plus(x, h)
    <3>1. (Less(Plus(x, h), q) <=> n < a)
      BY <2>1, <2>2, <2>4, OrderAt
    <3>2. q = Plus(x, h) => a = n
      BY <2>1, <2>2, <2>4, NumeratorAt
    <3> QED BY <3>1, <3>2, <2>3, <2>5 DEF AtMost
  <2>7. IsFraction(Times(q, c)) /\ IsFraction(HalfUnits(q)) /\ IsFraction(y)
    BY FractionOps, HalfOfSum DEF IsAmount
  <2>8. ASSUME AtMost(Times(q, c), Plus(w, HalfUnits(q)))
        PROVE  AtMost(Times(q, c), Plus(Plus(y, w), HalfUnits(q)))
    <3>1. PICK e, f, g, k \in Int, z \in Nat :
            z > 0 /\ At(Times(q, c), e, z) /\ At(w, f, z) /\ At(y, g, z) /\ At(HalfUnits(q), k, z)
      <4>1. FourOver(Times(q, c), w, y, HalfUnits(q))
        BY <2>7, FourBase
      <4> QED BY <4>1 DEF FourOver
    <3>2. z \in Int /\ z > 0
      BY <3>1
    <3>3. PICK u, v, t \in Int : u = f + k /\ v = g + f /\ t = v + k
      OBVIOUS
    <3>4. At(Plus(w, HalfUnits(q)), u, z) /\ At(Plus(y, w), v, z)
      BY <3>1, <3>2, <3>3, PlusAt
    <3>5. At(Plus(Plus(y, w), HalfUnits(q)), t, z)
      BY <3>1, <3>2, <3>3, <3>4, PlusAt
    <3>6. (Less(Plus(w, HalfUnits(q)), Times(q, c)) <=> u < e) /\ (IsNegative(y) <=> g < 0)
      BY <3>1, <3>2, <3>4, OrderAt
    <3>7. Less(Plus(Plus(y, w), HalfUnits(q)), Times(q, c)) <=> t < e
      BY <3>1, <3>2, <3>5, OrderAt
    <3> QED BY <2>8, <3>3, <3>6, <3>7 DEF AtMost, IsAmount
  <2> QED BY <2>6, <2>8 DEF Takes
<1> QED BY <1>1, <1>2

\* What is left of the worth, and of the bound on what may be wanting, after an issue for p.
LEMMA IssueLeaves ==
  ASSUME NEW w, NEW p, NEW u, NEW v, IsFraction(w), IsFraction(p), IsFraction(u), IsAmount(v)
  PROVE  /\ Near(w, p, u) => Near(Plus(Times(Whole(-1), p), w), Zero, u)
         /\ AtMost(Zero, Plus(w, v)) /\ (AtMost(p, u) \/ AtMost(p, Plus(w, u)))
              => AtMost(Zero, Plus(Plus(Times(Whole(-1), p), w), Plus(u, v)))
<1>1. PICK a, b, c, e \in Int, d \in Nat :
        d > 0 /\ At(w, a, d) /\ At(p, b, d) /\ At(u, c, d) /\ At(v, e, d)
  BY FourBase DEF FourOver, IsAmount
<1>2. d \in Int /\ d > 0 /\ 0 \in Int /\ At(Zero, 0, d)
  BY <1>1, ZeroAt
<1>3. PICK o, n, av, uv, wu, t \in Int :
        o = -b /\ n = o + a /\ av = a + e /\ uv = c + e /\ wu = a + c /\ t = n + uv
  OBVIOUS
<1>4. At(Times(Whole(-1), p), o, d)
  BY <1>1, <1>2, <1>3, NegatedAt
<1> DEFINE z == Plus(Times(Whole(-1), p), w)
<1>5. At(z, n, d) /\ At(Plus(w, v), av, d) /\ At(Plus(u, v), uv, d) /\ At(Plus(w, u), wu, d)
  BY <1>1, <1>2, <1>3, <1>4, PlusAt
<1> HIDE DEF z
<1>6. At(Plus(z, Plus(u, v)), t, d)
  BY <1>2, <1>3, <1>5, PlusAt
<1>7. Near(w, p, u) => Near(z, Zero, u)
  <2>1. Near(w, p, u) <=> a <= b + c /\ b <= a + c
    BY <1>1, <1>2, NearAt
  <2>2. Near(z, Zero, u) <=> n <= 0 + c /\ 0 <= n + c
    BY <1>1, <1>2, <1>5, NearAt
  <2> QED BY <1>3, <2>1, <2>2
<1>8. /\ (Less(Plus(w, v), Zero) <=> av < 0) /\ (Less(u, p) <=> c < b) /\ (Less(Plus(w, u), p) <=> wu < b)
      /\ (Less(Plus(z, Plus(u, v)), Zero) <=> t < 0) /\ (IsNegative(v) <=> e < 0)
  BY <1>1, <1>2, <1>5, <1>6, OrderAt
<1> QED BY <1>3, <1>7, <1>8 DEF AtMost, IsAmount, z

\* What is added to the worth does not raise what may be wanting.
LEMMA WorthGrows ==
  ASSUME NEW w, NEW v, NEW y, IsFraction(w), IsFraction(v), IsAmount(y), AtMost(Zero, Plus(w, v))
  PROVE  AtMost(Zero, Plus(Plus(y, w), v))
<1>1. PICK a, b, c \in Int, d \in Nat : d > 0 /\ At(w, a, d) /\ At(v, b, d) /\ At(y, c, d)
  BY ThreeBase DEF IsAmount
<1>2. d \in Int /\ d > 0 /\ 0 \in Int /\ At(Zero, 0, d)
  BY <1>1, ZeroAt
<1>3. PICK n, s, t \in Int : n = a + b /\ s = c + a /\ t = s + b
  OBVIOUS
<1>4. At(Plus(w, v), n, d) /\ At(Plus(y, w), s, d)
  BY <1>1, <1>2, <1>3, PlusAt
<1>5. At(Plus(Plus(y, w), v), t, d)
  BY <1>1, <1>2, <1>3, <1>4, PlusAt
<1>6. /\ Less(Plus(w, v), Zero) <=> n < 0
      /\ Less(Plus(Plus(y, w), v), Zero) <=> t < 0
      /\ IsNegative(y) <=> c < 0
  BY <1>1, <1>2, <1>4, <1>5, OrderAt
<1> QED BY <1>3, <1>6 DEF AtMost, IsAmount

\* x, multiplied by -1, and added to y.
LEMMA Subtracts ==
  ASSUME NEW x, NEW y, IsFraction(x), IsFraction(y)
  PROVE  /\ IsFraction(Plus(Times(Whole(-1), x), y))
         /\ AtMost(x, y) => IsAmount(Plus(Times(Whole(-1), x), y))
         /\ Plus(Times(Whole(-1), x), y) = Zero <=> x = y
<1>1. PICK a, b \in Int, d \in Nat : d > 0 /\ At(x, a, d) /\ At(y, b, d)
  BY TwoBase
<1>2. d \in Int /\ d > 0
  BY <1>1
<1>3. PICK o \in Int : o = -1
  OBVIOUS
<1>4. At(Whole(o), o, 1) /\ 1 \in Int /\ 1 > 0
  BY WholeAt
<1>5. At(Times(Whole(o), x), o * a, 1 * d)
  BY <1>1, <1>2, <1>4, TimesAt
<1>6. o * a = -a /\ 1 * d = d /\ -a \in Int
  BY <1>3
<1>7. At(Times(Whole(o), x), -a, d)
  BY <1>5, <1>6
<1>8. PICK z, n : z = Plus(Times(Whole(o), x), y) /\ n = -a + b
  OBVIOUS
<1>9. At(z, n, d) /\ n \in Int /\ n = b - a
  BY <1>1, <1>2, <1>6, <1>7, <1>8, PlusAt
<1>10. (IsNegative(z) <=> n < 0) /\ (Less(y, x) <=> b < a)
  BY <1>1, <1>2, <1>9, OrderAt
<1>11. z = Zero <=> n = 0
  <2>1. At(Zero, 0, d) /\ 0 \in Int
    BY <1>2, ZeroAt
  <2>2. n = 0 => z = Zero
    BY <1>2, <1>9, <2>1, SameAt
  <2>3. (IsNegative(z) <=> n < 0) /\ (IsPositive(z) <=> n > 0)
    BY <1>2, <1>9, OrderAt
  <2>4. (IsNegative(Zero) <=> 0 < 0) /\ (IsPositive(Zero) <=> 0 > 0)
    BY <1>2, <2>1, OrderAt
  <2> QED BY <1>9, <2>2, <2>3, <2>4
<1>12. x = y <=> a = b
  <2>1. a = b => x = y
    BY <1>1, <1>2, SameAt
  <2>2. (Less(x, y) <=> a < b) /\ (Less(y, x) <=> b < a)
    BY <1>1, <1>2, OrderAt
  <2>3. Less(x, x) <=> a < a
    BY <1>1, <1>2, OrderAt
  <2> QED BY <2>1, <2>2, <2>3
<1> QED BY <1>3, <1>8, <1>9, <1>10, <1>11, <1>12 DEF At, IsAmount, AtMost

Fractional == {x \in Int \X (Nat \ {0}) : IsFraction(x)}
MoveKinds == {"INGRESO", "AJUSTE", "SALIDA", "DEVOLUCION", "TRANSFERENCIA"}
\* What the columns keep: quantities that are not negative, of whole units of the last decimal.
OnGrid(x) == \E n \in Int : At(x, n, Scale)
KeptQuantities == {x \in Fractional : ~IsNegative(x) /\ OnGrid(x)}
MoveRecords == [tipo : MoveKinds, qty : KeptQuantities, cost : Fractional, order : Orders \cup {"none"},
               source : Nat, period : {e.period : e \in Entries} \cup {0},
               doc : {e.doc : e \in Entries} \cup {"none"}]

\* The sums of the stock and of its worth, of any sequence of movements.
Quantity(ms, S) == SumOver([i \in S |-> Times(Sign(ms[i].tipo), ms[i].qty)], S)
Value(ms, S) ==
  SumOver([i \in S |-> Times(Sign(ms[i].tipo), Times(ms[i].qty, ms[i].cost))], S)

\* The fractions are a set.
LEMMA IsFractional ==
  ASSUME NEW x
  PROVE  x \in Fractional <=> IsFraction(x)
BY DEF Fractional, IsFraction

\* The sign of a movement is a fraction.
LEMMA SignFacts ==
  ASSUME NEW tipo
  PROVE  IsFraction(Sign(tipo))
<1>1. IsFraction(Whole(-1)) /\ IsFraction(Zero) /\ IsFraction(One)
  BY WholeAt, -1 \in Int, 0 \in Int, 1 \in Int DEF At, Zero, One
<1> QED BY <1>1 DEF Sign

\* What a movement adds to the stock, and to its worth, is a fraction.
LEMMA MoveFractions ==
  ASSUME NEW m \in MoveRecords
  PROVE  /\ IsFraction(m.qty) /\ IsFraction(m.cost) /\ IsAmount(m.qty) /\ OnGrid(m.qty)
         /\ IsFraction(Times(Sign(m.tipo), m.qty)) /\ IsFraction(Times(m.qty, m.cost))
         /\ IsFraction(Times(Sign(m.tipo), Times(m.qty, m.cost)))
<1>1. IsFraction(m.qty) /\ IsFraction(m.cost) /\ IsAmount(m.qty) /\ OnGrid(m.qty)
  BY IsFractional DEF MoveRecords, KeptQuantities, IsAmount
<1>2. IsFraction(Times(m.qty, m.cost)) /\ IsFraction(Sign(m.tipo))
  BY <1>1, SignFacts, FractionOps
<1> QED BY <1>1, <1>2, FractionOps

\* The sums are fractions.
LEMMA SumsOfMoves ==
  ASSUME NEW ms \in Seq(MoveRecords), NEW S, S \subseteq DOMAIN ms
  PROVE  IsFiniteSet(S) /\ IsFraction(Quantity(ms, S)) /\ IsFraction(Value(ms, S))
<1>1. IsFiniteSet(S)
  <2>1. IsFiniteSet(1 .. Len(ms))
    BY FS_Interval, 1 \in Int, Len(ms) \in Int
  <2>2. S \in SUBSET (1 .. Len(ms))
    OBVIOUS
  <2> QED BY <2>1, <2>2, FS_Subset
<1>2. \A i \in S : ms[i] \in MoveRecords
  OBVIOUS
<1> DEFINE q == [i \in S |-> Times(Sign(ms[i].tipo), ms[i].qty)]
           v == [i \in S |-> Times(Sign(ms[i].tipo), Times(ms[i].qty, ms[i].cost))]
<1>3. AreFractions(q, S) /\ AreFractions(v, S)
  BY <1>2, MoveFractions DEF AreFractions
<1> HIDE DEF q, v
<1>4. IsFraction(SumOver(q, S)) /\ IsFraction(SumOver(v, S))
  BY <1>1, <1>3, SumType
<1> QED BY <1>1, <1>4 DEF q, v, Quantity, Value

\* The sums after one more movement.
LEMMA SumsOfAppend ==
  ASSUME NEW ms \in Seq(MoveRecords), NEW m \in MoveRecords
  PROVE  LET after == Append(ms, m)
         IN /\ Quantity(after, DOMAIN after)
                 = Plus(Times(Sign(m.tipo), m.qty), Quantity(ms, DOMAIN ms))
            /\ Value(after, DOMAIN after)
                 = Plus(Times(Sign(m.tipo), Times(m.qty, m.cost)), Value(ms, DOMAIN ms))
<1> DEFINE after == Append(ms, m)
           n == Len(ms)
           S == DOMAIN ms
           T == DOMAIN after
           q == [i \in S |-> Times(Sign(ms[i].tipo), ms[i].qty)]
           v == [i \in S |-> Times(Sign(ms[i].tipo), Times(ms[i].qty, ms[i].cost))]
           aq == [i \in T |-> Times(Sign(after[i].tipo), after[i].qty)]
           av == [i \in T |-> Times(Sign(after[i].tipo), Times(after[i].qty, after[i].cost))]
<1>1. /\ n \in Nat /\ S = 1 .. n /\ T = S \cup {n + 1} /\ n + 1 \notin S
      /\ after[n + 1] = m /\ \A i \in S : after[i] = ms[i]
  OBVIOUS
<1>2. IsFiniteSet(S)
  BY SumsOfMoves
<1>3. \A i \in S : aq[i] = q[i] /\ av[i] = v[i]
  BY <1>1
<1>4. aq[n + 1] = Times(Sign(m.tipo), m.qty) /\ av[n + 1] = Times(Sign(m.tipo), Times(m.qty, m.cost))
  BY <1>1
<1>5. \A i \in S : ms[i] \in MoveRecords
  OBVIOUS
<1>6. AreFractions(q, S) /\ AreFractions(v, S)
  BY <1>5, MoveFractions DEF AreFractions
<1>7. Quantity(ms, S) = SumOver(q, S) /\ Value(ms, S) = SumOver(v, S)
      /\ Quantity(after, T) = SumOver(aq, T) /\ Value(after, T) = SumOver(av, T)
  BY DEF Quantity, Value
<1>8. IsFraction(Times(Sign(m.tipo), m.qty)) /\ IsFraction(Times(Sign(m.tipo), Times(m.qty, m.cost)))
  BY MoveFractions
<1> HIDE DEF q, v, aq, av, S, T, n, after
<1>9. AreFractions(aq, S) /\ AreFractions(av, S)
  BY <1>3, <1>6 DEF AreFractions
<1>10. SumOver(aq, S) = SumOver(q, S) /\ SumOver(av, S) = SumOver(v, S)
  BY <1>2, <1>3, SumSame
<1>11. SumOver(aq, T) = Plus(aq[n + 1], SumOver(aq, S))
  BY <1>1, <1>2, <1>4, <1>8, <1>9, SumAdds
<1>12. SumOver(av, T) = Plus(av[n + 1], SumOver(av, S))
  BY <1>1, <1>2, <1>4, <1>8, <1>9, SumAdds
<1> QED BY <1>4, <1>7, <1>10, <1>11, <1>12 DEF S, T, after

\* What was issued, of any sequence of movements.
IssuesOf(ms) == {i \in DOMAIN ms : ms[i].tipo = "SALIDA"}
IssuedOf(ms) == SumOver([i \in IssuesOf(ms) |-> ms[i].qty], IssuesOf(ms))

\* What was issued, after one more movement.
LEMMA IssuedOfAppend ==
  ASSUME NEW ms \in Seq(MoveRecords), NEW m \in MoveRecords
  PROVE  /\ IsAmount(IssuedOf(ms))
         /\ IssuedOf(Append(ms, m))
              = IF m.tipo = "SALIDA" THEN Plus(m.qty, IssuedOf(ms)) ELSE IssuedOf(ms)
<1> DEFINE after == Append(ms, m)
           n == Len(ms)
           S == IssuesOf(ms)
           T == IssuesOf(after)
           q == [i \in S |-> ms[i].qty]
           aq == [i \in T |-> after[i].qty]
<1>1. /\ n \in Nat /\ DOMAIN ms = 1 .. n /\ DOMAIN after = (1 .. n) \cup {n + 1}
      /\ after[n + 1] = m /\ \A i \in 1 .. n : after[i] = ms[i] /\ i # n + 1
  OBVIOUS
<1>2. T = (IF m.tipo = "SALIDA" THEN S \cup {n + 1} ELSE S) /\ n + 1 \notin S
  BY <1>1 DEF IssuesOf
<1>3. IsFiniteSet(S)
  BY SumsOfMoves DEF IssuesOf
<1>4. \A i \in S : ms[i] \in MoveRecords /\ after[i] = ms[i] /\ i \in T
  BY <1>1, <1>2 DEF IssuesOf
<1>5. \A i \in S : IsAmount(q[i]) /\ aq[i] = q[i]
  BY <1>4, MoveFractions
<1>6. n + 1 \in T => aq[n + 1] = m.qty
  BY <1>1
<1>7. IssuedOf(ms) = SumOver(q, S) /\ IssuedOf(after) = SumOver(aq, T)
  BY DEF IssuedOf
<1>8. IsFraction(m.qty)
  BY MoveFractions
<1> HIDE DEF S, T, q, aq, after, n
<1>9. AreFractions(q, S) /\ AreFractions(aq, S)
  BY <1>5 DEF AreFractions, IsAmount
<1>10. SumOver(aq, S) = SumOver(q, S)
  BY <1>3, <1>5, SumSame
<1>11. IsAmount(SumOver(q, S))
  BY <1>3, <1>5, SumOfAmounts
<1>12. CASE m.tipo = "SALIDA"
  <2>1. SumOver(aq, S \cup {n + 1}) = Plus(aq[n + 1], SumOver(aq, S))
    BY <1>2, <1>3, <1>6, <1>8, <1>9, <1>12, SumAdds
  <2> QED BY <1>2, <1>6, <1>7, <1>10, <1>11, <1>12, <2>1 DEF after
<1>13. CASE m.tipo # "SALIDA"
  BY <1>2, <1>7, <1>10, <1>11, <1>13 DEF after
<1> QED BY <1>12, <1>13

\* The stock and its worth are these sums.
LEMMA StockIs ==
  /\ OnHand = Quantity(moves, DOMAIN moves) /\ Worth = Value(moves, DOMAIN moves)
  /\ Issued = IssuedOf(moves) /\ Issues = IssuesOf(moves)
  /\ \A S : Moved(S) = Quantity(moves, S) /\ Valued(S) = Value(moves, S)
BY DEF OnHand, Worth, Moved, Valued, Quantity, Value, Issued, Issues, IssuedOf, IssuesOf

\* ... and so are those of the next state.
LEMMA NewStockIs ==
  /\ OnHand' = Quantity(moves', DOMAIN moves') /\ Worth' = Value(moves', DOMAIN moves')
  /\ Issued' = IssuedOf(moves') /\ Issues' = IssuesOf(moves')
BY DEF OnHand, Worth, Moved, Valued, Quantity, Value, Issued, Issues, IssuedOf, IssuesOf

-----------------------------------------------------------------------------

\* A request between its two steps holds a movement, and what others recorded in between
\* has crossed it or not.
Holds(c, m, crossed) == client[c] = [move |-> m, crossed |-> crossed]
InFlight(c) == \E m \in MoveRecords, b \in BOOLEAN : Holds(c, m, b)

InventoryTyped ==
  /\ moves \in Seq(MoveRecords) /\ raced \in BOOLEAN
  /\ client = [c \in Clients |-> client[c]]
  /\ \A c \in Clients : client[c] = Waiting \/ InFlight(c)

\* Under the moving average; under the other policy the costs may take more than there is.
Moving == policy.ppp = "MOVIL"
Emptied == OnHand = Zero /\ Worth # Zero => \E i \in Issues : Near(Worth, Zero, HalfUnits(moves[i].qty))
Cheap == \A i \in DOMAIN moves : ~IsNegative(moves[i].cost)
WorthHeld == Cheap => AtMost(Zero, Plus(Worth, HalfUnits(Issued)))
StockSound == IsAmount(OnHand) /\ (Moving => Emptied /\ WorthHeld)
Entry(m) == m.tipo \in {"INGRESO", "AJUSTE"}
Possible(m) ==
  m.tipo = "SALIDA" => AtMost(m.qty, OnHand) /\ (Moving => Takes(m.qty, m.cost, OnHand, Worth))
Priced(m) == Entry(m) => IsAmount(m.cost)

InventoryInv ==
  /\ InventoryTyped /\ OnGrid(OnHand)
  /\ \A c \in Clients, m \in MoveRecords, b \in BOOLEAN : Holds(c, m, b) => Priced(m)
  /\ ~raced =>
       /\ StockSound
       /\ \A c \in Clients, m \in MoveRecords : Holds(c, m, FALSE) => Possible(m)

\* No movement, and nothing in stock.
LEMMA InventoryStart == InventoryInit => InventoryInv
<1> SUFFICES ASSUME InventoryInit PROVE InventoryInv
  OBVIOUS
<1>1. moves = << >> /\ raced = FALSE /\ client = [c \in Clients |-> Waiting]
  BY DEF InventoryInit
<1>2. InventoryTyped
  <2>1. \A c \in Clients : client[c] = Waiting
    BY <1>1
  <2>2. client = [c \in Clients |-> client[c]]
    <3>1. [c \in Clients |-> Waiting] = [c \in Clients |-> client[c]]
      BY <2>1
    <3> QED BY <3>1, <1>1
  <2>3. raced \in BOOLEAN
    BY <1>1, Zenon
  <2>4. moves \in Seq(MoveRecords)
    BY <1>1
  <2> QED BY <2>1, <2>2, <2>3, <2>4, Zenon DEF InventoryTyped
<1>3. OnHand = Zero /\ Worth = Zero
  <2>1. DOMAIN moves = {}
    BY <1>1
  <2> QED BY <2>1, SumEmpty, StockIs DEF Quantity, Value
<1>4. IsAmount(Zero)
  <2>1. IsFraction(Zero) /\ (IsNegative(Zero) <=> 0 < 0)
    BY ZeroAt, OrderAt, 1 \in Int, 0 \in Int, 1 > 0 DEF At
  <2> QED BY <2>1 DEF IsAmount
<1>5. StockSound
  <2>1. Issues = {}
    BY <1>1 DEF Issues
  <2>2. Issued = Zero
    BY <2>1, SumEmpty DEF Issued
  <2>3. IsAmount(HalfUnits(Zero)) /\ IsFraction(HalfUnits(Zero))
    BY <1>4, HalfOfSum DEF IsAmount
  <2>4. AtMost(Zero, HalfUnits(Zero))
    <3>1. PICK a \in Int, d \in Nat : d > 0 /\ At(HalfUnits(Zero), a, d)
      BY <2>3, Parts
    <3>2. d \in Int /\ 0 \in Int /\ At(Zero, 0, d)
      BY <3>1, ZeroAt
    <3>3. (Less(HalfUnits(Zero), Zero) <=> a < 0) /\ (IsNegative(HalfUnits(Zero)) <=> a < 0)
      BY <3>1, <3>2, OrderAt
    <3> QED BY <3>3, <2>3 DEF AtMost, IsAmount
  <2>5. Plus(Worth, HalfUnits(Issued)) = HalfUnits(Zero)
    BY <1>3, <2>2, <2>3, PlusZero
  <2> QED BY <1>3, <1>4, <2>4, <2>5 DEF StockSound, Emptied, WorthHeld
<1>6. ASSUME NEW c \in Clients, NEW m \in MoveRecords, NEW b \in BOOLEAN
      PROVE  ~Holds(c, m, b)
  <2>1. m.tipo # "none"
    BY DEF MoveRecords, MoveKinds
  <2>2. client[c].move.tipo = "none"
    BY <1>1 DEF Waiting
  <2> QED BY <2>1, <2>2 DEF Holds
<1>7. OnGrid(OnHand)
  BY <1>3, ScaleFacts, ZeroAt, 0 \in Int DEF OnGrid
<1> QED BY <1>2, <1>5, <1>6, <1>7 DEF InventoryInv

\* A request that is accepted holds its movement, and nobody else changes.
LEMMA AcceptStep ==
  ASSUME InventoryInv, NEW c \in Clients, NEW move, NEW m \in MoveRecords, m = Kept(move),
         Accepts(c, move), Priced(m), ~raced => Possible(m)
  PROVE  InventoryInv'
<1>1. /\ moves' = moves /\ raced' = raced /\ policy' = policy
      /\ client' = [client EXCEPT ![c].move = m] /\ client[c] = Waiting
  BY DEF Accepts
<1>2. client = [k \in Clients |-> client[k]]
  BY DEF InventoryInv, InventoryTyped
<1>3. /\ client'[c] = [move |-> m, crossed |-> FALSE]
      /\ \A k \in Clients : k # c => client'[k] = client[k]
      /\ client' = [k \in Clients |-> client'[k]]
  <2>1. client' = [k \in Clients |-> IF k = c THEN [client[c] EXCEPT !.move = m] ELSE client[k]]
    BY <1>1, <1>2
  <2>2. [client[c] EXCEPT !.move = m] = [move |-> m, crossed |-> FALSE]
    <3>1. [Waiting EXCEPT !.move = m] = [move |-> m, crossed |-> FALSE]
      <4> DEFINE none == [tipo |-> "none"]
      <4>1. ASSUME NEW u, NEW v PROVE [[move |-> u, crossed |-> v] EXCEPT !.move = m] = [move |-> m, crossed |-> v]
        OBVIOUS
      <4>2. Waiting = [move |-> none, crossed |-> FALSE]
        BY DEF Waiting
      <4> HIDE DEF none
      <4> QED BY <4>1, <4>2, Zenon
    <3> QED BY <3>1, <1>1
  <2> QED BY <2>1, <2>2
<1>4. Holds(c, m, FALSE)'
  BY <1>3 DEF Holds
<1>5. \A k \in Clients, t \in MoveRecords, b \in BOOLEAN : k # c => (Holds(k, t, b)' <=> Holds(k, t, b))
  BY <1>3 DEF Holds
<1>6. \A t \in MoveRecords, b \in BOOLEAN : Holds(c, t, b)' => t = m /\ b = FALSE
  BY <1>3 DEF Holds
<1>7. InventoryTyped'
  <2>1. \A k \in Clients : client'[k] = Waiting \/ InFlight(k)'
    <3> SUFFICES ASSUME NEW k \in Clients PROVE client'[k] = Waiting \/ InFlight(k)'
      OBVIOUS
    <3>1. CASE k = c
      BY <1>4, <3>1 DEF InFlight
    <3>2. CASE k # c
      <4>1. client[k] = Waiting \/ InFlight(k)
        BY DEF InventoryInv, InventoryTyped
      <4> QED BY <1>3, <1>5, <3>2, <4>1 DEF InFlight
    <3> QED BY <3>1, <3>2
  <2>2. moves' \in Seq(MoveRecords) /\ raced' \in BOOLEAN
    BY <1>1 DEF InventoryInv, InventoryTyped
  <2> QED BY <1>3, <2>1, <2>2, Zenon DEF InventoryTyped
<1>8. /\ OnHand' = OnHand /\ Worth' = Worth /\ (Moving' <=> Moving)
      /\ Issued' = Issued /\ Issues' = Issues
  BY <1>1, StockIs, NewStockIs DEF Moving
<1>9. \A t \in MoveRecords : (Priced(t)' <=> Priced(t)) /\ (Possible(t)' <=> Possible(t))
  BY <1>8 DEF Priced, Possible
<1>10. StockSound' <=> StockSound
  BY <1>1, <1>8 DEF StockSound, Emptied, WorthHeld, Cheap
<1>11. ASSUME NEW k \in Clients, NEW t \in MoveRecords, NEW b \in BOOLEAN, Holds(k, t, b)'
       PROVE  Priced(t)' /\ (~raced' /\ ~b => Possible(t)')
  <2>1. CASE k = c
    <3>1. t = m
      BY <1>6, <1>11, <2>1
    <3> QED BY <1>1, <1>9, <3>1
  <2>2. CASE k # c
    <3>1. Holds(k, t, b)
      BY <1>5, <1>11, <2>2
    <3>2. Priced(t)
      BY <3>1 DEF InventoryInv
    <3>3. ~raced /\ b = FALSE => Possible(t)
      BY <3>1 DEF InventoryInv
    <3> QED BY <1>1, <1>9, <3>2, <3>3
  <2> QED BY <2>1, <2>2
<1>12. OnGrid(OnHand)'
  BY <1>8 DEF InventoryInv, OnGrid
<1>13. ~raced' => StockSound'
  BY <1>1, <1>10 DEF InventoryInv
<1> QED BY <1>7, <1>11, <1>12, <1>13 DEF InventoryInv

\* The numbers that registrar reads are fractions.
LEMMA StockFractions ==
  ASSUME InventoryInv
  PROVE  /\ IsFraction(OnHand) /\ IsFraction(Worth) /\ IsFraction(Ppp) /\ moves \in Seq(MoveRecords)
         /\ \A S \in SUBSET DOMAIN moves : IsFraction(Moved(S)) /\ IsFraction(Valued(S))
<1>1. moves \in Seq(MoveRecords)
  BY DEF InventoryInv, InventoryTyped
<1>2. \A S \in SUBSET DOMAIN moves : IsFraction(Moved(S)) /\ IsFraction(Valued(S))
  BY <1>1, SumsOfMoves, StockIs
<1>3. IsFraction(OnHand) /\ IsFraction(Worth)
  BY <1>2, StockIs, DOMAIN moves \in SUBSET DOMAIN moves
<1>4. IsFraction(Zero)
  BY ZeroAt, 1 \in Int DEF At
<1>5. OnHand # Zero => IsFraction(Over(Worth, OnHand))
  BY <1>3, FractionOps
<1> QED BY <1>1, <1>2, <1>3, <1>4, <1>5 DEF Ppp

\* What is kept of a movement: its quantity and its cost, rounded.
LEMMA KeptFacts ==
  ASSUME NEW tipo, NEW qty, NEW cost, NEW order, NEW source, NEW period, NEW doc,
         IsFraction(qty), IsPositive(qty), IsFraction(cost)
  PROVE  /\ Kept(Move(tipo, qty, cost, order, source, period, doc))
              = Move(tipo, Stored(qty, Scale), Rounded(cost, Scale), order, source, period, doc)
         /\ Stored(qty, Scale) \in KeptQuantities /\ Rounded(cost, Scale) \in Fractional
         /\ IsAmount(cost) => IsAmount(Rounded(cost, Scale))
         /\ \A h : OnGrid(h) /\ AtMost(qty, h) => AtMost(Stored(qty, Scale), h)
<1>1. ASSUME NEW q, NEW c, NEW q2, NEW c2
      PROVE  [[tipo |-> tipo, qty |-> q, cost |-> c, order |-> order, source |-> source,
               period |-> period, doc |-> doc] EXCEPT !.qty = q2, !.cost = c2]
               = [tipo |-> tipo, qty |-> q2, cost |-> c2, order |-> order, source |-> source,
                  period |-> period, doc |-> doc]
  <2> DEFINE R(x, y) == [tipo |-> tipo, qty |-> x, cost |-> y, order |-> order, source |-> source,
                         period |-> period, doc |-> doc]
  <2>1. [R(q, c) EXCEPT !.qty = q2] = R(q2, c)
    OBVIOUS
  <2>2. [R(q2, c) EXCEPT !.cost = c2] = R(q2, c2)
    OBVIOUS
  <2>3. [[R(q, c) EXCEPT !.qty = q2] EXCEPT !.cost = c2] = R(q2, c2)
    BY <2>1, <2>2, Zenon
  <2> QED BY <2>3, Zenon
<1> DEFINE m == Move(tipo, qty, cost, order, source, period, doc)
<1>2. m.qty = qty /\ m.cost = cost
  BY DEF Move
<1>3. Kept(m) = [m EXCEPT !.qty = Stored(qty, Scale), !.cost = Rounded(cost, Scale)]
  BY <1>2 DEF Kept
<1>4. Kept(m) = Move(tipo, Stored(qty, Scale), Rounded(cost, Scale), order, source, period, doc)
  BY <1>1, <1>3, Zenon DEF Move
<1> HIDE DEF m
<1>5. RoundsTo(qty, Stored(qty, Scale), Scale) /\ RoundsTo(cost, Rounded(cost, Scale), Scale)
  BY ScaleFacts, NearestFacts DEF Stored, Rounded
<1>6. /\ IsAmount(Stored(qty, Scale)) /\ IsFraction(Rounded(cost, Scale))
      /\ IsAmount(cost) => IsAmount(Rounded(cost, Scale))
  BY <1>5, ScaleFacts, NearestOrder, PositiveFacts
<1>7. OnGrid(Stored(qty, Scale))
  BY <1>5 DEF RoundsTo, OnGrid
<1>8. \A h : OnGrid(h) /\ AtMost(qty, h) => AtMost(Stored(qty, Scale), h)
  BY <1>5, ScaleFacts, NearestOrder DEF OnGrid
<1>9. Stored(qty, Scale) \in KeptQuantities /\ Rounded(cost, Scale) \in Fractional
  BY <1>6, <1>7, IsFractional DEF KeptQuantities, IsAmount
<1> QED BY <1>4, <1>6, <1>8, <1>9 DEF m

\* A purchase or an adjustment is accepted with the cost it was sent with.
LEMMA EnterStep ==
  ASSUME InventoryInv, NEW c \in Clients, NEW e \in Entries, Enter(c, e)
  PROVE  InventoryInv'
<1> DEFINE move == Move(e.tipo, e.qty, e.cost, "none", 0, e.period, e.doc)
           m == Move(e.tipo, Stored(e.qty, Scale), Rounded(e.cost, Scale), "none", 0, e.period, e.doc)
<1>1. /\ e.tipo \in {"INGRESO", "AJUSTE"}
      /\ IsFraction(e.qty) /\ IsPositive(e.qty) /\ IsAmount(e.cost)
  BY InventoryAssumption
<1>2. /\ m = Kept(move) /\ Stored(e.qty, Scale) \in KeptQuantities
      /\ Rounded(e.cost, Scale) \in Fractional /\ IsAmount(Rounded(e.cost, Scale))
  BY <1>1, KeptFacts DEF IsAmount
<1>3. m \in MoveRecords
  BY <1>1, <1>2 DEF MoveRecords, Move, MoveKinds
<1>4. Priced(m) /\ Possible(m)
  BY <1>1, <1>2 DEF Priced, Possible, Move
<1>5. Accepts(c, move)
  BY DEF Enter
<1> HIDE DEF m, move
<1> QED BY <1>2, <1>3, <1>4, <1>5, AcceptStep

\* An issue is accepted when there is as much in stock, at the cost of the policy.
LEMMA IssueStep ==
  ASSUME InventoryInv, NEW c \in Clients, NEW qty \in Quantities, NEW order \in Orders,
         NEW period \in {e.period : e \in Entries}, Issue(c, qty, order, period)
  PROVE  InventoryInv'
<1> DEFINE cost == IssueCost(period)
           move == Move("SALIDA", qty, cost, order, 0, period, "none")
           m == Move("SALIDA", Stored(qty, Scale), Rounded(cost, Scale), order, 0, period, "none")
<1>1. IsFraction(qty) /\ IsPositive(qty)
  BY InventoryAssumption
<1>2. /\ IsFraction(OnHand) /\ IsFraction(Worth) /\ IsFraction(Ppp)
      /\ IsFraction(Moved(PurchasesOf(period))) /\ IsFraction(Valued(PurchasesOf(period)))
  BY StockFractions, PurchasesOf(period) \in SUBSET DOMAIN moves DEF PurchasesOf
<1>3. IsFraction(cost)
  BY <1>2, FractionOps DEF IssueCost
<1>4. AtMost(qty, OnHand) /\ Accepts(c, move)
  BY DEF Issue
<1>5. Moving => cost = Ppp
  BY DEF Moving, IssueCost
<1> HIDE DEF cost
<1>6. /\ m = Kept(move) /\ Stored(qty, Scale) \in KeptQuantities
      /\ Rounded(cost, Scale) \in Fractional
      /\ \A h : OnGrid(h) /\ AtMost(qty, h) => AtMost(Stored(qty, Scale), h)
  BY <1>1, <1>3, KeptFacts
<1>7. m \in MoveRecords
  BY <1>6 DEF MoveRecords, Move, MoveKinds
<1>8. m.tipo = "SALIDA" /\ m.qty = Stored(qty, Scale) /\ m.cost = Rounded(cost, Scale)
  BY DEF Move
<1> HIDE DEF m, move
<1>9. IsPositive(OnHand)
  <2>1. PICK a, b \in Int, d \in Nat : d > 0 /\ At(qty, a, d) /\ At(OnHand, b, d)
    BY <1>1, <1>2, TwoBase
  <2>2. d \in Int /\ d > 0
    BY <2>1
  <2>3. (IsPositive(qty) <=> a > 0) /\ (IsPositive(OnHand) <=> b > 0) /\ (Less(OnHand, qty) <=> b < a)
    BY <2>1, <2>2, OrderAt
  <2> QED BY <1>1, <1>4, <2>3 DEF AtMost
<1>10. AtMost(m.qty, OnHand)
  BY <1>4, <1>6, <1>8 DEF InventoryInv
<1>11. Moving => Takes(m.qty, m.cost, OnHand, Worth)
  <2> SUFFICES ASSUME Moving PROVE Takes(m.qty, m.cost, OnHand, Worth)
    OBVIOUS
  <2>1. OnHand # Zero
    BY <1>2, <1>9, PositiveFacts
  <2>2. cost = Over(Worth, OnHand)
    BY <1>5, <2>1 DEF Ppp
  <2>3. IsAmount(m.qty)
    BY <1>7, MoveFractions
  <2> QED BY <1>2, <1>8, <1>9, <1>10, <2>2, <2>3, IssueTakes
<1>12. Priced(m) /\ Possible(m)
  BY <1>8, <1>10, <1>11 DEF Priced, Possible, Entry
<1> QED BY <1>4, <1>6, <1>7, <1>12, AcceptStep

\* A return, or a transfer, is accepted at the cost of its source or of today.
LEMMA GiveBackStep ==
  ASSUME InventoryInv, NEW c \in Clients, NEW tipo \in {"DEVOLUCION", "TRANSFERENCIA"},
         NEW source \in 1 .. MaxMoves, NEW qty \in Quantities, NEW order \in Orders,
         GiveBack(c, tipo, source, qty, order)
  PROVE  InventoryInv'
<1>1. IsFraction(qty) /\ IsPositive(qty)
  BY InventoryAssumption
<1>2. PICK cost : /\ cost = Ppp \/ cost = moves[source].cost
                  /\ Accepts(c, Move(tipo, qty, cost, order, source, 0, "none"))
  BY DEF GiveBack
<1>3. source \in DOMAIN moves /\ moves[source] \in MoveRecords /\ source \in Nat
  BY StockFractions, InventoryAssumption DEF GiveBack
<1>4. IsFraction(cost)
  BY <1>2, <1>3, StockFractions, MoveFractions
<1> DEFINE move == Move(tipo, qty, cost, order, source, 0, "none")
           m == Move(tipo, Stored(qty, Scale), Rounded(cost, Scale), order, source, 0, "none")
<1>5. m = Kept(move) /\ Stored(qty, Scale) \in KeptQuantities /\ Rounded(cost, Scale) \in Fractional
  BY <1>1, <1>4, KeptFacts
<1>6. m \in MoveRecords
  BY <1>3, <1>5 DEF MoveRecords, Move, MoveKinds
<1>7. m.tipo = tipo
  BY DEF Move
<1>8. Accepts(c, move)
  BY <1>2
<1> HIDE DEF m, move
<1>9. Priced(m) /\ Possible(m)
  BY <1>7 DEF Priced, Possible, Entry
<1> QED BY <1>5, <1>6, <1>8, <1>9, AcceptStep

\* What a movement adds to the stock and to its worth.
Incoming(m) == m.tipo \in {"INGRESO", "AJUSTE", "DEVOLUCION"}

\* The effect of each kind of movement.
LEMMA EffectOf ==
  ASSUME NEW m \in MoveRecords, NEW h, NEW w, IsFraction(h), IsFraction(w)
  PROVE  LET newH == Plus(Times(Sign(m.tipo), m.qty), h)
             newW == Plus(Times(Sign(m.tipo), Times(m.qty, m.cost)), w)
         IN /\ Incoming(m) => newH = Plus(m.qty, h) /\ newW = Plus(Times(m.qty, m.cost), w)
            /\ m.tipo = "TRANSFERENCIA" => newH = h /\ newW = w
            /\ m.tipo = "SALIDA" =>
                 /\ newH = Plus(Times(Whole(-1), m.qty), h)
                 /\ newW = Plus(Times(Whole(-1), Times(m.qty, m.cost)), w)
<1>1. IsFraction(m.qty) /\ IsFraction(Times(m.qty, m.cost))
  BY MoveFractions
<1>2. /\ Times(One, m.qty) = m.qty /\ Times(One, Times(m.qty, m.cost)) = Times(m.qty, m.cost)
      /\ Times(Zero, m.qty) = Zero /\ Times(Zero, Times(m.qty, m.cost)) = Zero
  BY <1>1, TimesLaws
<1>3. Plus(Zero, h) = h /\ Plus(Zero, w) = w
  BY PlusZero
<1>4. /\ Incoming(m) => Sign(m.tipo) = One
      /\ m.tipo = "TRANSFERENCIA" => Sign(m.tipo) = Zero
      /\ m.tipo = "SALIDA" => Sign(m.tipo) = Whole(-1)
  BY DEF Incoming, Sign
<1> QED BY <1>2, <1>3, <1>4

\* A movement that comes in leaves every issue as possible as it was.
LEMMA IncomingKeeps ==
  ASSUME NEW m \in MoveRecords, NEW h, NEW w, IsFraction(h), IsFraction(w), IsAmount(m.cost)
  PROVE  LET newH == Plus(m.qty, h)
             newW == Plus(Times(m.qty, m.cost), w)
         IN \A t \in MoveRecords : AtMost(t.qty, h) =>
              /\ AtMost(t.qty, newH)
              /\ Takes(t.qty, t.cost, h, w) => Takes(t.qty, t.cost, newH, newW)
<1>1. IsAmount(m.qty) /\ IsFraction(m.cost)
  BY MoveFractions
<1>2. IsAmount(Times(m.qty, m.cost))
  BY <1>1, AmountOps
<1>3. m.qty = Zero => Times(m.qty, m.cost) = Zero
  BY <1>1, TimesLaws
<1>4. ASSUME NEW t \in MoveRecords, AtMost(t.qty, h)
      PROVE  /\ AtMost(t.qty, Plus(m.qty, h))
             /\ Takes(t.qty, t.cost, h, w) => Takes(t.qty, t.cost, Plus(m.qty, h), Plus(Times(m.qty, m.cost), w))
  <2>1. IsFraction(t.qty) /\ IsFraction(t.cost)
    BY MoveFractions
  <2>2. AtMost(t.qty, Plus(m.qty, h))
    <3>1. PICK a, b, r \in Int, d \in Nat : d > 0 /\ At(t.qty, a, d) /\ At(h, b, d) /\ At(m.qty, r, d)
      BY <1>1, <2>1, ThreeBase DEF IsAmount
    <3>2. PICK n \in Int : n = r + b
      OBVIOUS
    <3>3. d \in Int /\ d > 0 /\ At(Plus(m.qty, h), n, d)
      BY <3>1, <3>2, PlusAt
    <3>4. (Less(Plus(m.qty, h), t.qty) <=> n < a) /\ (Less(h, t.qty) <=> b < a) /\ (IsNegative(m.qty) <=> r < 0)
      BY <3>1, <3>2, <3>3, OrderAt
    <3> QED BY <1>1, <1>4, <3>2, <3>4 DEF AtMost, IsAmount
  <2> QED BY <1>1, <1>2, <1>3, <1>4, <2>1, <2>2, TakesGrows
<1> QED BY <1>4

\* Sums on the grid, and a difference.
LEMMA GridSums ==
  ASSUME NEW x, NEW y, OnGrid(x), OnGrid(y)
  PROVE  OnGrid(Plus(x, y)) /\ OnGrid(Plus(Times(Whole(-1), x), y))
<1>1. PICK a, b \in Int : At(x, a, Scale) /\ At(y, b, Scale)
  BY DEF OnGrid
<1>2. PICK o, n, k \in Int : o = -a /\ n = a + b /\ k = o + b
  OBVIOUS
<1>3. At(Times(Whole(-1), x), o, Scale)
  BY <1>1, <1>2, ScaleFacts, NegatedAt
<1>4. At(Plus(x, y), n, Scale) /\ At(Plus(Times(Whole(-1), x), y), k, Scale)
  BY <1>1, <1>2, <1>3, ScaleFacts, PlusAt
<1> QED BY <1>4 DEF OnGrid

\* A stock that grows is above nothing, unless by nothing.
LEMMA StockGrows ==
  ASSUME NEW x, NEW h, IsAmount(x), IsAmount(h)
  PROVE  IsAmount(Plus(x, h)) /\ (Plus(x, h) = Zero => x = Zero /\ h = Zero)
<1>1. PICK a, b \in Int, d \in Nat : d > 0 /\ At(x, a, d) /\ At(h, b, d)
  BY TwoBase DEF IsAmount
<1>2. PICK n \in Int : n = a + b
  OBVIOUS
<1>3. d \in Int /\ d > 0 /\ At(Plus(x, h), n, d) /\ At(Zero, 0, d)
  BY <1>1, <1>2, PlusAt, ZeroAt
<1>4. (IsNegative(x) <=> a < 0) /\ (IsNegative(h) <=> b < 0)
  BY <1>1, <1>3, OrderAt
<1>5. Plus(x, h) = Zero => n = 0
  BY <1>3, NumeratorAt, 0 \in Int
<1>6. (a = 0 => x = Zero) /\ (b = 0 => h = Zero)
  BY <1>1, <1>3, SameAt, 0 \in Int
<1> QED BY <1>2, <1>4, <1>5, <1>6, AmountOps DEF IsAmount

\* A movement is inserted: the requests in flight are crossed by what is not a purchase or an
\* adjustment, and what was taken from an old reading raises raced.
LEMMA RecordStep ==
  ASSUME InventoryInv, NEW c \in Clients, NEW m \in MoveRecords, NEW crossed \in BOOLEAN,
         Holds(c, m, crossed),
         moves' = Append(moves, m), policy' = policy,
         client' = [k \in Clients |->
               IF k = c THEN Waiting
               ELSE [client[k] EXCEPT !.crossed =
                       client[k] # Waiting /\ (@ \/ m.tipo \in {"SALIDA", "DEVOLUCION", "TRANSFERENCIA"})]],
         raced' = (raced \/ (crossed /\ m.tipo \notin {"INGRESO", "AJUSTE"}))
  PROVE  InventoryInv'
<1> DEFINE crosses == m.tipo \in {"SALIDA", "DEVOLUCION", "TRANSFERENCIA"}
<1>1. \A k \in Clients : client[k] = Waiting \/ InFlight(k)
  BY DEF InventoryInv, InventoryTyped
<1>2. ASSUME NEW k \in Clients, NEW t \in MoveRecords, NEW b \in BOOLEAN, Holds(k, t, b), k # c
      PROVE  Holds(k, t, b \/ crosses)'
  <2>1. client[k] = [move |-> t, crossed |-> b]
    BY <1>2 DEF Holds
  <2>2. client[k] # Waiting
    <3>1. t.tipo # "none"
      BY DEF MoveRecords, MoveKinds
    <3>2. client[k].move.tipo # "none"
      BY <2>1, <3>1
    <3> QED BY <3>2 DEF Waiting
  <2>3. client'[k] = [client[k] EXCEPT !.crossed = client[k] # Waiting /\ (@ \/ crosses)]
    BY <1>2
  <2>4. ASSUME NEW old, NEW new
        PROVE  [[move |-> t, crossed |-> old] EXCEPT !.crossed = new] = [move |-> t, crossed |-> new]
    OBVIOUS
  <2>5. PICK new : new = (client[k] # Waiting /\ (client[k].crossed \/ crosses))
    OBVIOUS
  <2>6. client'[k] = [client[k] EXCEPT !.crossed = new]
    BY <2>3, <2>5
  <2>7. client'[k] = [move |-> t, crossed |-> new]
    BY <2>1, <2>4, <2>6
  <2>8. client[k].crossed = b
    BY <2>1
  <2>9. new = (b \/ crosses)
    BY <2>2, <2>5, <2>8
  <2> QED BY <2>7, <2>9 DEF Holds
<1>3. ASSUME NEW k \in Clients, client[k] = Waiting, k # c
      PROVE  client'[k] = Waiting
  <2>1. ASSUME NEW u, NEW v
        PROVE  [[move |-> u, crossed |-> FALSE] EXCEPT !.crossed = v] = [move |-> u, crossed |-> v]
    OBVIOUS
  <2>2. client'[k] = [client[k] EXCEPT !.crossed = client[k] # Waiting /\ (@ \/ crosses)]
    BY <1>3
  <2>3. PICK new : new = (client[k] # Waiting /\ (client[k].crossed \/ crosses))
    OBVIOUS
  <2>4. new = FALSE
    BY <1>3, <2>3
  <2>5. client'[k] = [client[k] EXCEPT !.crossed = new]
    BY <2>2, <2>3
  <2> DEFINE none == [tipo |-> "none"]
  <2>6. Waiting = [move |-> none, crossed |-> FALSE]
    BY DEF Waiting
  <2> HIDE DEF none
  <2>7. [[move |-> none, crossed |-> FALSE] EXCEPT !.crossed = FALSE] = Waiting
    BY <2>1, <2>6
  <2>8. [Waiting EXCEPT !.crossed = FALSE] = Waiting
    BY <2>6, <2>7, Zenon
  <2> QED BY <1>3, <2>4, <2>5, <2>8
<1>4. client'[c] = Waiting /\ client' = [k \in Clients |-> client'[k]]
  OBVIOUS
<1>5. ASSUME NEW k \in Clients, NEW t \in MoveRecords, NEW n \in BOOLEAN, Holds(k, t, n)'
      PROVE  k # c /\ \E b \in BOOLEAN : Holds(k, t, b) /\ (b \/ crosses <=> n)
  <2>1. client'[k] = [move |-> t, crossed |-> n]
    BY <1>5 DEF Holds
  <2>2. client'[k] # Waiting
    <3>1. t.tipo # "none"
      BY DEF MoveRecords, MoveKinds
    <3>2. client'[k].move.tipo # "none"
      BY <2>1, <3>1
    <3> QED BY <3>2 DEF Waiting
  <2>3. k # c /\ client[k] # Waiting
    BY <1>3, <1>4, <2>2
  <2>4. PICK u \in MoveRecords, b \in BOOLEAN : Holds(k, u, b)
    BY <1>1, <2>3 DEF InFlight
  <2>5. client'[k] = [move |-> u, crossed |-> b \/ crosses]
    BY <1>2, <2>3, <2>4 DEF Holds
  <2>6. u = t /\ (b \/ crosses <=> n)
    <3>1. client'[k].move = u /\ client'[k].crossed = (b \/ crosses)
      BY <2>5
    <3>2. client'[k].move = t /\ client'[k].crossed = n
      BY <2>1
    <3> QED BY <3>1, <3>2
  <2> QED BY <2>3, <2>4, <2>6
<1>6. InventoryTyped'
  <2>1. ASSUME NEW k \in Clients
        PROVE  client'[k] = Waiting \/ InFlight(k)'
    <3>1. CASE k = c
      BY <1>4, <3>1
    <3>2. CASE k # c /\ client[k] = Waiting
      BY <1>3, <3>2
    <3>3. CASE k # c /\ client[k] # Waiting
      <4>1. PICK u \in MoveRecords, b \in BOOLEAN : Holds(k, u, b)
        BY <1>1, <3>3 DEF InFlight
      <4>2. Holds(k, u, b \/ crosses)'
        BY <1>2, <3>3, <4>1
      <4>3. (b \/ crosses) \in BOOLEAN
        OBVIOUS
      <4> QED BY <4>2, <4>3 DEF InFlight
    <3> QED BY <3>1, <3>2, <3>3
  <2>2. moves' \in Seq(MoveRecords)
    BY DEF InventoryInv, InventoryTyped
  <2>3. raced' \in BOOLEAN
    BY Zenon
  <2> QED BY <1>4, <2>1, <2>2, <2>3, Zenon DEF InventoryTyped
<1>7. /\ IsFraction(OnHand) /\ IsFraction(Worth) /\ moves \in Seq(MoveRecords)
      /\ OnHand' = Plus(Times(Sign(m.tipo), m.qty), OnHand)
      /\ Worth' = Plus(Times(Sign(m.tipo), Times(m.qty, m.cost)), Worth)
      /\ Issued' = IF m.tipo = "SALIDA" THEN Plus(m.qty, Issued) ELSE Issued
      /\ IsAmount(Issued)
  BY StockFractions, StockIs, NewStockIs, SumsOfAppend, IssuedOfAppend
<1>8. Moving' <=> Moving
  BY DEF Moving
<1>9. Priced(m) /\ \A t \in MoveRecords : Priced(t)' <=> Priced(t)
  BY DEF Priced, InventoryInv
<1>10. ASSUME NEW k \in Clients, NEW t \in MoveRecords, NEW n \in BOOLEAN, Holds(k, t, n)'
       PROVE  Priced(t)'
  BY <1>5, <1>9, <1>10 DEF InventoryInv
<1>11. IsAmount(m.qty) /\ OnGrid(m.qty) /\ IsFraction(m.cost) /\ IsFraction(Times(m.qty, m.cost))
  BY MoveFractions
<1>12. /\ Incoming(m) \/ m.tipo \in {"SALIDA", "TRANSFERENCIA"}
       /\ Incoming(m) => OnHand' = Plus(m.qty, OnHand) /\ Worth' = Plus(Times(m.qty, m.cost), Worth)
       /\ m.tipo = "TRANSFERENCIA" => OnHand' = OnHand /\ Worth' = Worth
       /\ m.tipo = "SALIDA" =>
            /\ OnHand' = Plus(Times(Whole(-1), m.qty), OnHand)
            /\ Worth' = Plus(Times(Whole(-1), Times(m.qty, m.cost)), Worth)
  <2>1. Incoming(m) \/ m.tipo \in {"SALIDA", "TRANSFERENCIA"}
    BY DEF Incoming, MoveRecords, MoveKinds
  <2> QED BY <1>7, <2>1, EffectOf
<1>13. OnGrid(OnHand)'
  <2>1. OnGrid(OnHand)
    BY DEF InventoryInv
  <2>2. ASSUME NEW x, OnGrid(x), OnHand' = x
        PROVE  OnGrid(OnHand)'
    BY <2>2 DEF OnGrid
  <2> QED BY <1>11, <1>12, <2>1, <2>2, GridSums
<1>14. /\ \A i \in Issues : i \in Issues' /\ moves'[i] = moves[i]
       /\ m.tipo = "SALIDA" => Len(moves) + 1 \in Issues' /\ moves'[Len(moves) + 1] = m
       /\ Cheap' => Cheap /\ ~IsNegative(m.cost)
  <2>1. /\ \A i \in DOMAIN moves : i \in DOMAIN moves' /\ moves'[i] = moves[i]
        /\ Len(moves) + 1 \in DOMAIN moves' /\ moves'[Len(moves) + 1] = m
    BY <1>7
  <2> QED BY <2>1 DEF Issues, Cheap
<1>15. ASSUME ~raced'
       PROVE  StockSound'
  <2>1. ~raced /\ (~Entry(m) => ~crossed)
    BY <1>15, Zenon DEF Entry
  <2>2. IsAmount(OnHand) /\ (Moving => Emptied /\ WorthHeld)
    BY <2>1 DEF InventoryInv, StockSound
  <2>3. CASE Incoming(m)
    <3>1. IsAmount(OnHand') /\ (OnHand' = Zero => m.qty = Zero /\ OnHand = Zero)
      BY <1>11, <1>12, <2>2, <2>3, StockGrows
    <3>2. m.qty = Zero => Times(m.qty, m.cost) = Zero /\ Worth' = Worth
      BY <1>7, <1>11, <1>12, <2>3, TimesLaws, PlusZero
    <3>3. Emptied => Emptied'
      BY <1>14, <3>1, <3>2 DEF Emptied
    <3>4. WorthHeld => WorthHeld'
      <4> SUFFICES ASSUME WorthHeld, Cheap' PROVE AtMost(Zero, Plus(Worth', HalfUnits(Issued')))
        BY DEF WorthHeld
      <4>1. IsAmount(Times(m.qty, m.cost))
        BY <1>11, <1>14, AmountOps DEF IsAmount
      <4>2. Issued' = Issued /\ IsFraction(HalfUnits(Issued))
        BY <1>7, <2>3, HalfOfSum DEF Incoming, IsAmount
      <4>3. AtMost(Zero, Plus(Worth, HalfUnits(Issued)))
        BY <1>14 DEF WorthHeld
      <4> QED BY <1>7, <1>12, <2>3, <4>1, <4>2, <4>3, WorthGrows
    <3> QED BY <1>8, <2>2, <3>1, <3>3, <3>4 DEF StockSound
  <2>4. CASE m.tipo = "TRANSFERENCIA"
    <3>1. OnHand' = OnHand /\ Worth' = Worth /\ Issued' = Issued
      BY <1>7, <1>12, <2>4
    <3>2. Emptied => Emptied'
      BY <1>14, <3>1 DEF Emptied
    <3>3. WorthHeld => WorthHeld'
      BY <1>14, <3>1 DEF WorthHeld
    <3> QED BY <1>8, <2>2, <3>1, <3>2, <3>3 DEF StockSound
  <2>5. CASE m.tipo = "SALIDA"
    <3>1. Possible(m)
      BY <2>1, <2>5 DEF InventoryInv, Entry
    <3>2. AtMost(m.qty, OnHand) /\ (Moving => Takes(m.qty, m.cost, OnHand, Worth))
      BY <2>5, <3>1 DEF Possible
    <3>3. IsAmount(OnHand') /\ (OnHand' = Zero <=> m.qty = OnHand)
      BY <1>7, <1>11, <1>12, <2>5, <3>2, Subtracts DEF IsAmount
    <3>4. /\ HalfUnits(Issued') = Plus(HalfUnits(m.qty), HalfUnits(Issued))
          /\ IsFraction(HalfUnits(m.qty)) /\ IsAmount(HalfUnits(Issued))
      BY <1>7, <1>11, <2>5, HalfOfSum DEF IsAmount
    <3> DEFINE p == Times(m.qty, m.cost)
               u == HalfUnits(m.qty)
               v == HalfUnits(Issued)
    <3>5. /\ Near(Worth, p, u) => Near(Worth', Zero, u)
          /\ AtMost(Zero, Plus(Worth, v)) /\ (AtMost(p, u) \/ AtMost(p, Plus(Worth, u)))
               => AtMost(Zero, Plus(Worth', Plus(u, v)))
      BY <1>7, <1>11, <1>12, <2>5, <3>4, IssueLeaves
    <3>6. Takes(m.qty, m.cost, OnHand, Worth) => Emptied'
      BY <1>14, <2>5, <3>3, <3>5 DEF Takes, Emptied
    <3>7. Takes(m.qty, m.cost, OnHand, Worth) /\ WorthHeld => WorthHeld'
      BY <1>14, <3>4, <3>5 DEF Takes, WorthHeld
    <3> QED BY <1>8, <2>2, <3>2, <3>3, <3>6, <3>7 DEF StockSound
  <2> QED BY <1>12, <2>3, <2>4, <2>5
<1>16. ASSUME ~raced', NEW k \in Clients, NEW t \in MoveRecords, Holds(k, t, FALSE)'
       PROVE  Possible(t)'
  <2>1. FALSE \in BOOLEAN
    OBVIOUS
  <2>2. PICK b \in BOOLEAN : Holds(k, t, b) /\ (b \/ crosses <=> FALSE)
    BY <1>5, <1>16, <2>1
  <2>3. Holds(k, t, FALSE) /\ ~crosses
    BY <2>2
  <2>4. Entry(m) /\ Incoming(m)
    BY <2>3 DEF Entry, Incoming, MoveRecords, MoveKinds
  <2>5. ~raced
    BY <1>16, Zenon
  <2>6. Possible(t)
    BY <2>3, <2>5 DEF InventoryInv
  <2>7. IsAmount(m.cost)
    BY <1>9, <2>4 DEF Priced
  <2>8. AtMost(t.qty, OnHand) =>
          /\ AtMost(t.qty, OnHand')
          /\ Takes(t.qty, t.cost, OnHand, Worth) => Takes(t.qty, t.cost, OnHand', Worth')
    BY <1>7, <1>12, <2>4, <2>7, IncomingKeeps
  <2> QED BY <1>8, <2>6, <2>8 DEF Possible
<1> QED BY <1>6, <1>10, <1>13, <1>15, <1>16 DEF InventoryInv

\* A request that fails at its insertion is over, and nobody else changes.
LEMMA FailStep ==
  ASSUME InventoryInv, NEW c \in Clients, client' = [client EXCEPT ![c] = Waiting],
         UNCHANGED <<policy, moves, raced>>
  PROVE  InventoryInv'
<1>1. client = [k \in Clients |-> client[k]]
  BY DEF InventoryInv, InventoryTyped
<1>2. /\ client'[c] = Waiting /\ \A k \in Clients : k # c => client'[k] = client[k]
      /\ client' = [k \in Clients |-> client'[k]]
  <2>1. client' = [k \in Clients |-> IF k = c THEN Waiting ELSE client[k]]
    BY <1>1
  <2> QED BY <2>1
<1>3. ASSUME NEW k \in Clients, NEW t \in MoveRecords, NEW b \in BOOLEAN, Holds(k, t, b)'
      PROVE  Holds(k, t, b)
  <2>1. client'[k] # Waiting
    <3>1. t.tipo # "none" /\ client'[k].move = t
      BY <1>3 DEF MoveRecords, MoveKinds, Holds
    <3>2. Waiting.move.tipo = "none"
      BY DEF Waiting
    <3> QED BY <3>1, <3>2
  <2> QED BY <1>2, <1>3, <2>1 DEF Holds
<1>4. InventoryTyped'
  <2>1. \A k \in Clients : client'[k] = Waiting \/ InFlight(k)'
    BY <1>2 DEF InventoryInv, InventoryTyped, InFlight, Holds
  <2>2. moves' \in Seq(MoveRecords) /\ raced' \in BOOLEAN
    BY DEF InventoryInv, InventoryTyped
  <2> QED BY <1>2, <2>1, <2>2, Zenon DEF InventoryTyped
<1>5. /\ OnHand' = OnHand /\ Worth' = Worth /\ (Moving' <=> Moving)
      /\ Issued' = Issued /\ Issues' = Issues
  BY StockIs, NewStockIs DEF Moving
<1>6. \A t \in MoveRecords : (Priced(t)' <=> Priced(t)) /\ (Possible(t)' <=> Possible(t))
  BY <1>5 DEF Priced, Possible
<1>7. StockSound' <=> StockSound
  BY <1>5 DEF StockSound, Emptied, WorthHeld, Cheap
<1>8. OnGrid(OnHand)' <=> OnGrid(OnHand)
  BY <1>5 DEF OnGrid
<1> QED BY <1>3, <1>4, <1>6, <1>7, <1>8 DEF InventoryInv

\* Every step of registrar keeps InventoryInv.
LEMMA InventoryStep == InventoryInv /\ [InventoryNext]_inventoryVars => InventoryInv'
<1> SUFFICES ASSUME InventoryInv, [InventoryNext]_inventoryVars
             PROVE  InventoryInv'
  OBVIOUS
<1>1. CASE UNCHANGED inventoryVars
  <2>1. UNCHANGED <<policy, moves, client, raced>>
    BY <1>1 DEF inventoryVars
  <2>2. /\ OnHand' = OnHand /\ Worth' = Worth /\ (Moving' <=> Moving)
        /\ Issued' = Issued /\ Issues' = Issues
    BY <2>1, StockIs, NewStockIs DEF Moving
  <2>3. (StockSound' <=> StockSound) /\ (OnGrid(OnHand)' <=> OnGrid(OnHand))
    BY <2>1, <2>2 DEF StockSound, Emptied, WorthHeld, Cheap, OnGrid
  <2>4. \A t \in MoveRecords : (Priced(t)' <=> Priced(t)) /\ (Possible(t)' <=> Possible(t))
    BY <2>2 DEF Priced, Possible
  <2> QED BY <2>1, <2>3, <2>4 DEF InventoryInv, InventoryTyped, InFlight, Holds
<1>2. ASSUME NEW c \in Clients, Record(c)
      PROVE  InventoryInv'
  <2>1. client[c] # Waiting
    BY <1>2 DEF Record
  <2>2. PICK m \in MoveRecords, b \in BOOLEAN : Holds(c, m, b)
    BY <2>1 DEF InventoryInv, InventoryTyped, InFlight
  <2>3. client[c].move = m /\ client[c].crossed = b
    BY <2>2 DEF Holds
  <2>4. CASE Imported(client[c].move.doc) \/ Len(moves) = MaxMoves
    BY <1>2, <2>4, FailStep DEF Record
  <2>5. CASE ~(Imported(client[c].move.doc) \/ Len(moves) = MaxMoves)
    BY <1>2, <2>2, <2>3, <2>5, RecordStep DEF Record
  <2> QED BY <2>4, <2>5
<1>3. CASE InventoryNext
  BY <1>2, <1>3, EnterStep, IssueStep, GiveBackStep DEF InventoryNext
<1> QED BY <1>1, <1>3

\* No interleaving of purchases, issues, returns, transfers and adjustments that does not cross
\* an issue, a return or a transfer with another takes the stock below nothing.  At the moving
\* average, with the costs rounded as they are kept, an emptied stock is left with no more than
\* the rounding of the price that emptied it, and no worth is further below nothing than the
\* rounding of all that was issued while nothing moved below nothing (registrar).
THEOREM StockStands == InventorySpec => []StockIsWorthWhatEntered
<1>1. InventoryInv => StockIsWorthWhatEntered
  BY DEF InventoryInv, StockSound, Moving, Emptied, WorthHeld, Cheap, IsAmount, StockIsWorthWhatEntered
<1> QED BY <1>1, InventoryStart, InventoryStep, PTL DEF InventorySpec

-----------------------------------------------------------------------------
(* ProcessChain.                                                             *)

\* The greatest of some numbers is one of them.
LEMMA MaxIn ==
  ASSUME NEW S, IsFiniteSet(S), S \subseteq Int, S # {}
  PROVE  Max(S) \in S /\ \A y \in S : Max(S) >= y
<1> DEFINE G == {T \in SUBSET S : T # {} => \E x \in T : \A y \in T : x >= y}
<1>1. {} \in G
  OBVIOUS
<1>2. ASSUME NEW T \in SUBSET S, NEW z \in S, T \in G, z \notin T
      PROVE  T \cup {z} \in G
  <2>1. CASE T = {}
    <3>1. \A y \in T \cup {z} : z >= y
      BY <2>1
    <3> QED BY <3>1
  <2>2. CASE T # {}
    <3>1. PICK x \in T : \A y \in T : x >= y
      BY <2>2, <1>2
    <3>2. x \in Int /\ z \in Int /\ \A y \in T : y \in Int
      OBVIOUS
    <3>3. CASE x >= z
      BY <3>1, <3>3
    <3>4. CASE z > x
      <4>1. \A y \in T \cup {z} : z >= y
        BY <3>1, <3>2, <3>4
      <4> QED BY <4>1
    <3> QED BY <3>2, <3>3, <3>4
  <2> QED BY <2>1, <2>2
<1>3. S \in G
  <2> HIDE DEF G
  <2> QED BY <1>1, <1>2, FiniteFrom
<1>4. \E x \in S : \A y \in S : x >= y
  BY <1>3
<1> QED BY <1>4 DEF Max

-----------------------------------------------------------------------------
\* The equation of run: the departments one after another, each with the reports before it.
Idx(rows) == [i \in DOMAIN rows |-> i]
Step(rows, done, d) ==
  Append(done, Report(d, Schedule(d, rows[d]), rows[d],
                      IF d = 1 THEN Zero ELSE done[d - 1].unit))
IsRun(g, rows) ==
  g = [s \in SUBSET DOMAIN Idx(rows) |->
         IF s = {} THEN << >> ELSE Step(rows, g[s \ {Max(s)}], Idx(rows)[Max(s)])]

\* Run is a function that satisfies it, if there is one.
LEMMA RunIs ==
  ASSUME NEW rows
  PROVE  Run(rows) = (CHOOSE g : IsRun(g, rows))[DOMAIN Idx(rows)]
BY DEF Run, FoldLeftDomain, FoldLeft, MapThenFoldSet, IsRun, Idx, Step

\* A function that satisfies it on the subsets of fewer elements.
RunsTo(n, g, rows) ==
  \A s \in SUBSET DOMAIN rows : Cardinality(s) <= n =>
    g[s] = IF s = {} THEN << >> ELSE Step(rows, g[s \ {Max(s)}], Max(s))

\* Such a function, for sets of one element more.
LEMMA RunStep ==
  ASSUME NEW rows, IsFiniteSet(DOMAIN rows), DOMAIN rows \subseteq Int, NEW n \in Nat, NEW g,
         RunsTo(n, g, rows)
  PROVE  \E h : h = [s \in SUBSET DOMAIN rows |-> h[s]] /\ RunsTo(n + 1, h, rows)
<1> DEFINE next(s) == IF s = {} THEN << >> ELSE Step(rows, g[s \ {Max(s)}], Max(s))
           h == [s \in SUBSET DOMAIN rows |-> next(s)]
<1>1. ASSUME NEW s \in SUBSET DOMAIN rows, Cardinality(s) <= n
      PROVE  h[s] = g[s]
  BY <1>1 DEF RunsTo
<1>2. ASSUME NEW s \in SUBSET DOMAIN rows, Cardinality(s) <= n + 1, s # {}
      PROVE  h[s \ {Max(s)}] = g[s \ {Max(s)}]
  <2>2. IsFiniteSet(s)
    BY FS_Subset, Zenon
  <2>1. PICK x \in s : x = Max(s)
    <3>1. s \subseteq Int
      OBVIOUS
    <3> QED BY <1>2, <2>2, <3>1, MaxIn
  <2>3. Cardinality(s \ {x}) = Cardinality(s) - 1 /\ Cardinality(s) \in Nat
    <3>1. Cardinality(s) \in Nat
      BY <2>2, FS_CardinalityType, Zenon
    <3>2. Cardinality(s \ {x}) = IF x \in s THEN Cardinality(s) - 1 ELSE Cardinality(s)
      BY <2>2, FS_RemoveElement, Zenon
    <3> QED BY <3>1, <3>2
  <2>4. Cardinality(s \ {x}) <= n
    BY <2>3, <1>2
  <2>5. s \ {x} \in SUBSET DOMAIN rows
    OBVIOUS
  <2> HIDE DEF h
  <2> QED BY <2>1, <2>4, <2>5, <1>1
<1>3. RunsTo(n + 1, h, rows)
  <2> SUFFICES ASSUME NEW s \in SUBSET DOMAIN rows, Cardinality(s) <= n + 1
               PROVE  h[s] = IF s = {} THEN << >> ELSE Step(rows, h[s \ {Max(s)}], Max(s))
    BY DEF RunsTo
  <2>1. h[s] = next(s)
    OBVIOUS
  <2>2. CASE s = {}
    BY <2>1, <2>2
  <2>3. CASE s # {}
    <3>1. h[s \ {Max(s)}] = g[s \ {Max(s)}]
      BY <2>3, <1>2
    <3> HIDE DEF h
    <3> QED BY <2>1, <2>3, <3>1
  <2> QED BY <2>2, <2>3
<1>4. h = [s \in SUBSET DOMAIN rows |-> h[s]]
  OBVIOUS
<1> HIDE DEF h
<1> QED BY <1>3, <1>4

\* Such a function for all the subsets: the equation of run has a solution.
LEMMA RunExists ==
  ASSUME NEW rows, IsFiniteSet(DOMAIN rows), DOMAIN rows \subseteq Int
  PROVE  \E g : IsRun(g, rows)
<1> DEFINE S == DOMAIN rows
           G == {n \in Nat : \E h : h = [s \in SUBSET S |-> h[s]] /\ RunsTo(n, h, rows)}
<1>1. 0 \in G
  <2> DEFINE h == [s \in SUBSET S |-> << >>]
  <2>1. h = [s \in SUBSET S |-> h[s]]
    OBVIOUS
  <2>2. ASSUME NEW s \in SUBSET S, Cardinality(s) <= 0
        PROVE  s = {}
    <3>1. IsFiniteSet(s)
      BY FS_Subset, Zenon
    <3>2. Cardinality(s) \in Nat
      BY <3>1, FS_CardinalityType, Zenon
    <3>3. Cardinality(s) = 0
      BY <3>2, <2>2
    <3> QED BY <3>1, <3>3, FS_EmptySet, Zenon
  <2>3. RunsTo(0, h, rows)
    BY <2>2 DEF RunsTo
  <2> HIDE DEF h
  <2> QED BY <2>1, <2>3
<1>2. ASSUME NEW n \in Nat, n \in G
      PROVE  n + 1 \in G
  <2>1. PICK h : RunsTo(n, h, rows)
    BY <1>2
  <2>2. \E t : t = [s \in SUBSET S |-> t[s]] /\ RunsTo(n + 1, t, rows)
    BY <2>1, RunStep
  <2> QED BY <2>2
<1>3. Nat \subseteq G
  <2> HIDE DEF G
  <2> QED BY <1>1, <1>2, NaturalsFrom
<1>4. Cardinality(S) \in Nat
  BY FS_CardinalityType, Zenon
<1>5. PICK h : h = [s \in SUBSET S |-> h[s]] /\ RunsTo(Cardinality(S), h, rows)
  BY <1>3, <1>4
<1>6. \A s \in SUBSET S : Cardinality(s) <= Cardinality(S)
  BY FS_Subset, Zenon
<1>7. \A s \in SUBSET S : h[s] = IF s = {} THEN << >> ELSE Step(rows, h[s \ {Max(s)}], Max(s))
  BY <1>5, <1>6 DEF RunsTo
<1>8. \A s \in SUBSET S : s # {} => Idx(rows)[Max(s)] = Max(s)
  <2>1. ASSUME NEW s \in SUBSET S, s # {} PROVE Max(s) \in S
    <3>1. IsFiniteSet(s) /\ s \subseteq Int
      BY FS_Subset
    <3> QED BY <2>1, <3>1, MaxIn
  <2> QED BY <2>1 DEF Idx
<1>9. DOMAIN Idx(rows) = S
  BY DEF Idx
<1>10. h = [s \in SUBSET S |-> IF s = {} THEN << >> ELSE Step(rows, h[s \ {Max(s)}], Idx(rows)[Max(s)])]
  <2> HIDE DEF S
  <2> QED BY <1>5, <1>7, <1>8
<1>11. IsRun(h, rows)
  BY <1>9, <1>10 DEF IsRun
<1> QED BY <1>11

\* What run returns: one report for each department, in their order.
Prior(done, d) == IF d = 1 THEN Zero ELSE done[d - 1].unit
LEMMA RunFacts ==
  ASSUME NEW n \in Nat, NEW rows, DOMAIN rows = 1 .. n
  PROVE  \A d \in 1 .. n :
           Run(rows)[d] = Report(d, Schedule(d, rows[d]), rows[d], Prior(Run(rows), d))
<1>1. IsFiniteSet(1 .. n) /\ 1 .. n \subseteq Int
  BY FS_Interval, 1 \in Int, n \in Int
<1>2. PICK g : g = CHOOSE t : IsRun(t, rows)
  OBVIOUS
<1>3. IsRun(g, rows)
  BY <1>1, <1>2, RunExists
<1>4. \A i \in 1 .. n : Idx(rows)[i] = i
  BY DEF Idx
<1>5. DOMAIN Idx(rows) = 1 .. n
  BY DEF Idx
<1>6. \A s \in SUBSET (1 .. n) :
        g[s] = IF s = {} THEN << >> ELSE Step(rows, g[s \ {Max(s)}], Idx(rows)[Max(s)])
  BY <1>3, <1>5 DEF IsRun
<1>7. g[{}] = << >>
  BY <1>6
<1>8. ASSUME NEW k \in Nat, k + 1 \in 1 .. n
      PROVE  g[1 .. k + 1] = Step(rows, g[1 .. k], k + 1)
  <2>1. IsFiniteSet(1 .. k + 1)
    BY FS_Interval, 1 \in Int, k + 1 \in Int
  <2>2. Max(1 .. k + 1) \in 1 .. k + 1 /\ \A y \in 1 .. k + 1 : Max(1 .. k + 1) >= y
    <3>1. 1 .. k + 1 \subseteq Int /\ k + 1 \in 1 .. k + 1
      OBVIOUS
    <3> QED BY <2>1, <3>1, MaxIn, Zenon
  <2>6. PICK j \in Int : j = Max(1 .. k + 1)
    BY <2>2
  <2>7. j = k + 1
    BY <2>2, <2>6, k + 1 \in 1 .. k + 1
  <2>3. (1 .. k + 1) \ {k + 1} = 1 .. k
    OBVIOUS
  <2>4. 1 .. k + 1 \in SUBSET (1 .. n)
    <3>1. \A x \in 1 .. k + 1 : x \in 1 .. n
      BY <1>8
    <3> QED BY <3>1, Zenon
  <2>5. Max(1 .. k + 1) = k + 1
    BY <2>6, <2>7
  <2>8. 1 .. k + 1 # {}
    BY k + 1 \in 1 .. k + 1, Zenon
  <2>9. Idx(rows)[k + 1] = k + 1
    BY <1>4, <1>8
  <2>10. g[1 .. k + 1] =
           Step(rows, g[(1 .. k + 1) \ {Max(1 .. k + 1)}], Idx(rows)[Max(1 .. k + 1)])
    BY <1>6, <2>4, <2>8, Zenon
  <2> QED BY <2>3, <2>5, <2>9, <2>10, Zenon
<1> DEFINE Shape(k) == \E V : g[1 .. k] \in Seq(V) /\ Len(g[1 .. k]) = k
           Filled(k) == \A d \in 1 .. k :
             g[1 .. k][d] = Report(d, Schedule(d, rows[d]), rows[d], Prior(g[1 .. k], d))
           G == {k \in Nat : k <= n => Shape(k) /\ Filled(k)}
<1>9. 0 \in G
  <2>1. 1 .. 0 = {}
    OBVIOUS
  <2>2. << >> \in Seq({}) /\ Len(<< >>) = 0
    BY EmptySeq
  <2> QED BY <1>7, <2>1, <2>2
<1>10. ASSUME NEW k \in Nat, k \in G
       PROVE  k + 1 \in G
  <2> SUFFICES ASSUME k + 1 <= n PROVE Shape(k + 1) /\ Filled(k + 1)
    OBVIOUS
  <2>1. k <= n /\ k + 1 \in 1 .. n
    OBVIOUS
  <2>2. PICK V : g[1 .. k] \in Seq(V) /\ Len(g[1 .. k]) = k
    BY <1>10, <2>1
  <2>3. Filled(k)
    BY <1>10, <2>1
  <2>4. PICK s : s = g[1 .. k]
    OBVIOUS
  <2>5. PICK e : e = Report(k + 1, Schedule(k + 1, rows[k + 1]), rows[k + 1], Prior(s, k + 1))
    OBVIOUS
  <2>6. PICK t : t = Append(s, e)
    OBVIOUS
  <2>7. g[1 .. k + 1] = t
    BY <1>8, <2>1, <2>4, <2>5, <2>6 DEF Step, Prior
  <2>8. s \in Seq(V \cup {e}) /\ e \in V \cup {e} /\ Len(s) = k
    BY <2>2, <2>4, SeqMonotonic
  <2>9. /\ t \in Seq(V \cup {e}) /\ Len(t) = k + 1
        /\ \A d \in 1 .. k : t[d] = s[d]
        /\ t[k + 1] = e
    BY <2>6, <2>8
  <2>10. Shape(k + 1)
    BY <2>7, <2>9
  <2>11. \A d \in 1 .. k + 1 : Prior(t, d) = Prior(s, d)
    BY <2>9 DEF Prior
  <2>12. ASSUME NEW d \in 1 .. k + 1
         PROVE  t[d] = Report(d, Schedule(d, rows[d]), rows[d], Prior(t, d))
    <3>1. CASE d \in 1 .. k
      BY <2>3, <2>4, <2>9, <2>11, <3>1
    <3>2. CASE d = k + 1
      BY <2>5, <2>9, <2>11, <3>2
    <3> QED BY <3>1, <3>2
  <2> QED BY <2>7, <2>10, <2>12
<1>11. Nat \subseteq G
  <2> HIDE DEF G
  <2> QED BY <1>9, <1>10, NaturalsFrom
<1>12. Filled(n)
  BY <1>11
<1>13. Run(rows) = g[1 .. n]
  BY <1>2, <1>5, RunIs
<1> QED BY <1>12, <1>13

-----------------------------------------------------------------------------
\* The fields of a report.
LEMMA ReportFields ==
  ASSUME NEW d, NEW s, NEW u, NEW previous
  PROVE  LET r == Report(d, s, u, previous)
             a == SectionA(d, s, u, previous)
             b == SectionB(d, s, u)
         IN /\ r.refused = RefusedReport(d, s, u, previous)
            /\ r.schedule = s /\ r.unit = Plus(b.unit, a.unit) /\ r.due = Plus(b.total, a.total)
            /\ r.out = Times(s.out, r.unit) /\ r.stock = Times(s.stock, r.unit)
            /\ r.extra = Times(s.extra, r.unit) /\ r.efs = b.efs
            /\ r.efPrevious = Times(s.ef, a.unit)
            /\ r.ef = Minus(Minus(Minus(r.due, r.out), r.stock), r.extra)
            /\ r.efByElement = Plus(SumOver(b.efs, DOMAIN b.efs), Times(s.ef, a.unit))
BY DEF Report, Sections, SectionC

\* The units that leave a department and those that stay are the good ones.
LEMMA GoodBalance ==
  ASSUME NEW ei, NEW rec, NEW inc, NEW out, NEW ef, NEW st, NEW nl, NEW ex,
         Eight(ei, rec, inc, out, ef, st, nl, ex),
         Plus(ei, Plus(rec, inc)) = Plus(Plus(out, ef), Plus(st, Plus(nl, ex)))
  PROVE  Minus(Plus(ei, Plus(rec, inc)), nl) = Plus(Plus(out, Plus(st, ex)), ef)
<1>1. PICK a, b, c, p, q, r, m, n \in Int, d \in Nat :
        /\ d > 0 /\ At(ei, a, d) /\ At(rec, b, d) /\ At(inc, c, d) /\ At(out, p, d)
        /\ At(ef, q, d) /\ At(st, r, d) /\ At(nl, m, d) /\ At(ex, n, d)
  BY EightBase
<1>2. d \in Int /\ d > 0
  BY <1>1
<1>3. At(Plus(rec, inc), b + c, d) /\ At(Plus(nl, ex), m + n, d) /\ At(Plus(st, ex), r + n, d)
      /\ At(Plus(out, ef), p + q, d)
  BY <1>1, <1>2, PlusAt
<1>4. At(Plus(ei, Plus(rec, inc)), a + (b + c), d) /\ At(Plus(st, Plus(nl, ex)), r + (m + n), d)
      /\ At(Plus(out, Plus(st, ex)), p + (r + n), d)
  BY <1>1, <1>2, <1>3, PlusAt, b + c \in Int, m + n \in Int, r + n \in Int
<1>5. At(Plus(Plus(out, ef), Plus(st, Plus(nl, ex))), (p + q) + (r + (m + n)), d)
  BY <1>2, <1>3, <1>4, PlusAt, p + q \in Int, r + (m + n) \in Int
<1>6. At(Plus(Plus(out, Plus(st, ex)), ef), (p + (r + n)) + q, d)
  BY <1>1, <1>2, <1>4, PlusAt, p + (r + n) \in Int
<1>7. At(Minus(Plus(ei, Plus(rec, inc)), nl), (a + (b + c)) - m, d)
  BY <1>1, <1>2, <1>4, PlusAt, a + (b + c) \in Int
<1>8. a + (b + c) = (p + q) + (r + (m + n))
  BY <1>2, <1>4, <1>5, NumeratorAt, a + (b + c) \in Int, (p + q) + (r + (m + n)) \in Int
<1>9. (a + (b + c)) - m = (p + (r + n)) + q
  BY <1>8
<1> QED BY <1>2, <1>6, <1>7, <1>9, SameAt, (p + (r + n)) + q \in Int

-----------------------------------------------------------------------------
\* What is stored of a department: units and money.
IsUnits(u) ==
  /\ IsAmount(u.ei) /\ IsAmount(u.stock) /\ IsAmount(u.normal)
  /\ IsOptional(u.started) /\ IsOptional(u.received) /\ IsOptional(u.increase)
  /\ IsOptional(u.out) /\ IsOptional(u.lossPct) /\ IsOptional(u.totalLoss) /\ IsOptional(u.ef)
  /\ IsOptional(u.avMp) /\ IsOptional(u.avConv)
IsMoney(u) ==
  /\ IsAmount(u.cMp) /\ IsAmount(u.cMo) /\ IsAmount(u.cCif)
  /\ IsAmount(u.iMp) /\ IsAmount(u.iMo) /\ IsAmount(u.iCif) /\ IsAmount(u.iPrev)

\* The units of a schedule that is accepted: none below zero, and they balance.
LEMMA ScheduleFacts ==
  ASSUME NEW d, NEW u, IsAmount(Default(u.ei, Zero)), IsAmount(Default(u.stock, Zero)),
         IsOptional(u.started), IsOptional(u.received), IsOptional(u.increase),
         IsOptional(u.out), IsOptional(u.lossPct), IsOptional(u.totalLoss), IsOptional(u.ef),
         ~ImpossibleSchedule(d, u)
  PROVE  LET s == Schedule(d, u)
         IN /\ IsAmount(s.ei) /\ IsAmount(s.period) /\ IsAmount(s.received) /\ IsAmount(s.increase)
            /\ IsAmount(s.out) /\ IsAmount(s.stock) /\ IsAmount(s.normal) /\ IsAmount(s.extra)
            /\ IsAmount(s.ef)
            /\ Given(u.out) => s.out = u.out
            /\ Given(u.ef) => s.ef = u.ef
            /\ d # 1 => GoodUnits(s) = Plus(Plus(s.out, Plus(s.stock, s.extra)), s.ef)
<1> DEFINE s == Schedule(d, u)
<1>1. IsAmount(Zero) /\ IsFraction(Zero)
  BY ZeroAmount
<1>2. /\ IsAmount(Default(u.started, Zero)) /\ IsAmount(Default(u.received, Zero))
      /\ IsAmount(Default(u.increase, Zero)) /\ IsAmount(Default(u.lossPct, Zero))
  BY <1>1, DefaultFacts
<1>3. IsAmount(PeriodUnits(d, u))
  BY <1>2, AmountOps DEF PeriodUnits
<1>4. IsAmount(NormalLoss(d, u))
  BY <1>2, <1>3, AmountOps DEF NormalLoss
<1>5. IsAmount(ExtraordinaryLoss(d, u))
  <2>1. IsAmount(Default(u.totalLoss, NormalLoss(d, u)))
    BY <1>4, DefaultFacts
  <2>2. IsFraction(ExtraordinaryLoss(d, u))
    BY <1>4, <2>1, FractionOps DEF ExtraordinaryLoss, IsAmount
  <2> QED BY <2>2 DEF ImpossibleSchedule, IsAmount
<1>6. IsAmount(ToAccount(d, u)) /\ IsAmount(KnownOut(d, u))
  BY <1>3, <1>4, <1>5, AmountOps DEF ToAccount, KnownOut
<1>7. (Given(u.out) => IsAmount(u.out)) /\ (Given(u.ef) => IsAmount(u.ef))
  BY <1>1, DefaultFacts
<1>8. IsAmount(FinalWip(d, u)) /\ IsAmount(TransferredOut(d, u))
  <2>1. ~IsNegative(FinalWip(d, u)) /\ ~IsNegative(TransferredOut(d, u))
        /\ (Given(u.out) \/ Given(u.ef))
    BY DEF ImpossibleSchedule
  <2>2. \A x, y, z : IsFraction(x) /\ IsFraction(y) /\ IsFraction(z) =>
          IsFraction(Minus(Minus(x, y), z))
    BY FractionOps
  <2>3. IsFraction(FinalWip(d, u))
    BY <1>6, <1>7, <2>1, <2>2 DEF FinalWip, IsAmount
  <2>4. IsFraction(TransferredOut(d, u))
    BY <1>6, <1>7, <2>1, <2>2 DEF TransferredOut, IsAmount
  <2> QED BY <2>1, <2>3, <2>4 DEF IsAmount
<1>9. /\ s.ei = Default(u.ei, Zero) /\ s.period = PeriodUnits(d, u)
      /\ s.received = (IF d = 1 THEN Zero ELSE Default(u.received, Zero))
      /\ s.increase = (IF d = 1 THEN Zero ELSE Default(u.increase, Zero))
      /\ s.out = TransferredOut(d, u) /\ s.stock = Default(u.stock, Zero)
      /\ s.normal = NormalLoss(d, u) /\ s.extra = ExtraordinaryLoss(d, u) /\ s.ef = FinalWip(d, u)
  BY DEF Schedule
<1> HIDE DEF s
<1>10. /\ IsAmount(s.ei) /\ IsAmount(s.period) /\ IsAmount(s.received) /\ IsAmount(s.increase)
       /\ IsAmount(s.out) /\ IsAmount(s.stock) /\ IsAmount(s.normal) /\ IsAmount(s.extra)
       /\ IsAmount(s.ef)
  BY <1>1, <1>2, <1>3, <1>4, <1>5, <1>8, <1>9
<1>11. (Given(u.out) => s.out = u.out) /\ (Given(u.ef) => s.ef = u.ef)
  BY <1>9 DEF TransferredOut, FinalWip
<1>12. ASSUME d # 1
       PROVE  GoodUnits(s) = Plus(Plus(s.out, Plus(s.stock, s.extra)), s.ef)
  <2>1. ToAccount(d, u) = Plus(s.ei, Plus(s.received, s.increase))
    BY <1>9, <1>12 DEF ToAccount, PeriodUnits
  <2>2. ToAccount(d, u) = Plus(Plus(s.out, s.ef), Plus(s.stock, Plus(s.normal, s.extra)))
    BY <1>9 DEF ImpossibleSchedule, KnownOut
  <2>3. GoodUnits(s) = Minus(Plus(s.ei, Plus(s.received, s.increase)), s.normal)
    BY DEF GoodUnits, Received
  <2>4. Eight(s.ei, s.received, s.increase, s.out, s.ef, s.stock, s.normal, s.extra)
    BY <1>10 DEF Eight, IsAmount
  <2>5. Plus(s.ei, Plus(s.received, s.increase))
          = Plus(Plus(s.out, s.ef), Plus(s.stock, Plus(s.normal, s.extra)))
    BY <2>1, <2>2
  <2> QED BY <2>3, <2>4, <2>5, GoodBalance
<1> QED BY <1>10, <1>11, <1>12 DEF s

\* A schedule whose amounts are not negative.
IsSchedule(s) ==
  /\ IsAmount(s.ei) /\ IsAmount(s.received) /\ IsAmount(s.increase)
  /\ IsAmount(s.out) /\ IsAmount(s.stock) /\ IsAmount(s.normal) /\ IsAmount(s.extra)
  /\ IsAmount(s.ef)

\* The units that are not in process at the end of the month.
Finished(s) == Plus(s.out, Plus(s.stock, s.extra))

\* What is paid for an element is in the finished units and in those in process.
LEMMA ElementIsBorne ==
  ASSUME NEW s, NEW u, IsSchedule(s), IsUnits(u), IsMoney(u),
         NEW e \in {"MP", "MOD", "CIP", "CC"}, ~CostWithoutUnits(s, u, e)
  PROVE  /\ IsAmount(UnitCost(s, u, e)) /\ IsAmount(ElementCost(u, e)) /\ IsAmount(ElementEF(s, u, e))
         /\ ElementCost(u, e) = Plus(Times(Finished(s), UnitCost(s, u, e)), ElementEF(s, u, e))
<1>1. IsAmount(Avance(u, e))
  <2>1. IsAmount(Default(u.avMp, One)) /\ IsAmount(Default(u.avConv, Zero))
    BY DefaultFacts, ZeroAmount DEF IsUnits
  <2> QED BY <2>1 DEF Avance
<1>2. IsAmount(Opening(u, e)) /\ IsAmount(OfPeriod(u, e))
  <2>1. IsAmount(Plus(u.iMo, u.iCif)) /\ IsAmount(Plus(u.cMo, u.cCif))
    BY AmountOps DEF IsMoney
  <2>2. CASE e = "MP"
    BY <2>2 DEF Opening, OfPeriod, IsMoney
  <2>3. CASE e = "MOD"
    BY <2>3 DEF Opening, OfPeriod, IsMoney
  <2>4. CASE e = "CIP"
    BY <2>4 DEF Opening, OfPeriod, IsMoney
  <2>5. CASE e = "CC"
    BY <2>1, <2>5 DEF Opening, OfPeriod
  <2> QED BY <2>2, <2>3, <2>4, <2>5
<1> DEFINE c == ElementCost(u, e)
           k == Finished(s)
           w == Times(s.ef, Avance(u, e))
           q == Equivalent(s, u, e)
           v == UnitCost(s, u, e)
<1>3. IsAmount(c)
  BY <1>2, AmountOps DEF ElementCost
<1>4. IsAmount(k)
  <2>1. IsAmount(Plus(s.stock, s.extra))
    BY AmountOps DEF IsSchedule
  <2> QED BY <2>1, AmountOps DEF IsSchedule, Finished
<1>5. IsAmount(w)
  BY <1>1, AmountOps DEF IsSchedule
<1>6. q = Plus(k, w) /\ IsAmount(q)
  BY <1>4, <1>5, AmountOps DEF Equivalent, Finished
<1>7. ElementEF(s, u, e) = Times(w, v)
  BY DEF ElementEF
<1>8. v = IF q = Zero THEN Zero ELSE Over(c, q)
  BY DEF UnitCost
<1>9. q = Zero => c = Zero
  BY DEF CostWithoutUnits
<1> HIDE DEF c, k, w, q, v
<1>10. CASE q = Zero
  <2>1. v = Zero /\ c = Zero
    BY <1>8, <1>9, <1>10
  <2>2. Times(w, v) = Zero /\ Times(k, v) = Zero /\ Plus(Zero, Zero) = Zero
    BY <2>1, <1>4, <1>5, TimesLaws, PlusZero, ZeroAmount DEF IsAmount
  <2>3. IsAmount(v) /\ IsAmount(Times(w, v)) /\ c = Plus(Times(k, v), Times(w, v))
    BY <2>1, <2>2, ZeroAmount
  <2> QED BY <2>3, <1>3, <1>7 DEF c, k, v
<1>11. CASE q # Zero
  <2>1. v = Over(c, q) /\ IsPositive(q)
    BY <1>6, <1>8, <1>11, AmountIsPositive
  <2>2. IsAmount(v)
    BY <2>1, <1>3, <1>6, AmountOps
  <2>3. Times(v, q) = c
    BY <2>1, <1>3, <1>6, <1>11, OverTimes DEF IsAmount
  <2>4. IsFraction(v) /\ IsFraction(k) /\ IsFraction(w)
    BY <2>2, <1>4, <1>5 DEF IsAmount
  <2>5. Times(v, Plus(k, w)) = Plus(Times(v, k), Times(v, w))
    BY <2>4, Distributes
  <2>6. Times(v, k) = Times(k, v) /\ Times(v, w) = Times(w, v)
    BY <2>4, Distributes
  <2>7. c = Plus(Times(k, v), Times(w, v))
    BY <2>3, <2>5, <2>6, <1>6
  <2>8. IsAmount(Times(w, v))
    BY <2>2, <1>5, AmountOps
  <2> QED BY <2>2, <2>7, <2>8, <1>3, <1>7 DEF c, k, v
<1> QED BY <1>10, <1>11

-----------------------------------------------------------------------------
\* A sum with the columns of one department.
LEMMA ElementsSum ==
  ASSUME NEW d, NEW f, AreFractions(f, Elements(d))
  PROVE  SumOver(f, Elements(d)) =
           IF Unified[d] THEN Plus(f["MP"], f["CC"]) ELSE Plus(f["MP"], Plus(f["MOD"], f["CIP"]))
<1>1. CASE Unified[d]
  <2>1. Elements(d) = {"MP", "CC"} /\ IsFraction(f["MP"]) /\ IsFraction(f["CC"])
    BY <1>1 DEF Elements, AreFractions
  <2>2. SumOver(f, {"MP", "CC"}) = Plus(f["MP"], f["CC"])
    BY <2>1, SumTwo, "MP" # "CC"
  <2> QED BY <1>1, <2>1, <2>2
<1>2. CASE ~Unified[d]
  <2>1. Elements(d) = {"MP", "MOD", "CIP"} /\ IsFraction(f["MP"]) /\ IsFraction(f["MOD"])
        /\ IsFraction(f["CIP"])
    BY <1>2 DEF Elements, AreFractions
  <2>2. SumOver(f, {"MP", "MOD", "CIP"}) = Plus(f["MP"], Plus(f["MOD"], f["CIP"]))
    <3>1. Three(f, "MP", "MOD", "CIP")
      BY <2>1 DEF Three
    <3> QED BY <3>1, SumThree
  <2> QED BY <1>2, <2>1, <2>2
<1> QED BY <1>1, <1>2

\* Three columns of what a month begins with and what it is charged, one by one.
LEMMA ColumnsAdd ==
  ASSUME NEW u, IsMoney(u)
  PROVE  LET all == Plus(Plus(u.iMp, Plus(u.iMo, u.iCif)), PeriodMoney(u))
         IN /\ Plus(ElementCost(u, "MP"), ElementCost(u, "CC")) = all
            /\ Plus(ElementCost(u, "MP"), Plus(ElementCost(u, "MOD"), ElementCost(u, "CIP"))) = all
            /\ IsAmount(all)
<1>1. Eight(u.iMp, u.iMo, u.iCif, u.cMp, u.cMo, u.cCif, Zero, Zero)
  BY ZeroAmount DEF Eight, IsMoney, IsAmount
<1>2. PICK a, b, c, p, q, r, m, n \in Int, d \in Nat :
        /\ d > 0 /\ At(u.iMp, a, d) /\ At(u.iMo, b, d) /\ At(u.iCif, c, d) /\ At(u.cMp, p, d)
        /\ At(u.cMo, q, d) /\ At(u.cCif, r, d) /\ At(Zero, m, d) /\ At(Zero, n, d)
  BY <1>1, EightBase
<1>3. d \in Int /\ d > 0 /\ b + c \in Int /\ a + p \in Int /\ b + q \in Int /\ c + r \in Int
      /\ q + r \in Int
  BY <1>2
<1>4. At(Plus(u.iMo, u.iCif), b + c, d) /\ At(Plus(u.cMo, u.cCif), q + r, d)
      /\ At(Plus(u.iMp, u.cMp), a + p, d) /\ At(Plus(u.iMo, u.cMo), b + q, d)
      /\ At(Plus(u.iCif, u.cCif), c + r, d)
  BY <1>2, <1>3, PlusAt
<1>5. At(Plus(u.iMp, Plus(u.iMo, u.iCif)), a + (b + c), d) /\ At(PeriodMoney(u), p + (q + r), d)
      /\ At(Plus(Plus(u.iMo, u.iCif), Plus(u.cMo, u.cCif)), (b + c) + (q + r), d)
      /\ At(Plus(Plus(u.iMo, u.cMo), Plus(u.iCif, u.cCif)), (b + q) + (c + r), d)
  BY <1>2, <1>3, <1>4, PlusAt DEF PeriodMoney
<1>6. a + (b + c) \in Int /\ p + (q + r) \in Int /\ (b + c) + (q + r) \in Int
      /\ (b + q) + (c + r) \in Int
  BY <1>3
<1>7. At(Plus(Plus(u.iMp, Plus(u.iMo, u.iCif)), PeriodMoney(u)), (a + (b + c)) + (p + (q + r)), d)
  BY <1>3, <1>5, <1>6, PlusAt
<1>8. At(Plus(Plus(u.iMp, u.cMp), Plus(Plus(u.iMo, u.iCif), Plus(u.cMo, u.cCif))),
         (a + p) + ((b + c) + (q + r)), d)
  BY <1>3, <1>4, <1>5, <1>6, PlusAt
<1>9. At(Plus(Plus(u.iMp, u.cMp), Plus(Plus(u.iMo, u.cMo), Plus(u.iCif, u.cCif))),
         (a + p) + ((b + q) + (c + r)), d)
  BY <1>3, <1>4, <1>5, <1>6, PlusAt
<1>10. (a + p) + ((b + c) + (q + r)) = (a + (b + c)) + (p + (q + r))
       /\ (a + p) + ((b + q) + (c + r)) = (a + (b + c)) + (p + (q + r))
       /\ (a + (b + c)) + (p + (q + r)) \in Int
  BY <1>2
<1>11. /\ ElementCost(u, "MP") = Plus(u.iMp, u.cMp) /\ ElementCost(u, "MOD") = Plus(u.iMo, u.cMo)
       /\ ElementCost(u, "CIP") = Plus(u.iCif, u.cCif)
       /\ ElementCost(u, "CC") = Plus(Plus(u.iMo, u.iCif), Plus(u.cMo, u.cCif))
  BY DEF ElementCost, Opening, OfPeriod
<1>12. Plus(ElementCost(u, "MP"), ElementCost(u, "CC"))
         = Plus(Plus(u.iMp, Plus(u.iMo, u.iCif)), PeriodMoney(u))
  BY <1>3, <1>7, <1>8, <1>10, <1>11, SameAt
<1>13. Plus(ElementCost(u, "MP"), Plus(ElementCost(u, "MOD"), ElementCost(u, "CIP")))
         = Plus(Plus(u.iMp, Plus(u.iMo, u.iCif)), PeriodMoney(u))
  BY <1>3, <1>7, <1>9, <1>10, <1>11, SameAt
<1>14. IsAmount(Plus(u.iMo, u.iCif)) /\ IsAmount(Plus(u.cMo, u.cCif))
  BY AmountOps DEF IsMoney
<1>15. IsAmount(Plus(u.iMp, Plus(u.iMo, u.iCif))) /\ IsAmount(PeriodMoney(u))
  BY <1>14, AmountOps DEF IsMoney, PeriodMoney
<1>16. IsAmount(Plus(Plus(u.iMp, Plus(u.iMo, u.iCif)), PeriodMoney(u)))
  BY <1>15, AmountOps
<1> QED BY <1>12, <1>13, <1>16

\* Section B: the elements together.
LEMMA SectionBFacts ==
  ASSUME NEW d, Unified[d] \in BOOLEAN, NEW s, NEW u, IsSchedule(s), IsUnits(u), IsMoney(u),
         \A e \in Elements(d) : ~CostWithoutUnits(s, u, e)
  PROVE  LET b == SectionB(d, s, u)
         IN /\ IsAmount(b.unit) /\ IsAmount(b.total)
            /\ DOMAIN b.efs = Elements(d) /\ \A e \in Elements(d) : IsAmount(b.efs[e])
            /\ IsAmount(SumOver(b.efs, Elements(d)))
            /\ b.total = Plus(Times(Finished(s), b.unit), SumOver(b.efs, Elements(d)))
            /\ b.total = Plus(Plus(u.iMp, Plus(u.iMo, u.iCif)), PeriodMoney(u))
<1> DEFINE E == Elements(d)
           units == [e \in E |-> UnitCost(s, u, e)]
           costs == [e \in E |-> ElementCost(u, e)]
           efs == [e \in E |-> ElementEF(s, u, e)]
           done == [e \in E |-> Times(Finished(s), units[e])]
<1>1. E \subseteq {"MP", "MOD", "CIP", "CC"} /\ IsFiniteSet(E)
  <2>1. IsFiniteSet({"MP", "CC"}) /\ IsFiniteSet({"MP", "MOD", "CIP"})
    <3>1. IsFiniteSet({"MP"})
      BY FS_Singleton
    <3>2. IsFiniteSet({"MP"} \cup {"CC"}) /\ IsFiniteSet({"MP"} \cup {"MOD"})
      BY <3>1, FS_AddElement
    <3>3. IsFiniteSet(({"MP"} \cup {"MOD"}) \cup {"CIP"})
      BY <3>2, FS_AddElement
    <3>4. {"MP"} \cup {"CC"} = {"MP", "CC"} /\ ({"MP"} \cup {"MOD"}) \cup {"CIP"} = {"MP", "MOD", "CIP"}
      OBVIOUS
    <3> QED BY <3>2, <3>3, <3>4
  <2> QED BY <2>1 DEF Elements
<1>2. \A e \in E : /\ IsAmount(units[e]) /\ IsAmount(costs[e]) /\ IsAmount(efs[e])
                   /\ costs[e] = Plus(done[e], efs[e])
  <2> SUFFICES ASSUME NEW e \in E
               PROVE  /\ IsAmount(units[e]) /\ IsAmount(costs[e]) /\ IsAmount(efs[e])
                      /\ costs[e] = Plus(done[e], efs[e])
    OBVIOUS
  <2>1. e \in {"MP", "MOD", "CIP", "CC"} /\ ~CostWithoutUnits(s, u, e)
    BY <1>1
  <2>2. /\ IsAmount(UnitCost(s, u, e)) /\ IsAmount(ElementCost(u, e)) /\ IsAmount(ElementEF(s, u, e))
        /\ ElementCost(u, e) = Plus(Times(Finished(s), UnitCost(s, u, e)), ElementEF(s, u, e))
    BY <2>1, ElementIsBorne
  <2> QED BY <2>2
<1>3. SectionB(d, s, u).unit = SumOver(units, E) /\ SectionB(d, s, u).total = SumOver(costs, E)
      /\ SectionB(d, s, u).efs = efs
  BY DEF SectionB
<1>4. \A e \in E : done[e] = Times(Finished(s), units[e])
  OBVIOUS
<1>5. costs["MP"] = ElementCost(u, "MP")
      /\ IF Unified[d] THEN costs["CC"] = ElementCost(u, "CC")
         ELSE costs["MOD"] = ElementCost(u, "MOD") /\ costs["CIP"] = ElementCost(u, "CIP")
  BY DEF Elements
<1>6. DOMAIN efs = E
  OBVIOUS
<1>7. IsFraction(Finished(s))
  <2>1. IsFraction(Plus(s.stock, s.extra))
    BY FractionOps DEF IsSchedule, IsAmount
  <2> QED BY <2>1, FractionOps DEF IsSchedule, IsAmount, Finished
<1> HIDE DEF units, costs, efs, done
<1>8. AreFractions(units, E) /\ AreFractions(costs, E) /\ AreFractions(efs, E)
  BY <1>2 DEF AreFractions, IsAmount
<1>9. SumOver(done, E) = Times(Finished(s), SumOver(units, E))
  BY <1>1, <1>4, <1>7, <1>8, SumTimes
<1>10. AreFractions(done, E)
  BY <1>4, <1>7, <1>8, FractionOps DEF AreFractions
<1>11. SumOver(costs, E) = Plus(SumOver(done, E), SumOver(efs, E))
  BY <1>1, <1>2, <1>8, <1>10, SumPlus
<1>12. SumOver(costs, E) = Plus(Plus(u.iMp, Plus(u.iMo, u.iCif)), PeriodMoney(u))
       /\ IsAmount(Plus(Plus(u.iMp, Plus(u.iMo, u.iCif)), PeriodMoney(u)))
  BY <1>5, <1>8, ElementsSum, ColumnsAdd
<1>13. ASSUME NEW f, \A e \in E : IsAmount(f[e])
       PROVE  IsAmount(SumOver(f, E))
  <2>1. AreFractions(f, E)
    BY <1>13 DEF AreFractions, IsAmount
  <2>2. CASE Unified[d]
    <3>1. IsAmount(f["MP"]) /\ IsAmount(f["CC"])
      BY <1>13, <2>2 DEF Elements
    <3> QED BY <2>1, <2>2, <3>1, ElementsSum, AmountOps
  <2>3. CASE ~Unified[d]
    <3>1. IsAmount(f["MP"]) /\ IsAmount(f["MOD"]) /\ IsAmount(f["CIP"])
      BY <1>13, <2>3 DEF Elements
    <3>2. IsAmount(Plus(f["MOD"], f["CIP"]))
      BY <3>1, AmountOps
    <3> QED BY <2>1, <2>3, <3>1, <3>2, ElementsSum, AmountOps
  <2> QED BY <2>2, <2>3
<1>14. IsAmount(SumOver(units, E)) /\ IsAmount(SumOver(efs, E))
  BY <1>2, <1>13
<1> QED BY <1>2, <1>3, <1>6, <1>9, <1>11, <1>12, <1>14

\* What comes from the department before: what was in process of it and what was received,
\* spread over the good units.
LEMMA SectionAFacts ==
  ASSUME NEW d, d # 1, NEW s, NEW u, NEW previous, IsSchedule(s), IsMoney(u), IsAmount(previous),
         IsFraction(Factor[d]), IsPositive(Factor[d]), s.ei = u.ei, ~LostUnitsNobodyBears(s)
  PROVE  LET a == SectionA(d, s, u, previous)
         IN /\ IsAmount(a.unit) /\ a.total = Times(GoodUnits(s), a.unit)
            /\ ~Orphaned(u) =>
                 a.total = Plus(u.iPrev, Times(s.received, InOwnUnits(d, previous)))
<1> DEFINE p == InOwnUnits(d, previous)
           M == ModifiedCost(s, u, p)
           R == Received(s)
           N == s.normal
           G == GoodUnits(s)
           C == Caup(s, u, p)
           L == Plus(u.iPrev, Times(s.received, p))
<1>1. IsAmount(p)
  BY AmountOps, PositiveFacts DEF InOwnUnits
<1>2. IsAmount(R) /\ IsAmount(L) /\ IsAmount(N) /\ IsAmount(u.iPrev)
  <2>1. IsAmount(Plus(s.received, s.increase)) /\ IsAmount(Times(s.received, p))
    BY <1>1, AmountOps DEF IsSchedule
  <2> QED BY <2>1, AmountOps DEF IsSchedule, IsMoney, Received
<1>3. Step1(s) => IsPositive(R)
  <2>1. IsAmount(Plus(s.received, s.increase)) /\ IsAmount(s.ei) /\ IsAmount(s.received)
        /\ IsAmount(s.increase)
    BY AmountOps DEF IsSchedule
  <2>2. IsPositive(s.increase) => IsPositive(Plus(s.received, s.increase))
    BY <2>1, PositiveSum
  <2> QED BY <2>1, <2>2, PositiveSum DEF Step1, Received
<1>4. M = IF Step1(s) THEN Over(L, R) ELSE p
  BY DEF ModifiedCost
<1>5. G = Minus(R, N) /\ (IsPositive(N) => IsPositive(G))
  BY DEF GoodUnits, LostUnitsNobodyBears
<1>6. C = IF IsPositive(N) THEN Over(Times(N, M), G) ELSE Zero
  BY DEF Caup
<1>7. SectionA(d, s, u, previous).unit = Plus(M, C)
      /\ SectionA(d, s, u, previous).total = Times(G, Plus(M, C))
  BY DEF SectionA, TransferredCost
<1>8. ASSUME ~Step1(s), ~Orphaned(u)
      PROVE  u.iPrev = Zero /\ R = s.received
  <2>1. s.ei = Zero /\ s.increase = Zero
    BY <1>8, AmountIsPositive DEF Step1, IsSchedule
  <2>2. ~IsPositive(u.iPrev)
    BY <1>8 DEF Orphaned, Step1
  <2>3. Plus(s.received, Zero) = s.received /\ Plus(Zero, s.received) = s.received
    BY PlusZero DEF IsSchedule, IsAmount
  <2> QED BY <2>1, <2>2, <2>3, AmountIsPositive DEF Received, IsMoney
<1> HIDE DEF p, M, R, N, G, C, L
<1>9. IsAmount(M)
  BY <1>1, <1>2, <1>3, <1>4, AmountOps
<1>10. ASSUME ~Orphaned(u) PROVE Times(R, M) = L
  <2>1. CASE Step1(s)
    <3>1. R # Zero /\ IsFraction(R) /\ IsFraction(L) /\ IsFraction(M) /\ M = Over(L, R)
      BY <2>1, <1>2, <1>3, <1>4, <1>9, PositiveFacts DEF IsAmount
    <3>2. Times(M, R) = L
      BY <3>1, OverTimes
    <3> QED BY <3>1, <3>2, Distributes
  <2>2. CASE ~Step1(s)
    <3>1. M = p /\ u.iPrev = Zero /\ R = s.received
      BY <2>2, <1>4, <1>8, <1>10
    <3>2. IsAmount(Times(R, p))
      BY <1>1, <1>2, AmountOps
    <3>3. L = Times(R, p)
      BY <3>1, <3>2, PlusZero DEF L, IsAmount
    <3> QED BY <3>1, <3>3
  <2> QED BY <2>1, <2>2
<1>11. IsFraction(M) /\ IsFraction(R) /\ IsFraction(N) /\ IsFraction(G)
       /\ IsFraction(Times(N, M)) /\ IsFraction(Times(R, M)) /\ IsAmount(Times(N, M))
  BY <1>2, <1>5, <1>9, FractionOps, AmountOps DEF IsAmount
<1>12. CASE IsPositive(N)
  <2>1. IsPositive(G) /\ G # Zero /\ IsAmount(G) /\ C = Over(Times(N, M), G)
    BY <1>5, <1>6, <1>11, <1>12, PositiveFacts
  <2>2. IsAmount(C)
    BY <2>1, <1>11, AmountOps
  <2>3. Times(C, G) = Times(N, M) /\ IsFraction(C)
    BY <2>1, <2>2, <1>11, OverTimes DEF IsAmount
  <2>4. Times(G, C) = Times(N, M)
    BY <2>3, <1>11, Distributes
  <2>5. Times(M, G) = Minus(Times(M, R), Times(M, N))
    BY <1>5, <1>11, Distributes
  <2>6. Times(M, G) = Times(G, M) /\ Times(M, R) = Times(R, M) /\ Times(M, N) = Times(N, M)
    BY <1>11, Distributes
  <2>7. Times(G, Plus(M, C)) = Plus(Times(G, M), Times(G, C))
    BY <2>3, <1>11, Distributes
  <2>8. Times(G, Plus(M, C)) = Times(R, M)
    <3>1. Times(G, Plus(M, C)) = Plus(Minus(Times(R, M), Times(N, M)), Times(N, M))
      BY <2>4, <2>5, <2>6, <2>7
    <3> QED BY <3>1, <1>11, MinusPlus
  <2>9. IsAmount(Plus(M, C))
    BY <2>2, <1>9, AmountOps
  <2> QED BY <2>8, <2>9, <1>7, <1>10 DEF G, L, p
<1>13. CASE ~IsPositive(N)
  <2>1. N = Zero /\ C = Zero
    BY <1>2, <1>6, <1>13, AmountIsPositive
  <2>2. G = R
    BY <2>1, <1>5, <1>11, MinusPlus
  <2>3. Plus(M, C) = M
    BY <2>1, <1>11, PlusZero
  <2> QED BY <2>2, <2>3, <1>7, <1>9, <1>10 DEF G, L, p
<1> QED BY <1>12, <1>13

\* What is due is in the finished units and, element by element, in process.
LEMMA DueIsBorne ==
  ASSUME NEW o, NEW t, NEW x, NEW f, NEW v, NEW w, NEW e,
         IsFraction(o), IsFraction(t), IsFraction(x), IsFraction(f), IsFraction(v), IsFraction(w),
         IsFraction(e)
  PROVE  LET k == Plus(o, Plus(t, x))
             z == Plus(v, w)
             due == Plus(Plus(Times(k, v), e), Times(Plus(k, f), w))
         IN Minus(Minus(Minus(due, Times(o, z)), Times(t, z)), Times(x, z)) = Plus(e, Times(f, w))
<1> DEFINE k == Plus(o, Plus(t, x))
           z == Plus(v, w)
<1>1. IsFraction(Plus(t, x)) /\ IsFraction(k) /\ IsFraction(z)
  BY FractionOps
<1>2. Times(w, Plus(k, f)) = Plus(Times(w, k), Times(w, f)) /\ IsFraction(Plus(k, f))
  BY <1>1, Distributes, FractionOps
<1>3. Times(Plus(k, f), w) = Plus(Times(k, w), Times(f, w))
  BY <1>1, <1>2, Distributes
<1>4. Times(k, z) = Plus(Times(k, v), Times(k, w))
  BY <1>1, Distributes
<1>5. Times(z, Plus(o, Plus(t, x))) = Plus(Times(z, o), Times(z, Plus(t, x)))
      /\ Times(z, Plus(t, x)) = Plus(Times(z, t), Times(z, x))
  BY <1>1, Distributes
<1>6. Times(k, z) = Plus(Times(o, z), Plus(Times(t, z), Times(x, z)))
  BY <1>1, <1>5, Distributes
<1>7. Eight(Times(k, v), Times(k, w), Times(f, w), e, Times(o, z), Times(t, z), Times(x, z), Zero)
  BY <1>1, FractionOps, ZeroAmount DEF Eight
<1> HIDE DEF k, z
<1>8. PICK a, b, c, m, p, q, r, n \in Int, d \in Nat :
        /\ d > 0 /\ At(Times(k, v), a, d) /\ At(Times(k, w), b, d) /\ At(Times(f, w), c, d)
        /\ At(e, m, d) /\ At(Times(o, z), p, d) /\ At(Times(t, z), q, d) /\ At(Times(x, z), r, d)
        /\ At(Zero, n, d)
  BY <1>7, EightBase
<1>9. d \in Int /\ d > 0 /\ a + b \in Int /\ q + r \in Int /\ p + (q + r) \in Int /\ b + c \in Int
      /\ a + m \in Int /\ (a + m) + (b + c) \in Int /\ m + c \in Int
      /\ ((a + m) + (b + c)) - p \in Int /\ (((a + m) + (b + c)) - p) - q \in Int
  BY <1>8
<1>10. At(Times(k, z), a + b, d)
  BY <1>4, <1>8, <1>9, PlusAt
<1>11. At(Plus(Times(t, z), Times(x, z)), q + r, d)
  BY <1>8, <1>9, PlusAt
<1>12. At(Times(k, z), p + (q + r), d)
  BY <1>6, <1>8, <1>9, <1>11, PlusAt
<1>13. a + b = p + (q + r)
  BY <1>9, <1>10, <1>12, NumeratorAt
<1>14. At(Plus(Times(k, v), e), a + m, d) /\ At(Times(Plus(k, f), w), b + c, d)
       /\ At(Plus(e, Times(f, w)), m + c, d)
  BY <1>3, <1>8, <1>9, PlusAt
<1> DEFINE due == Plus(Plus(Times(k, v), e), Times(Plus(k, f), w))
<1>15. At(due, (a + m) + (b + c), d)
  BY <1>9, <1>14, PlusAt
<1> HIDE DEF due
<1>16. At(Minus(due, Times(o, z)), ((a + m) + (b + c)) - p, d)
  BY <1>8, <1>9, <1>15, PlusAt
<1>17. At(Minus(Minus(due, Times(o, z)), Times(t, z)), (((a + m) + (b + c)) - p) - q, d)
  BY <1>8, <1>9, <1>16, PlusAt
<1>18. At(Minus(Minus(Minus(due, Times(o, z)), Times(t, z)), Times(x, z)),
          ((((a + m) + (b + c)) - p) - q) - r, d)
  BY <1>8, <1>9, <1>17, PlusAt
<1>19. ((((a + m) + (b + c)) - p) - q) - r = m + c
  BY <1>8, <1>13
<1> QED BY <1>9, <1>14, <1>18, <1>19, SameAt DEF due, k, z

\* A chain as it may be set up.
IsChain ==
  /\ Len(Unified) \in Nat /\ Len(Unified) > 0 /\ Grid \in Nat /\ Grid > 0
  /\ \A d \in Depts : /\ Unified[d] \in BOOLEAN
                      /\ IsFraction(Factor[d]) /\ IsPositive(Factor[d])

\* What a department is charged with of the one before.
Inherited(d, s, u, previous) ==
  IF d = 1 THEN Zero ELSE Plus(u.iPrev, Times(s.received, InOwnUnits(d, previous)))

\* The report of a department that nothing refuses.
LEMMA DepartmentFacts ==
  ASSUME IsChain, NEW d \in Depts, NEW u, IsUnits(u), IsMoney(u), NEW previous, IsAmount(previous),
         ~ImpossibleSchedule(d, u), ~RefusedReport(d, Schedule(d, u), u, previous)
  PROVE  LET s == Schedule(d, u)
             r == Report(d, s, u, previous)
         IN /\ IsSchedule(s) /\ r.schedule = s /\ IsAmount(r.unit)
            /\ IsFraction(r.due) /\ IsFraction(r.out) /\ IsFraction(r.stock) /\ IsFraction(r.extra)
            /\ r.out = Times(s.out, r.unit)
            /\ r.ef = Minus(Minus(Minus(r.due, r.out), r.stock), r.extra)
            /\ r.ef = r.efByElement
            /\ \A e \in Elements(d) : IsAmount(r.efs[e])
            /\ IsAmount(r.efPrevious) /\ (d = 1 => r.efPrevious = Zero)
            /\ r.efByElement = Plus(SumOver(r.efs, Elements(d)), r.efPrevious)
            /\ AreFractions(r.efs, Elements(d))
            /\ ~Orphaned(u) =>
                 r.due = Plus(Plus(Plus(u.iMp, Plus(u.iMo, u.iCif)), PeriodMoney(u)),
                              Inherited(d, s, u, previous))
<1> DEFINE s == Schedule(d, u)
           a == SectionA(d, s, u, previous)
           b == SectionB(d, s, u)
           r == Report(d, s, u, previous)
           E == Elements(d)
           inherited == Inherited(d, s, u, previous)
           own == Plus(Plus(u.iMp, Plus(u.iMo, u.iCif)), PeriodMoney(u))
<1>1. IsAmount(Default(u.ei, Zero)) /\ IsAmount(Default(u.stock, Zero)) /\ Default(u.ei, Zero) = u.ei
  <2>1. Given(u.ei) /\ Given(u.stock)
    BY AmountGiven DEF IsUnits, IsAmount
  <2> QED BY <2>1 DEF Default, IsUnits
<1>2. /\ IsAmount(s.ei) /\ IsAmount(s.period) /\ IsAmount(s.received) /\ IsAmount(s.increase)
      /\ IsAmount(s.out) /\ IsAmount(s.stock) /\ IsAmount(s.normal) /\ IsAmount(s.extra)
      /\ IsAmount(s.ef)
      /\ d # 1 => GoodUnits(s) = Plus(Plus(s.out, Plus(s.stock, s.extra)), s.ef)
  <2>1. IsOptional(u.started) /\ IsOptional(u.received) /\ IsOptional(u.increase)
        /\ IsOptional(u.out) /\ IsOptional(u.lossPct) /\ IsOptional(u.totalLoss) /\ IsOptional(u.ef)
    BY DEF IsUnits
  <2> HIDE DEF s
  <2> QED BY <1>1, <2>1, ScheduleFacts DEF s
<1>3. s.ei = u.ei
  BY <1>1 DEF Schedule
<1>4. IsSchedule(s)
  BY <1>2 DEF IsSchedule
<1>5. d \in Int /\ d >= 1 /\ Unified[d] \in BOOLEAN /\ IsFraction(Factor[d]) /\ IsPositive(Factor[d])
  BY DEF IsChain, Depts
<1>6. /\ \A e \in E : ~CostWithoutUnits(s, u, e)
      /\ d # 1 => ~LostUnitsNobodyBears(s)
  BY <1>5 DEF RefusedReport
<1> HIDE DEF s
<1>7. /\ IsAmount(b.unit) /\ IsAmount(b.total)
      /\ DOMAIN b.efs = E /\ \A e \in E : IsAmount(b.efs[e])
      /\ IsAmount(SumOver(b.efs, E))
      /\ b.total = Plus(Times(Finished(s), b.unit), SumOver(b.efs, E))
      /\ b.total = own
  BY <1>4, <1>5, <1>6, SectionBFacts
<1>8. /\ IsAmount(a.unit) /\ IsFraction(a.total)
      /\ a.total = Times(Plus(Finished(s), s.ef), a.unit)
      /\ ~Orphaned(u) => a.total = inherited
      /\ d = 1 => a.unit = Zero
  <2>1. IsFraction(Plus(Finished(s), s.ef))
    <3>1. IsFraction(Plus(s.stock, s.extra)) /\ IsFraction(s.ef) /\ IsFraction(s.out)
      BY <1>2, FractionOps DEF IsAmount
    <3> QED BY <3>1, FractionOps DEF Finished
  <2>2. CASE d = 1
    <3>1. a.unit = Zero /\ a.total = Zero
      BY <2>2 DEF SectionA
    <3>2. inherited = Zero
      BY <2>2 DEF Inherited
    <3> QED BY <2>1, <3>1, <3>2, TimesLaws, ZeroAmount
  <2>3. CASE d # 1
    <3>1. /\ IsAmount(a.unit) /\ a.total = Times(GoodUnits(s), a.unit)
          /\ ~Orphaned(u) => a.total = Plus(u.iPrev, Times(s.received, InOwnUnits(d, previous)))
      BY <2>3, <1>3, <1>4, <1>5, <1>6, SectionAFacts
    <3>2. GoodUnits(s) = Plus(Finished(s), s.ef)
      BY <2>3, <1>2 DEF Finished
    <3>3. IsFraction(a.total)
      BY <2>1, <3>1, <3>2, FractionOps DEF IsAmount
    <3>4. inherited = Plus(u.iPrev, Times(s.received, InOwnUnits(d, previous)))
      BY <2>3 DEF Inherited
    <3> QED BY <2>3, <3>1, <3>2, <3>3, <3>4
  <2> QED BY <2>2, <2>3
<1>9. /\ r.schedule = s /\ r.unit = Plus(b.unit, a.unit) /\ r.due = Plus(b.total, a.total)
      /\ r.out = Times(s.out, r.unit) /\ r.stock = Times(s.stock, r.unit)
      /\ r.extra = Times(s.extra, r.unit) /\ r.efs = b.efs
      /\ r.efPrevious = Times(s.ef, a.unit)
      /\ r.ef = Minus(Minus(Minus(r.due, r.out), r.stock), r.extra)
      /\ r.efByElement = Plus(SumOver(b.efs, DOMAIN b.efs), Times(s.ef, a.unit))
  BY ReportFields
<1> HIDE DEF a, b, r, E, inherited, own
<1>10. IsAmount(r.unit)
  BY <1>7, <1>8, <1>9, AmountOps
<1>11. IsFraction(r.due) /\ IsFraction(r.out) /\ IsFraction(r.stock) /\ IsFraction(r.extra)
  BY <1>2, <1>7, <1>8, <1>9, <1>10, FractionOps DEF IsAmount
<1>12. r.efByElement = Plus(SumOver(r.efs, E), r.efPrevious)
  BY <1>7, <1>9
<1>13. IsAmount(r.efPrevious) /\ (d = 1 => r.efPrevious = Zero)
  BY <1>2, <1>8, <1>9, AmountOps, TimesLaws DEF IsAmount
<1>14. AreFractions(r.efs, E) /\ \A e \in E : IsAmount(r.efs[e])
  BY <1>7, <1>9 DEF AreFractions, IsAmount
<1>15. r.ef = r.efByElement
  <2>1. PICK o, t, x, f, v, w, e : /\ o = s.out /\ t = s.stock /\ x = s.extra /\ f = s.ef
                                   /\ v = b.unit /\ w = a.unit /\ e = SumOver(b.efs, E)
    OBVIOUS
  <2>2. IsFraction(o) /\ IsFraction(t) /\ IsFraction(x) /\ IsFraction(f) /\ IsFraction(v)
        /\ IsFraction(w) /\ IsFraction(e)
    BY <2>1, <1>2, <1>7, <1>8 DEF IsAmount
  <2>3. r.due = Plus(Plus(Times(Plus(o, Plus(t, x)), v), e), Times(Plus(Plus(o, Plus(t, x)), f), w))
    BY <2>1, <1>7, <1>8, <1>9 DEF Finished
  <2>4. r.ef = Minus(Minus(Minus(r.due, Times(o, Plus(v, w))), Times(t, Plus(v, w))),
                     Times(x, Plus(v, w)))
    BY <2>1, <1>9
  <2>5. r.efByElement = Plus(e, Times(f, w))
    BY <2>1, <1>7, <1>9
  <2>6. r.ef = Plus(e, Times(f, w))
    BY <2>2, <2>3, <2>4, DueIsBorne
  <2> QED BY <2>5, <2>6
<1>16. ~Orphaned(u) => r.due = Plus(own, inherited)
  BY <1>7, <1>8, <1>9
<1> QED BY <1>4, <1>9, <1>10, <1>11, <1>12, <1>13, <1>14, <1>15, <1>16 DEF r, s, E, own, inherited

-----------------------------------------------------------------------------
\* The rows of a month that are in the tables.
RowFields == {"exists", "ei", "started", "received", "increase", "out", "stock", "lossPct",
              "normal", "totalLoss", "ef", "avMp", "avConv", "cMp", "cMo", "cCif", "iMp", "iMo",
              "iCif", "iPrev"}
IsRow(d, u) ==
  /\ DOMAIN u = RowFields /\ u.exists = TRUE /\ IsUnits(u) /\ IsMoney(u)
  /\ (Given(u.out) <=> Given(u.ef)) /\ (d = 1 => u.iPrev = Zero)
  /\ Column(u.ei) = u.ei /\ Column(u.ef) = u.ef
IsRows(rows) == DOMAIN rows = Depts /\ \A d \in Depts : IsRow(d, rows[d])

\* What holds of the report of each department.
IsDone(rows, d) ==
  LET u == rows[d]
      s == Schedule(d, u)
      r == Run(rows)[d]
  IN /\ IsSchedule(s) /\ r.schedule = s /\ IsAmount(r.unit)
     /\ IsFraction(r.due) /\ IsFraction(r.out) /\ IsFraction(r.stock) /\ IsFraction(r.extra)
     /\ r.out = Times(s.out, r.unit)
     /\ r.ef = Minus(Minus(Minus(r.due, r.out), r.stock), r.extra)
     /\ r.ef = r.efByElement
     /\ \A e \in Elements(d) : IsAmount(r.efs[e])
     /\ IsAmount(r.efPrevious) /\ (d = 1 => r.efPrevious = Zero)
     /\ r.efByElement = Plus(SumOver(r.efs, Elements(d)), r.efPrevious)
     /\ AreFractions(r.efs, Elements(d))
     /\ ~Orphaned(u) =>
          r.due = Plus(Plus(Plus(u.iMp, Plus(u.iMo, u.iCif)), PeriodMoney(u)),
                       Inherited(d, s, u, Prior(Run(rows), d)))

\* It holds of all, one after another.
LEMMA AllDone ==
  ASSUME IsChain, NEW rows, IsRows(rows), Calculates(rows)
  PROVE  \A d \in Depts : IsDone(rows, d)
<1> DEFINE n == Len(Unified)
           report == Run(rows)
<1>1. n \in Nat /\ Depts = 1 .. n /\ DOMAIN rows = 1 .. n
  BY DEF IsChain, Depts, IsRows
<1>2. \A d \in 1 .. n : report[d] = Report(d, Schedule(d, rows[d]), rows[d], Prior(report, d))
  BY <1>1, RunFacts
<1>3. ASSUME NEW d \in Depts, IsAmount(Prior(report, d))
      PROVE  IsDone(rows, d)
  <2>1. IsUnits(rows[d]) /\ IsMoney(rows[d]) /\ ~ImpossibleSchedule(d, rows[d])
        /\ ~Run(rows)[d].refused
    BY DEF IsRows, IsRow, Calculates, IsReport
  <2>2. Run(rows)[d] = Report(d, Schedule(d, rows[d]), rows[d], Prior(report, d))
    BY <1>1, <1>2
  <2>3. Run(rows)[d].refused = RefusedReport(d, Schedule(d, rows[d]), rows[d], Prior(report, d))
    BY <2>2, ReportFields
  <2>4. PICK u, p, r : u = rows[d] /\ p = Prior(report, d) /\ r = Run(rows)[d]
    OBVIOUS
  <2>5. IsUnits(u) /\ IsMoney(u) /\ IsAmount(p) /\ ~ImpossibleSchedule(d, u)
        /\ ~RefusedReport(d, Schedule(d, u), u, p) /\ r = Report(d, Schedule(d, u), u, p)
    BY <2>1, <2>2, <2>3, <2>4, <1>3
  <2>6. LET s == Schedule(d, u)
        IN /\ IsSchedule(s) /\ r.schedule = s /\ IsAmount(r.unit)
           /\ IsFraction(r.due) /\ IsFraction(r.out) /\ IsFraction(r.stock) /\ IsFraction(r.extra)
           /\ r.out = Times(s.out, r.unit)
           /\ r.ef = Minus(Minus(Minus(r.due, r.out), r.stock), r.extra)
           /\ r.ef = r.efByElement
           /\ \A e \in Elements(d) : IsAmount(r.efs[e])
           /\ IsAmount(r.efPrevious) /\ (d = 1 => r.efPrevious = Zero)
           /\ r.efByElement = Plus(SumOver(r.efs, Elements(d)), r.efPrevious)
           /\ AreFractions(r.efs, Elements(d))
           /\ ~Orphaned(u) =>
                r.due = Plus(Plus(Plus(u.iMp, Plus(u.iMo, u.iCif)), PeriodMoney(u)),
                             Inherited(d, s, u, p))
    BY <2>5, DepartmentFacts
  <2> QED BY <2>4, <2>6 DEF IsDone
<1> DEFINE G == {k \in Nat : k + 1 <= n => IsDone(rows, k + 1)}
<1>4. 0 \in G
  <2>1. Prior(report, 1) = Zero
    BY DEF Prior
  <2>2. ASSUME 1 <= n PROVE IsDone(rows, 1)
    <3>1. 1 \in Depts
      BY <1>1, <2>2
    <3> QED BY <2>1, <3>1, <1>3, ZeroAmount
  <2> QED BY <2>2
<1>5. ASSUME NEW k \in Nat, k \in G
      PROVE  k + 1 \in G
  <2> SUFFICES ASSUME (k + 1) + 1 <= n PROVE IsDone(rows, (k + 1) + 1)
    OBVIOUS
  <2>1. IsDone(rows, k + 1)
    BY <1>1, <1>5
  <2>2. (k + 1) + 1 \in Depts /\ (k + 1) + 1 # 1 /\ ((k + 1) + 1) - 1 = k + 1
    BY <1>1
  <2>3. Prior(report, (k + 1) + 1) = report[k + 1].unit
    BY <2>2 DEF Prior
  <2>4. IsAmount(report[k + 1].unit)
    BY <2>1 DEF IsDone
  <2> QED BY <2>2, <2>3, <2>4, <1>3
<1>6. Nat \subseteq G
  <2> HIDE DEF G
  <2> QED BY <1>4, <1>5, NaturalsFrom
<1>7. ASSUME NEW d \in Depts PROVE IsDone(rows, d)
  <2>1. d - 1 \in Nat /\ (d - 1) + 1 = d /\ d <= n
    BY <1>1
  <2>2. d - 1 \in G
    BY <1>6, <2>1
  <2> QED BY <2>1, <2>2
<1> QED BY <1>7

\* What a department is charged with for the units that it received.
Passed(rows, d) ==
  IF d = 1 THEN Zero
  ELSE Times(Schedule(d, rows[d]).received, InOwnUnits(d, Run(rows)[d - 1].unit))

\* It is what the one before passed to it, but for the units whose difference nobody notices.
LEMMA ReceivedIsPassed ==
  ASSUME IsChain, NEW rows, IsRows(rows), Calculates(rows), NEW d \in Depts, d # 1
  PROVE  /\ IsFraction(Passed(rows, d)) /\ IsAmount(Slack(d, Run(rows)))
         /\ Near(Run(rows)[d - 1].out, Passed(rows, d), Slack(d, Run(rows)))
<1> DEFINE report == Run(rows)
           s == Schedule(d, rows[d])
           before == rows[d - 1]
           k == InOwnUnits(d, report[d - 1].unit)
<1>1. d - 1 \in Depts /\ d > 1
  BY DEF IsChain, Depts
<1>2. IsDone(rows, d) /\ IsDone(rows, d - 1)
  BY <1>1, AllDone
<1>4. Given(before.out)
  <2>1. Given(before.out) <=> Given(before.ef)
    BY <1>1 DEF IsRows, IsRow
  <2>2. Given(before.out) \/ Given(before.ef)
    BY <1>1 DEF Calculates, IsReport, RefusedInputs
  <2> QED BY <2>1, <2>2
<1>5. Schedule(d - 1, before).out = before.out
  BY <1>4 DEF Schedule, TransferredOut
<1>6. Near(Times(before.out, Factor[d]), s.received, Unnoticed)
  <2>1. ~UnitsGoMissing(d, rows)
    BY DEF Calculates, IsReport, RefusedInputs
  <2>2. Near(Times(ResolvedOut(d - 1, before), Factor[d]), Default(rows[d].received, Zero), Unnoticed)
    BY <1>1, <2>1 DEF UnitsGoMissing
  <2>3. ResolvedOut(d - 1, before) = before.out
    BY <1>4 DEF ResolvedOut
  <2>4. s.received = Default(rows[d].received, Zero)
    BY DEF Schedule
  <2> QED BY <2>2, <2>3, <2>4
<1>7. report[d - 1].out = Times(before.out, report[d - 1].unit)
      /\ IsAmount(before.out) /\ IsAmount(report[d - 1].unit) /\ IsAmount(s.received)
  BY <1>2, <1>5 DEF IsDone, IsSchedule
<1>8. IsFraction(Factor[d]) /\ IsPositive(Factor[d])
  BY DEF IsChain
<1>9. Times(Times(before.out, Factor[d]), k) = report[d - 1].out
  BY <1>7, <1>8, UnitsConverted DEF IsAmount, InOwnUnits
<1>10. IsAmount(k)
  <2>1. IsAmount(Factor[d])
    BY <1>8 DEF IsAmount, IsPositive, IsNegative, IsFraction
  <2> QED BY <2>1, <1>7, <1>8, AmountOps DEF InOwnUnits
<1>11. IsAmount(Unnoticed)
  <2>1. PICK g : g = Grid
    OBVIOUS
  <2>2. g \in Nat /\ g > 0
    BY <2>1 DEF IsChain
  <2>3. IsAmount(Fraction(1, g))
    BY <2>2, PartFacts, 1 \in Nat
  <2> QED BY <2>1, <2>3 DEF Unnoticed
<1>12. IsFraction(Times(before.out, Factor[d]))
  BY <1>7, <1>8, FractionOps DEF IsAmount
<1> HIDE DEF k, s
<1>13. Near(report[d - 1].out, Times(s.received, k), Times(Unnoticed, k))
  BY <1>6, <1>7, <1>9, <1>10, <1>11, <1>12, NearTimes DEF IsAmount
<1>14. Passed(rows, d) = Times(s.received, k) /\ Slack(d, report) = Times(Unnoticed, k)
  BY DEF Passed, Slack, s, k
<1>15. IsFraction(Times(s.received, k)) /\ IsAmount(Times(Unnoticed, k))
  BY <1>7, <1>10, <1>11, AmountOps DEF IsAmount
<1> QED BY <1>13, <1>14, <1>15

\* What a department is charged with, and where it is at the end of the month.
Charged(rows) == [d \in Depts |-> Plus(OpeningMoney(rows[d]), PeriodMoney(rows[d]))]
Left(rows) == [d \in Depts |-> Plus(Plus(Run(rows)[d].stock, Run(rows)[d].extra), Run(rows)[d].ef)]

Slacks(rows) == [d \in Depts |-> Slack(d, Run(rows))]

\* The cost of a month is in what it leaves and in its product.
LEMMA MonthIsConserved ==
  ASSUME IsChain, NEW rows, IsRows(rows), Calculates(rows), \A d \in Depts : ~Orphaned(rows[d])
  PROVE  Near(SumOver(Charged(rows), Depts),
              Plus(SumOver(Left(rows), Depts), Run(rows)[Len(Unified)].out),
              SumOver(Slacks(rows), Depts))
<1> DEFINE n == Len(Unified)
           report == Run(rows)
           passed == [d \in 0 .. n |-> IF d = 0 THEN Zero ELSE report[d].out]
           f == Charged(rows)
           g == Left(rows)
           t == Slacks(rows)
           h == [d \in 1 .. n |-> Minus(Plus(f[d], Passed(rows, d)), passed[d - 1])]
<1>1. n \in Nat /\ n > 0 /\ Depts = 1 .. n
  BY DEF IsChain, Depts
<1>2. \A d \in Depts : IsDone(rows, d)
  BY AllDone
<1>3. ASSUME NEW d \in Depts
      PROVE  /\ IsFraction(report[d].stock) /\ IsFraction(report[d].extra) /\ IsFraction(report[d].out)
             /\ IsFraction(report[d].due) /\ IsFraction(report[d].ef)
             /\ report[d].ef = Minus(Minus(Minus(report[d].due, report[d].out), report[d].stock),
                                     report[d].extra)
  <2>1. /\ IsFraction(report[d].stock) /\ IsFraction(report[d].extra) /\ IsFraction(report[d].out)
        /\ IsFraction(report[d].due)
        /\ report[d].ef = Minus(Minus(Minus(report[d].due, report[d].out), report[d].stock),
                                report[d].extra)
    BY <1>2 DEF IsDone
  <2> QED BY <2>1, FractionOps
<1>4. ASSUME NEW d \in Depts
      PROVE  /\ IsFraction(Plus(rows[d].iMp, Plus(rows[d].iMo, rows[d].iCif)))
             /\ IsFraction(rows[d].iPrev) /\ IsFraction(PeriodMoney(rows[d]))
  <2>1. IsMoney(rows[d])
    BY DEF IsRows, IsRow
  <2>2. IsFraction(Plus(rows[d].iMo, rows[d].iCif)) /\ IsFraction(Plus(rows[d].cMo, rows[d].cCif))
    BY <2>1, FractionOps DEF IsMoney, IsAmount
  <2> QED BY <2>1, <2>2, FractionOps DEF IsMoney, IsAmount, PeriodMoney
<1>5. ASSUME NEW d \in Depts
      PROVE  f[d] = Plus(Plus(Plus(rows[d].iMp, Plus(rows[d].iMo, rows[d].iCif)), rows[d].iPrev),
                         PeriodMoney(rows[d]))
             /\ g[d] = Plus(Plus(report[d].stock, report[d].extra), report[d].ef)
             /\ IsFraction(f[d]) /\ IsFraction(g[d])
  <2>1. f[d] = Plus(Plus(Plus(rows[d].iMp, Plus(rows[d].iMo, rows[d].iCif)), rows[d].iPrev),
                    PeriodMoney(rows[d]))
    BY DEF Charged, OpeningMoney
  <2>2. g[d] = Plus(Plus(report[d].stock, report[d].extra), report[d].ef)
    BY DEF Left
  <2>3. IsFraction(Plus(report[d].stock, report[d].extra))
        /\ IsFraction(Plus(Plus(rows[d].iMp, Plus(rows[d].iMo, rows[d].iCif)), rows[d].iPrev))
    BY <1>3, <1>4, FractionOps
  <2>4. IsFraction(f[d])
    BY <1>4, <2>1, <2>3, FractionOps
  <2>5. IsFraction(g[d])
    BY <1>3, <2>2, <2>3, FractionOps
  <2> QED BY <2>1, <2>2, <2>4, <2>5
<1>6. AreFractions(f, 1 .. n) /\ AreFractions(g, 1 .. n)
  <2> HIDE DEF f, g
  <2> QED BY <1>1, <1>5 DEF AreFractions
<1>7. AreFractions(passed, 0 .. n)
  <2>1. ASSUME NEW d \in 0 .. n PROVE IsFraction(passed[d])
    <3>1. CASE d = 0
      BY <3>1, ZeroAmount
    <3>2. CASE d # 0
      <4>1. d \in Depts /\ passed[d] = report[d].out
        BY <1>1, <3>2
      <4> QED BY <4>1, <1>3
    <3> QED BY <3>1, <3>2
  <2> HIDE DEF passed
  <2> QED BY <2>1 DEF AreFractions
<1>8. ASSUME NEW d \in 1 .. n
      PROVE  /\ Near(passed[d - 1], Passed(rows, d), t[d]) /\ IsAmount(t[d])
             /\ IsFraction(Passed(rows, d)) /\ IsFraction(passed[d - 1])
  <2>1. d \in Depts /\ d - 1 \in 0 .. n /\ t[d] = Slack(d, report)
    BY <1>1 DEF Slacks
  <2>2. CASE d = 1
    <3>1. passed[d - 1] = Zero /\ Passed(rows, d) = Zero /\ t[d] = Zero
      BY <2>1, <2>2, <1>1 DEF Passed, Slack
    <3> QED BY <3>1, ZeroAmount, NearFacts DEF IsAmount
  <2>3. CASE d # 1
    <3>1. passed[d - 1] = report[d - 1].out /\ d - 1 \in Depts
      BY <2>1, <2>3, <1>1
    <3>2. IsFraction(passed[d - 1])
      BY <3>1, <1>3
    <3> HIDE DEF passed, t
    <3> QED BY <2>1, <2>3, <3>1, <3>2, ReceivedIsPassed
  <2> QED BY <2>2, <2>3
<1>9. ASSUME NEW d \in 1 .. n
      PROVE  Plus(f[d], Passed(rows, d)) = Plus(g[d], passed[d])
  <2>1. d \in Depts /\ passed[d] = report[d].out
    BY <1>1
  <2>2. PICK x, i, p, q : /\ x = Plus(rows[d].iMp, Plus(rows[d].iMo, rows[d].iCif))
                          /\ i = rows[d].iPrev /\ p = PeriodMoney(rows[d]) /\ q = Passed(rows, d)
    OBVIOUS
  <2>3. report[d].due = Plus(Plus(x, p), Plus(i, q))
    <3>1. report[d].due = Plus(Plus(x, p), Inherited(d, Schedule(d, rows[d]), rows[d],
                                                     Prior(Run(rows), d)))
      BY <2>1, <2>2, <1>2 DEF IsDone
    <3>2. CASE d = 1
      <4>1. rows[d].iPrev = Zero
        BY <2>1, <3>2 DEF IsRows, IsRow
      <4>2. Inherited(d, Schedule(d, rows[d]), rows[d], Prior(Run(rows), d)) = Zero
        BY <3>2 DEF Inherited
      <4>3. i = Zero /\ q = Zero
        BY <4>1, <2>2, <3>2 DEF Passed
      <4>4. Plus(Zero, Zero) = Zero
        BY PlusZero, ZeroAmount
      <4> QED BY <3>1, <4>2, <4>3, <4>4
    <3>3. CASE d # 1
      <4>1. Inherited(d, Schedule(d, rows[d]), rows[d], Prior(Run(rows), d)) = Plus(i, q)
        BY <2>2, <3>3 DEF Inherited, Prior, Passed
      <4> QED BY <3>1, <4>1
    <3> QED BY <3>2, <3>3
  <2>4. IsFraction(x) /\ IsFraction(i) /\ IsFraction(p)
    BY <2>1, <2>2, <1>4
  <2>5. IsFraction(q)
    BY <2>2, <1>8
  <2>6. f[d] = Plus(Plus(x, i), p)
    BY <2>1, <2>2, <1>5
  <2>7. Plus(f[d], q) = report[d].due
    BY <2>3, <2>4, <2>5, <2>6, Regroup
  <2>8. PICK y, w, e, o : /\ y = report[d].due /\ w = report[d].stock /\ e = report[d].extra
                          /\ o = report[d].out
    OBVIOUS
  <2>9. IsFraction(y) /\ IsFraction(w) /\ IsFraction(e) /\ IsFraction(o)
        /\ report[d].ef = Minus(Minus(Minus(y, o), w), e)
    BY <2>1, <2>8, <1>3
  <2>10. g[d] = Plus(Plus(w, e), Minus(Minus(Minus(y, o), w), e))
    BY <2>1, <2>8, <2>9, <1>5
  <2>11. Plus(g[d], o) = y
    BY <2>9, <2>10, Regroup
  <2> HIDE DEF f, g, passed
  <2> QED BY <2>1, <2>2, <2>7, <2>8, <2>11
<1>10. passed[0] = Zero /\ passed[n] = report[n].out
  BY <1>1
<1> HIDE DEF f, g, passed, t
<1>11. ASSUME NEW d \in 1 .. n
       PROVE  /\ IsFraction(h[d]) /\ Near(f[d], h[d], t[d])
              /\ Plus(h[d], passed[d - 1]) = Plus(g[d], passed[d])
  <2>1. PICK x, p, q : x = f[d] /\ p = passed[d - 1] /\ q = Passed(rows, d)
    OBVIOUS
  <2>2. IsFraction(x) /\ IsFraction(p) /\ IsFraction(q) /\ Near(p, q, t[d]) /\ IsFraction(t[d])
    BY <2>1, <1>6, <1>8 DEF AreFractions, IsAmount
  <2>3. h[d] = Minus(Plus(x, q), p)
    BY <2>1
  <2>4. IsFraction(Plus(x, q)) /\ IsFraction(Plus(x, p)) /\ IsFraction(h[d])
    BY <2>2, <2>3, FractionOps
  <2>5. Plus(h[d], p) = Plus(x, q)
    BY <2>2, <2>3, <2>4, MinusPlus
  <2>6. x = Minus(Plus(x, p), p)
    <3>1. Plus(x, p) = Plus(p, x)
      BY <2>2, PlusLaws
    <3>2. Minus(Plus(p, x), p) = x
      BY <2>2, MinusPlus
    <3> QED BY <3>1, <3>2
  <2>7. Near(x, x, Zero) /\ Near(p, p, Zero) /\ IsFraction(Zero)
    BY <2>2, NearFacts, ZeroAmount DEF IsAmount
  <2>8. Near(Plus(x, p), Plus(x, q), t[d])
    <3>1. Near(Plus(x, p), Plus(x, q), Plus(Zero, t[d]))
      BY <2>2, <2>7, NearPlus
    <3> QED BY <3>1, <2>2, PlusZero
  <2>9. Near(Minus(Plus(x, p), p), Minus(Plus(x, q), p), t[d])
    <3>1. Near(Minus(Plus(x, p), p), Minus(Plus(x, q), p), Plus(t[d], Zero))
      BY <2>2, <2>4, <2>7, <2>8, NearPlus
    <3> QED BY <3>1, <2>2, PlusZero
  <2> HIDE DEF h
  <2> QED BY <2>1, <2>3, <2>4, <2>5, <2>6, <2>9, <1>9
<1>12. AreFractions(h, 1 .. n) /\ AreFractions(t, 1 .. n)
  <2>1. \A d \in 1 .. n : IsFraction(h[d]) /\ IsFraction(t[d])
    BY <1>8, <1>11 DEF IsAmount
  <2> HIDE DEF h
  <2> QED BY <2>1 DEF AreFractions
<1> HIDE DEF h
<1>13. SumOver(h, 1 .. n) = Plus(SumOver(g, 1 .. n), passed[n])
  BY <1>1, <1>6, <1>7, <1>10, <1>11, <1>12, Telescopes
<1>14. IsFiniteSet(1 .. n)
  BY <1>1, FS_Interval, 1 \in Int, n \in Int
<1>15. Near(SumOver(f, 1 .. n), SumOver(h, 1 .. n), SumOver(t, 1 .. n))
  BY <1>6, <1>11, <1>12, <1>14, NearSums
<1> QED BY <1>1, <1>10, <1>13, <1>15 DEF f, g, t
\* The constants are a chain.
LEMMA ChainIs == IsChain
<1>1. Len(Unified) \in Nat /\ Len(Unified) > 0 /\ \A d \in Depts : Unified[d] \in BOOLEAN
  <2>1. Unified \in Seq(BOOLEAN) /\ Unified # << >>
    BY ProcessChainAssumption
  <2>2. Len(Unified) \in Nat /\ Len(Unified) > 0 /\ \A d \in 1 .. Len(Unified) : Unified[d] \in BOOLEAN
    BY <2>1
  <2> QED BY <2>2 DEF Depts
<1>2. Grid \in Nat /\ Grid > 0
  BY ProcessChainAssumption
<1> QED BY <1>1, <1>2, ProcessChainAssumption DEF IsChain

-----------------------------------------------------------------------------
\* What is carried is an amount of units and four of money, none of a department before the first.
IsCarried(d, c) ==
  /\ IsAmount(c.ei) /\ IsAmount(c.iMp) /\ IsAmount(c.iMo) /\ IsAmount(c.iCif)
  /\ IsAmount(c.iPrev) /\ (d = 1 => c.iPrev = Zero)
IsCarry(carry) == \A d \in Depts : IsCarried(d, carry[d])

\* What is carried into the next month is what was in process: its units and its money.
LEMMA CarriedFacts ==
  ASSUME IsChain, NEW rows, IsRows(rows), Calculates(rows), NEW d \in Depts
  PROVE  LET r == Run(rows)[d]
             c == Carried(d, rows[d], r)
         IN /\ IsCarried(d, c)
            /\ c.ei = r.schedule.ef
            /\ Plus(Plus(c.iMp, Plus(c.iMo, c.iCif)), c.iPrev) = r.ef
<1> DEFINE u == rows[d]
           r == Run(rows)[d]
           c == Carried(d, u, r)
           mo == Plus(u.iMo, u.cMo)
           rest == Plus(u.iCif, u.cCif)
           base == Plus(mo, rest)
           part == IF IsPositive(base) THEN Over(mo, base) ELSE One
<1>1. IsDone(rows, d)
  BY AllDone
<1>2. /\ IsAmount(r.schedule.ef) /\ IsAmount(r.efPrevious) /\ (d = 1 => r.efPrevious = Zero)
      /\ r.ef = Plus(SumOver(r.efs, Elements(d)), r.efPrevious)
      /\ AreFractions(r.efs, Elements(d)) /\ \A e \in Elements(d) : IsAmount(r.efs[e])
  BY <1>1 DEF IsDone, IsSchedule
<1>3. /\ c.ei = r.schedule.ef /\ c.iMp = r.efs["MP"]
      /\ c.iMo = IF Unified[d] THEN Times(r.efs["CC"], part) ELSE r.efs["MOD"]
      /\ c.iCif = IF Unified[d] THEN Minus(r.efs["CC"], Times(r.efs["CC"], part)) ELSE r.efs["CIP"]
      /\ c.iPrev = IF d = 1 THEN Zero ELSE r.efPrevious
  BY DEF Carried
<1>4. c.iPrev = r.efPrevious
  BY <1>2, <1>3
<1>5. IsAmount(mo) /\ IsAmount(rest)
  BY AmountOps DEF IsRows, IsRow, IsMoney
<1> HIDE DEF c, r, mo, rest
<1>6. CASE Unified[d]
  <2>1. IsAmount(r.efs["MP"]) /\ IsAmount(r.efs["CC"])
    BY <1>2, <1>6 DEF Elements
  <2>2. PICK k : k = r.efs["CC"]
    OBVIOUS
  <2>3. IsAmount(Times(k, part)) /\ IsAmount(Minus(k, Times(k, part)))
    <3>1. CASE IsPositive(base)
      BY <2>1, <2>2, <3>1, <1>5, PartOfAmount
    <3>2. CASE ~IsPositive(base)
      <4>1. Times(k, part) = k /\ IsAmount(k)
        BY <2>1, <2>2, <3>2, TimesLaws DEF IsAmount
      <4>2. Plus(k, Zero) = k /\ Minus(Plus(k, Zero), k) = Zero
        BY <4>1, ZeroAmount, PlusZero, MinusPlus DEF IsAmount
      <4> QED BY <4>1, <4>2, ZeroAmount
    <3> QED BY <3>1, <3>2
  <2>4. c.iMo = Times(k, part) /\ c.iCif = Minus(k, Times(k, part))
    BY <2>2, <1>3, <1>6
  <2> HIDE DEF part
  <2>5. Plus(c.iMo, c.iCif) = k
    BY <2>1, <2>2, <2>3, <2>4, MinusPlus DEF IsAmount
  <2>6. SumOver(r.efs, Elements(d)) = Plus(r.efs["MP"], r.efs["CC"])
    BY <1>2, <1>6, ElementsSum
  <2> QED BY <2>1, <2>2, <2>3, <2>4, <2>5, <2>6, <1>2, <1>3, <1>4 DEF c, r, IsCarried
<1>7. CASE ~Unified[d]
  <2>1. IsAmount(r.efs["MP"]) /\ IsAmount(r.efs["MOD"]) /\ IsAmount(r.efs["CIP"])
    BY <1>2, <1>7 DEF Elements
  <2>2. SumOver(r.efs, Elements(d)) = Plus(r.efs["MP"], Plus(r.efs["MOD"], r.efs["CIP"]))
    BY <1>2, <1>7, ElementsSum
  <2>3. c.iMp = r.efs["MP"] /\ c.iMo = r.efs["MOD"] /\ c.iCif = r.efs["CIP"]
    BY <1>3, <1>7
  <2> QED BY <2>1, <2>2, <2>3, <1>2, <1>3, <1>4 DEF c, r, IsCarried
<1> QED BY <1>6, <1>7

\* So is what a whole month carries.
LEMMA CarryIs ==
  ASSUME IsChain, NEW rows, IsRows(rows), Calculates(rows)
  PROVE  /\ IsCarry(CarryOf(rows))
         /\ \A d \in Depts : CarryOf(rows)[d] = Carried(d, rows[d], Run(rows)[d])
<1>1. \A d \in Depts : CarryOf(rows)[d] = Carried(d, rows[d], Run(rows)[d])
  BY DEF CarryOf
<1>2. ASSUME NEW d \in Depts PROVE IsCarried(d, CarryOf(rows)[d])
  BY <1>1, CarriedFacts
<1> QED BY <1>1, <1>2 DEF IsCarry

-----------------------------------------------------------------------------
\* A number in its column: near what it was, and there as it is.
Half == Fraction(1, 2 * Grid)
LEMMA ColumnFacts ==
  ASSUME IsChain, NEW x
  PROVE  /\ IsOptional(x) => IsOptional(Column(x)) /\ Column(Column(x)) = Column(x)
         /\ IsAmount(x) => IsAmount(Column(x)) /\ Near(x, Column(x), Half) /\ IsAmount(Half)
         /\ Column(Zero) = Zero /\ Column(NoData) = NoData
<1>1. PICK g \in Nat : g = Grid /\ g > 0
  BY DEF IsChain
<1>2. ASSUME NEW y, IsAmount(y)
      PROVE  /\ IsAmount(Stored(y, g)) /\ Near(y, Stored(y, g), Fraction(1, 2 * g))
             /\ IsAmount(Fraction(1, 2 * g)) /\ Stored(Stored(y, g), g) = Stored(y, g)
             /\ ~IsPositive(y) => ~IsPositive(Stored(y, g))
  <2>1. PICK z : z = Nearest(y, g, "up")
    OBVIOUS
  <2>2. IsFraction(y)
    BY <1>2 DEF IsAmount
  <2>3. RoundsTo(y, z, g)
    BY <2>1, <2>2, <1>1, NearestFacts
  <2>4. IsAmount(z) /\ (~IsPositive(y) => ~IsPositive(z))
    BY <1>1, <1>2, <2>2, <2>3, NearestOrder
  <2>5. Near(y, z, Fraction(1, 2 * g)) /\ IsAmount(Fraction(1, 2 * g)) /\ Nearest(z, g, "up") = z
    BY <1>1, <2>1, <2>2, NearestIsNear
  <2> QED BY <2>1, <2>4, <2>5 DEF Stored
<1>3. \A y : IsAmount(y) => Given(y) /\ Column(y) = Stored(y, g)
  BY <1>1, AmountGiven DEF Column, IsAmount
<1>4. ASSUME IsAmount(x)
      PROVE  /\ IsAmount(Column(x)) /\ Near(x, Column(x), Half) /\ IsAmount(Half)
             /\ Column(Column(x)) = Column(x)
  BY <1>1, <1>2, <1>3, <1>4 DEF Half
<1>5. Column(NoData) = NoData
  BY DEF Column, Given
<1>6. Column(Zero) = Zero
  <2>1. IsAmount(Zero) /\ ~IsPositive(Zero)
    BY ZeroAmount DEF IsPositive, Zero, Whole
  <2>2. IsAmount(Column(Zero)) /\ ~IsPositive(Column(Zero))
    BY <2>1, <1>2, <1>3
  <2> QED BY <2>2, AmountIsPositive
<1> QED BY <1>4, <1>5, <1>6 DEF IsOptional

\* A row that nobody wrote to.
LEMMA BlankRow ==
  ASSUME IsChain, NEW d
  PROVE  IsRow(d, Blank)
<1>1. DOMAIN Blank = RowFields /\ Blank.exists = TRUE
  BY DEF Blank, RowFields
<1>2. IsUnits(Blank)
  BY ZeroAmount DEF Blank, IsUnits, IsOptional
<1>3. IsMoney(Blank)
  BY ZeroAmount DEF Blank, IsMoney
<1>4. Blank.out = NoData /\ Blank.ef = NoData /\ Blank.iPrev = Zero /\ Blank.ei = Zero
  BY DEF Blank
<1>5. Column(Blank.ei) = Blank.ei /\ Column(Blank.ef) = Blank.ef
  BY <1>4, ColumnFacts
<1> QED BY <1>1, <1>2, <1>3, <1>4, <1>5 DEF IsRow

\* Amounts that open a month.
SameOpening(t, u) ==
  t.ei = u.ei /\ t.iMp = u.iMp /\ t.iMo = u.iMo /\ t.iCif = u.iCif /\ t.iPrev = u.iPrev

\* A form that sends nothing of what opens the month.
Keeps(form, row) ==
  form.ei = row.ei /\ form.iMp = NoData /\ form.iMo = NoData /\ form.iCif = NoData

\* An amount that is sent, or the one that stays.
LEMMA SentFacts ==
  ASSUME IsChain, NEW x, NEW kept, IsOptional(x), IsAmount(kept)
  PROVE  IsAmount(Sent(x, kept)) /\ (x = NoData => Sent(x, kept) = kept)
<1>1. CASE x = NoData
  BY <1>1 DEF Sent, Given
<1>2. CASE x # NoData
  <2>1. IsAmount(x) /\ Given(x)
    BY <1>2 DEF IsOptional, Given
  <2>2. Sent(x, kept) = Column(x)
    BY <2>1 DEF Sent, Column
  <2> QED BY <2>1, <2>2, <1>2, ColumnFacts
<1> QED BY <1>1, <1>2

\* What save writes is a row, and opens the month as it was if it sends none of that.
LEMMA SavedFacts ==
  ASSUME IsChain, NEW d \in Depts, NEW full, IsForm(full), IsAmount(full.ei), NEW row, IsRow(d, row),
         ~ImpossibleSchedule(d, full)
  PROVE  /\ IsRow(d, SavedRow(d, full, row))
         /\ Keeps(full, row) => SameOpening(SavedRow(d, full, row), row)
<1> DEFINE s == Schedule(d, full)
           t == SavedRow(d, full, row)
<1>1. DOMAIN full = FormFields /\ \A f \in FormFields : IsOptional(full[f])
  BY DEF IsForm
<1>3. IsUnits(row) /\ IsMoney(row) /\ (d = 1 => row.iPrev = Zero) /\ DOMAIN row = RowFields
      /\ row.exists = TRUE /\ Column(row.ei) = row.ei
  BY DEF IsRow
<1>4. Default(full.ei, Zero) = full.ei
  BY AmountGiven DEF IsAmount, Default
<1>5. /\ IsOptional(full.started) /\ IsOptional(full.received) /\ IsOptional(full.increase)
      /\ IsOptional(full.out) /\ IsOptional(full.stock) /\ IsOptional(full.lossPct)
      /\ IsOptional(full.totalLoss) /\ IsOptional(full.ef)
  BY <1>1 DEF FormFields
<1>6. /\ IsOptional(full.avMp) /\ IsOptional(full.avConv) /\ IsOptional(full.cMp)
      /\ IsOptional(full.cMo) /\ IsOptional(full.cCif)
  BY <1>1 DEF FormFields
<1>7. IsOptional(full.iMp) /\ IsOptional(full.iMo) /\ IsOptional(full.iCif)
  BY <1>1 DEF FormFields
<1> HIDE <1>1
<1>8. IsAmount(Default(full.stock, Zero))
  BY <1>5, DefaultFacts, ZeroAmount
<1>9. /\ IsAmount(s.ei) /\ IsAmount(s.period) /\ IsAmount(s.received) /\ IsAmount(s.increase)
      /\ IsAmount(s.out) /\ IsAmount(s.stock) /\ IsAmount(s.normal) /\ IsAmount(s.ef)
      /\ s.ei = full.ei
  <2>1. /\ IsAmount(s.ei) /\ IsAmount(s.period) /\ IsAmount(s.received) /\ IsAmount(s.increase)
        /\ IsAmount(s.out) /\ IsAmount(s.stock) /\ IsAmount(s.normal) /\ IsAmount(s.ef)
    <3> HIDE DEF s
    <3> QED BY <1>4, <1>5, <1>8, ScheduleFacts DEF s
  <2> QED BY <2>1, <1>4 DEF Schedule
<1>10. DOMAIN t = RowFields /\ t.exists = row.exists
  BY <1>3 DEF SavedRow, RowFields
<1>11. t.ei = Column(s.ei) /\ t.started = (IF d = 1 THEN Column(s.period) ELSE Zero)
       /\ t.received = Column(s.received) /\ t.increase = Column(s.increase)
       /\ t.out = Column(s.out) /\ t.stock = Column(s.stock)
  BY <1>3 DEF SavedRow, RowFields
<1>12. t.lossPct = Column(full.lossPct) /\ t.normal = Column(s.normal)
       /\ t.totalLoss = Column(full.totalLoss) /\ t.ef = Column(s.ef)
       /\ t.avMp = Column(full.avMp) /\ t.avConv = Column(full.avConv)
  BY <1>3 DEF SavedRow, RowFields
<1>13. t.cMp = Sent(full.cMp, row.cMp) /\ t.cMo = Sent(full.cMo, row.cMo)
       /\ t.cCif = Sent(full.cCif, row.cCif)
  BY <1>3 DEF SavedRow, RowFields
<1>14. t.iMp = Sent(full.iMp, row.iMp) /\ t.iMo = Sent(full.iMo, row.iMo)
       /\ t.iCif = Sent(full.iCif, row.iCif) /\ t.iPrev = row.iPrev
  BY <1>3 DEF SavedRow, RowFields
<1> HIDE DEF t, s
<1>15. IsUnits(t)
  <2>1. IsAmount(t.ei) /\ IsAmount(t.stock) /\ IsAmount(t.normal) /\ IsAmount(t.started)
        /\ IsAmount(t.received) /\ IsAmount(t.increase) /\ IsAmount(t.out) /\ IsAmount(t.ef)
    BY <1>9, <1>11, <1>12, ZeroAmount, ColumnFacts
  <2>2. IsOptional(t.lossPct) /\ IsOptional(t.totalLoss) /\ IsOptional(t.avMp) /\ IsOptional(t.avConv)
    BY <1>5, <1>6, <1>12, ColumnFacts
  <2> QED BY <2>1, <2>2 DEF IsUnits, IsOptional
<1>16. IsMoney(t)
  <2>1. IsAmount(t.cMp) /\ IsAmount(t.cMo) /\ IsAmount(t.cCif)
    BY <1>3, <1>6, <1>13, SentFacts DEF IsMoney
  <2>2. IsAmount(t.iMp) /\ IsAmount(t.iMo) /\ IsAmount(t.iCif) /\ IsAmount(t.iPrev)
    BY <1>3, <1>7, <1>14, SentFacts DEF IsMoney
  <2> QED BY <2>1, <2>2 DEF IsMoney
<1>17. Given(t.out) /\ Given(t.ef)
  <2>1. IsAmount(t.out) /\ IsAmount(t.ef)
    BY <1>9, <1>11, <1>12, ColumnFacts
  <2> QED BY <2>1, AmountGiven DEF IsAmount
<1>18. Column(t.ei) = t.ei /\ Column(t.ef) = t.ef
  BY <1>9, <1>11, <1>12, ColumnFacts DEF IsOptional
<1>19. IsRow(d, t)
  BY <1>3, <1>10, <1>14, <1>15, <1>16, <1>17, <1>18 DEF IsRow
<1>20. ASSUME Keeps(full, row) PROVE SameOpening(t, row)
  <2>1. full.ei = row.ei /\ full.iMp = NoData /\ full.iMo = NoData /\ full.iCif = NoData
    BY <1>20 DEF Keeps
  <2>2. t.ei = row.ei
    BY <2>1, <1>3, <1>9, <1>11
  <2>3. t.iMp = row.iMp /\ t.iMo = row.iMo /\ t.iCif = row.iCif
    BY <2>1, <1>3, <1>7, <1>14, SentFacts DEF IsMoney
  <2> QED BY <2>2, <2>3, <1>14 DEF SameOpening
<1> QED BY <1>19, <1>20 DEF t

\* What is carried, in the columns that receive it.
Landed(c) == [ei |-> Column(c.ei), iMp |-> Column(c.iMp), iMo |-> Column(c.iMo),
              iCif |-> Column(c.iCif), iPrev |-> Column(c.iPrev)]

\* A month that opens with what the one before left.
LEMMA ReceivesFacts ==
  ASSUME IsChain, NEW d, NEW row, IsRow(d, row), NEW c, IsCarried(d, c)
  PROVE  IsRow(d, Receives(row, c)) /\ SameOpening(Receives(row, c), Landed(c))
<1> DEFINE t == Receives(row, c)
           l == Landed(c)
<1>1. DOMAIN row = RowFields
  BY DEF IsRow
<1>2. DOMAIN t = RowFields /\ t.exists = row.exists
  BY <1>1 DEF Receives, RowFields
<1>3. SameOpening(t, l)
  BY <1>1 DEF Receives, RowFields, SameOpening, Landed
<1>4. \A f \in RowFields \ {"ei", "iMp", "iMo", "iCif", "iPrev"} : t[f] = row[f]
  BY <1>1 DEF Receives, RowFields
<1>5. t.stock = row.stock /\ t.normal = row.normal /\ t.started = row.started
      /\ t.received = row.received /\ t.increase = row.increase /\ t.out = row.out
      /\ t.lossPct = row.lossPct /\ t.totalLoss = row.totalLoss /\ t.ef = row.ef
  BY <1>4 DEF RowFields
<1>6. t.avMp = row.avMp /\ t.avConv = row.avConv /\ t.cMp = row.cMp /\ t.cMo = row.cMo
      /\ t.cCif = row.cCif
  BY <1>4 DEF RowFields
<1>7. /\ IsAmount(l.ei) /\ IsAmount(l.iMp) /\ IsAmount(l.iMo) /\ IsAmount(l.iCif) /\ IsAmount(l.iPrev)
      /\ Column(l.ei) = l.ei /\ (d = 1 => l.iPrev = Zero)
  <2>1. /\ IsAmount(c.ei) /\ IsAmount(c.iMp) /\ IsAmount(c.iMo) /\ IsAmount(c.iCif)
        /\ IsAmount(c.iPrev) /\ (d = 1 => c.iPrev = Zero)
    BY DEF IsCarried
  <2>2. /\ l.ei = Column(c.ei) /\ l.iMp = Column(c.iMp) /\ l.iMo = Column(c.iMo)
        /\ l.iCif = Column(c.iCif) /\ l.iPrev = Column(c.iPrev)
    BY DEF Landed
  <2> HIDE DEF l
  <2> QED BY <2>1, <2>2, ColumnFacts DEF IsOptional
<1> HIDE DEF t, l
<1>8. IsUnits(t)
  BY <1>3, <1>5, <1>6, <1>7 DEF IsUnits, IsRow, SameOpening
<1>9. IsMoney(t)
  BY <1>3, <1>6, <1>7 DEF IsMoney, IsRow, SameOpening
<1>10. (Given(t.out) <=> Given(t.ef)) /\ t.exists = TRUE /\ (d = 1 => t.iPrev = Zero)
       /\ Column(t.ei) = t.ei /\ Column(t.ef) = t.ef
  BY <1>2, <1>3, <1>5, <1>7 DEF IsRow, SameOpening
<1>11. IsRow(d, t)
  BY <1>2, <1>8, <1>9, <1>10 DEF IsRow
<1> QED BY <1>3, <1>11 DEF t, l

\* The sheets of a month: of each department there is a row or none.
IsMonth(rows) == DOMAIN rows = Depts /\ \A d \in Depts : rows[d] = NoSheet \/ IsRow(d, rows[d])
AreMonths(s)  == DOMAIN s = Months /\ \A m \in Months : IsMonth(s[m])
RowOf(s, m, d) == IF s[m][d].exists THEN s[m][d] ELSE Blank

\* The sheets of a month that has a report; what they carry; and those of the next month that
\* open with it.
Reports(rows) == (\A d \in Depts : rows[d].exists) /\ Calculates(rows)
Carries(s, m, carry) == Reports(s[m]) /\ carry = CarryOf(s[m])
OpensFrom(rows, row, d) == IsRow(d, row) /\ SameOpening(row, Landed(CarryOf(rows)[d]))
OpensWith(rows, next) == \A d \in Depts : OpensFrom(rows, next[d], d)
IsSettled(m, s, o) ==
  m < o /\ m + 1 \in Months /\ Reports(s[m]) /\ OpensWith(s[m], s[m + 1])

\* What a request holds, where s are the sheets and o the last open month: while it is not
\* stale, a save what its sheet opens with, an opening and a propagation what the month they
\* carry leaves; and the departments that a propagation has gone through open with it.
Span(q, o) == q.m \in Months /\ q.upto \in Months /\ q.m < q.upto /\ q.upto <= o
SaveHeld(q, s, o) ==
  /\ DOMAIN q = {"at", "m", "d", "form", "stale"} /\ q.at = "save"
  /\ q.m \in Months /\ q.m <= o /\ q.d \in Depts /\ q.stale \in BOOLEAN
  /\ IsForm(q.form) /\ IsAmount(q.form.ei) /\ ~ImpossibleSchedule(q.d, q.form)
  /\ ~q.stale => Keeps(q.form, RowOf(s, q.m, q.d))
OpenHeld(q, s, o) ==
  /\ DOMAIN q = {"at", "m", "stale", "carry"} /\ q.at = "open"
  /\ q.m \in Months /\ q.m <= o /\ q.m + 1 \in Months /\ q.stale \in BOOLEAN
  /\ q.carry # << >> => IsCarry(q.carry) /\ (~q.stale => Carries(s, q.m, q.carry))
WalkHeld(q, s, o) ==
  DOMAIN q = {"at", "m", "upto"} /\ q.at = "walk" /\ Span(q, o)
WriteHeld(q, s, o) ==
  /\ DOMAIN q = {"at", "m", "upto", "d", "carry", "stale"} /\ q.at = "write" /\ Span(q, o)
  /\ q.d \in Depts /\ q.stale \in BOOLEAN /\ IsCarry(q.carry)
  /\ ~q.stale => /\ Carries(s, q.m, q.carry)
                 /\ \A e \in Depts : e < q.d => OpensFrom(s[q.m], s[q.m + 1][e], e)
Held(q, s, o) ==
  q = Idle \/ SaveHeld(q, s, o) \/ OpenHeld(q, s, o) \/ WalkHeld(q, s, o) \/ WriteHeld(q, s, o)

\* The sheets that are stored are sheets as the program writes them; the requests in flight
\* hold what they read; and where nothing was touched since, the month has its report and the
\* next one opens with it.
OpenedInv  == opened \in Nat /\ opened >= 1 /\ (opened = 1 \/ opened \in Months)
ReqInv     == DOMAIN req = Writers /\ \A r \in Writers : Held(req[r], sheet, opened)
SettledInv == DOMAIN settled = Months /\ \A m \in Months : settled[m] => IsSettled(m, sheet, opened)
ChainInv   == OpenedInv /\ AreMonths(sheet) /\ ReqInv /\ SettledInv

\* The sheets of a month that has a report are all there.
LEMMA ReportRows ==
  ASSUME NEW rows, IsMonth(rows), Reports(rows)
  PROVE  IsRows(rows) /\ Calculates(rows)
<1>1. ASSUME NEW d \in Depts PROVE IsRow(d, rows[d])
  <2>1. rows[d] = NoSheet \/ IsRow(d, rows[d])
    BY DEF IsMonth
  <2>2. NoSheet.exists = FALSE
    BY DEF NoSheet
  <2>3. rows[d].exists
    BY DEF Reports
  <2> QED BY <2>1, <2>2, <2>3
<1> QED BY <1>1 DEF IsRows, IsMonth, Reports

\* The row that is there, or the one that will be.
LEMMA RowFacts ==
  ASSUME NEW s, AreMonths(s), NEW m \in Months, NEW d \in Depts
  PROVE  IsRow(d, RowOf(s, m, d)) /\ (IsRow(d, s[m][d]) => RowOf(s, m, d) = s[m][d])
<1>1. s[m][d] = NoSheet \/ IsRow(d, s[m][d])
  BY DEF AreMonths, IsMonth
<1>2. NoSheet.exists = FALSE
  BY DEF NoSheet
<1>3. IsRow(d, Blank)
  BY BlankRow, ChainIs
<1>4. IsRow(d, s[m][d]) => s[m][d].exists = TRUE
  BY DEF IsRow
<1> QED BY <1>1, <1>2, <1>3, <1>4 DEF RowOf

-----------------------------------------------------------------------------
\* What a stale request holds does not depend on the sheets.
LEMMA HeldStale ==
  ASSUME NEW q, NEW s, NEW o, Held(q, s, o), q.at \in {"save", "open", "write"}, NEW s2
  PROVE  Held([q EXCEPT !.stale = TRUE], s2, o)
<1> DEFINE p == [q EXCEPT !.stale = TRUE]
<1>1. CASE SaveHeld(q, s, o)
  <2>1. p.at = q.at /\ p.m = q.m /\ p.d = q.d /\ p.form = q.form /\ p.stale = TRUE
        /\ DOMAIN p = DOMAIN q
    BY <1>1 DEF SaveHeld
  <2> HIDE DEF p
  <2>2. SaveHeld(p, s2, o)
    BY <1>1, <2>1 DEF SaveHeld
  <2> QED BY <2>2 DEF Held, p
<1>2. CASE OpenHeld(q, s, o)
  <2>1. p.at = q.at /\ p.m = q.m /\ p.carry = q.carry /\ p.stale = TRUE /\ DOMAIN p = DOMAIN q
    BY <1>2 DEF OpenHeld
  <2> HIDE DEF p
  <2>2. OpenHeld(p, s2, o)
    BY <1>2, <2>1 DEF OpenHeld
  <2> QED BY <2>2 DEF Held, p
<1>3. CASE WriteHeld(q, s, o)
  <2>1. p.at = q.at /\ p.m = q.m /\ p.upto = q.upto /\ p.d = q.d /\ p.carry = q.carry
        /\ p.stale = TRUE /\ DOMAIN p = DOMAIN q
    BY <1>3 DEF WriteHeld
  <2> HIDE DEF p
  <2>2. WriteHeld(p, s2, o)
    BY <1>3, <2>1 DEF WriteHeld, Span
  <2> QED BY <2>2 DEF Held, p
<1>4. CASE q = Idle \/ WalkHeld(q, s, o)
  <2>1. q.at = "idle" \/ q.at = "walk"
    BY <1>4 DEF Idle, WalkHeld
  <2> QED BY <2>1
<1> HIDE DEF p
<1> QED BY <1>1, <1>2, <1>3, <1>4 DEF Held, p

\* A month that opens leaves what the requests hold of the others.
LEMMA HeldLonger ==
  ASSUME NEW q, NEW s, NEW o \in Nat, Held(q, s, o), NEW s2,
         \A m \in Months : m <= o => s2[m] = s[m]
  PROVE  Held(q, s2, o + 1)
<1>1. \A m \in Months : m \in Int
  BY DEF Months
<1>2. CASE SaveHeld(q, s, o)
  <2>1. q.m \in Int /\ q.m <= o + 1 /\ s2[q.m] = s[q.m]
    BY <1>1, <1>2 DEF SaveHeld
  <2>2. SaveHeld(q, s2, o + 1)
    BY <1>2, <2>1 DEF SaveHeld, RowOf
  <2> QED BY <2>2 DEF Held
<1>3. CASE OpenHeld(q, s, o)
  <2>1. q.m \in Int /\ q.m <= o + 1 /\ s2[q.m] = s[q.m]
    BY <1>1, <1>3 DEF OpenHeld
  <2>2. OpenHeld(q, s2, o + 1)
    BY <1>3, <2>1 DEF OpenHeld, Carries
  <2> QED BY <2>2 DEF Held
<1>4. ASSUME Span(q, o)
      PROVE  /\ Span(q, o + 1) /\ s2[q.m] = s[q.m] /\ s2[q.m + 1] = s[q.m + 1]
  <2>1. q.m \in Int /\ q.upto \in Int /\ q.m + 1 <= q.upto /\ q.upto <= o
    BY <1>1, <1>4 DEF Span
  <2>2. q.m + 1 \in Months
    BY <1>4, <2>1, ProcessChainAssumption DEF Span, Months
  <2>3. q.m <= o /\ q.m + 1 <= o /\ q.upto <= o + 1
    BY <2>1
  <2> QED BY <1>4, <2>2, <2>3 DEF Span
<1>5. CASE WalkHeld(q, s, o)
  <2>1. WalkHeld(q, s2, o + 1)
    BY <1>4, <1>5 DEF WalkHeld
  <2> QED BY <2>1 DEF Held
<1>6. CASE WriteHeld(q, s, o)
  <2>1. WriteHeld(q, s2, o + 1)
    BY <1>4, <1>6 DEF WriteHeld, Carries
  <2> QED BY <2>1 DEF Held
<1> QED BY <1>2, <1>3, <1>5, <1>6 DEF Held

\* The sheets after a row is written.
RowWritten(s, s2, m, d, t) == s2 = [s EXCEPT ![m][d] = t]
LEMMA WrittenFacts ==
  ASSUME NEW s, AreMonths(s), NEW m \in Months, NEW d \in Depts, NEW t, IsRow(d, t), NEW s2,
         RowWritten(s, s2, m, d, t)
  PROVE  /\ AreMonths(s2) /\ s2[m][d] = t /\ RowOf(s2, m, d) = t
         /\ \A n \in Months : n # m => s2[n] = s[n]
         /\ \A e \in Depts : e # d => s2[m][e] = s[m][e]
<1>1. /\ DOMAIN s2 = Months /\ DOMAIN s2[m] = Depts /\ s2[m][d] = t
      /\ \A n \in Months : n # m => s2[n] = s[n]
      /\ \A e \in Depts : e # d => s2[m][e] = s[m][e]
  BY DEF AreMonths, IsMonth, RowWritten
<1>2. RowOf(s2, m, d) = t
  BY <1>1 DEF RowOf, IsRow
<1>3. ASSUME NEW n \in Months PROVE IsMonth(s2[n])
  <2>1. IsMonth(s[n])
    BY DEF AreMonths
  <2>2. CASE n # m
    BY <2>1, <2>2, <1>1
  <2>3. CASE n = m
    BY <2>1, <2>3, <1>1 DEF IsMonth
  <2> QED BY <2>2, <2>3
<1> QED BY <1>1, <1>2, <1>3 DEF AreMonths

\* A row that opens its month as it did, where its writer is not stale: then a month that was
\* settled is so still, but for the one that is written and the one that a stale row opens.
OpensStill(s, m, d, t, late) ==
  \A n \in Months : n + 1 = m /\ ~late /\ OpensFrom(s[n], s[m][d], d) => OpensFrom(s[n], t, d)
LEMMA SettledStill ==
  ASSUME NEW s, AreMonths(s), NEW m \in Months, NEW d \in Depts, NEW t, IsRow(d, t), NEW s2,
         RowWritten(s, s2, m, d, t), NEW late, OpensStill(s, m, d, t, late),
         NEW o, NEW n \in Months, IsSettled(n, s, o), n # m, ~(n + 1 = m /\ late)
  PROVE  IsSettled(n, s2, o)
<1>1. /\ s2[m][d] = t /\ s2[n] = s[n] /\ n + 1 \in Months
      /\ n + 1 # m => s2[n + 1] = s[n + 1]
      /\ \A e \in Depts : e # d => s2[m][e] = s[m][e]
  BY WrittenFacts DEF IsSettled
<1>2. ASSUME NEW e \in Depts PROVE OpensFrom(s[n], s2[n + 1][e], e)
  <2>1. OpensFrom(s[n], s[n + 1][e], e)
    BY DEF IsSettled, OpensWith
  <2>2. CASE n + 1 # m \/ e # d
    BY <2>1, <2>2, <1>1
  <2>3. CASE n + 1 = m /\ e = d
    BY <2>1, <2>3, <1>1 DEF OpensStill
  <2> QED BY <2>2, <2>3
<1> QED BY <1>1, <1>2 DEF IsSettled, OpensWith

\* And what a request holds that the write does not make stale.
LEMMA HeldStill ==
  ASSUME NEW s, AreMonths(s), NEW m \in Months, NEW d \in Depts, NEW t, IsRow(d, t), NEW s2,
         RowWritten(s, s2, m, d, t), NEW late, OpensStill(s, m, d, t, late),
         NEW o \in Nat, NEW q, Held(q, s, o),
         q.at = "save" /\ q.m = m /\ q.d = d => t.ei = RowOf(s, m, d).ei,
         ~(q.at \in {"open", "write"} /\ q.m = m), ~(q.at = "write" /\ q.m + 1 = m /\ late)
  PROVE  Held(q, s2, o)
<1>1. /\ s2[m][d] = t /\ RowOf(s2, m, d) = t
      /\ \A n \in Months : n # m => s2[n] = s[n]
      /\ \A e \in Depts : e # d => s2[m][e] = s[m][e]
  BY WrittenFacts
<1>2. CASE SaveHeld(q, s, o)
  <2>1. ASSUME ~q.stale PROVE Keeps(q.form, RowOf(s2, q.m, q.d))
    <3>1. Keeps(q.form, RowOf(s, q.m, q.d)) /\ q.at = "save" /\ q.m \in Months /\ q.d \in Depts
      BY <1>2, <2>1 DEF SaveHeld
    <3>2. CASE q.m = m /\ q.d = d
      BY <3>1, <3>2, <1>1 DEF Keeps
    <3>3. CASE q.m # m \/ q.d # d
      <4>1. s2[q.m][q.d] = s[q.m][q.d]
        BY <3>1, <3>3, <1>1
      <4> QED BY <3>1, <4>1 DEF RowOf
    <3> QED BY <3>2, <3>3
  <2>2. SaveHeld(q, s2, o)
    BY <1>2, <2>1 DEF SaveHeld
  <2> QED BY <2>2 DEF Held
<1>3. CASE OpenHeld(q, s, o)
  <2>1. s2[q.m] = s[q.m]
    BY <1>1, <1>3 DEF OpenHeld
  <2>2. OpenHeld(q, s2, o)
    BY <1>3, <2>1 DEF OpenHeld, Carries
  <2> QED BY <2>2 DEF Held
<1>4. CASE WalkHeld(q, s, o)
  <2>1. WalkHeld(q, s2, o)
    BY <1>4 DEF WalkHeld
  <2> QED BY <2>1 DEF Held
<1>5. CASE WriteHeld(q, s, o)
  <2>1. s2[q.m] = s[q.m] /\ q.m + 1 \in Months /\ q.m \in Months /\ ~(q.m + 1 = m /\ late)
    <3>1. q.m \in Months /\ q.upto \in Months /\ q.m < q.upto /\ q.at = "write"
      BY <1>5 DEF WriteHeld, Span
    <3>2. q.m + 1 \in Months
      BY <3>1, ProcessChainAssumption DEF Months
    <3> QED BY <3>1, <3>2, <1>1
  <2>2. ASSUME ~q.stale, NEW e \in Depts, e < q.d PROVE OpensFrom(s[q.m], s2[q.m + 1][e], e)
    <3>1. OpensFrom(s[q.m], s[q.m + 1][e], e)
      BY <2>2, <1>5 DEF WriteHeld
    <3>2. CASE q.m + 1 # m \/ e # d
      BY <3>1, <3>2, <2>1, <1>1
    <3>3. CASE q.m + 1 = m /\ e = d
      BY <3>1, <3>3, <2>1, <1>1 DEF OpensStill
    <3> QED BY <3>2, <3>3
  <2>3. WriteHeld(q, s2, o)
    BY <1>5, <2>1, <2>2 DEF WriteHeld, Carries
  <2> QED BY <2>3 DEF Held
<1>6. CASE q = Idle
  BY <1>6 DEF Held
<1> QED BY <1>2, <1>3, <1>4, <1>5, <1>6 DEF Held

-----------------------------------------------------------------------------
\* It holds where nothing is written yet.
LEMMA ChainInitInv == ProcessChainInit => ChainInv
<1> SUFFICES ASSUME ProcessChainInit PROVE ChainInv
  OBVIOUS
<1>1. OpenedInv
  BY DEF ProcessChainInit, OpenedInv
<1>2. AreMonths(sheet)
  <2>1. DOMAIN sheet = Months /\ \A m \in Months : DOMAIN sheet[m] = Depts
    BY DEF ProcessChainInit
  <2>2. \A m \in Months, d \in Depts : sheet[m][d] = NoSheet
    BY DEF ProcessChainInit
  <2> QED BY <2>1, <2>2 DEF AreMonths, IsMonth
<1>3. ReqInv
  BY DEF ProcessChainInit, ReqInv, Held
<1>4. SettledInv
  BY DEF ProcessChainInit, SettledInv
<1> QED BY <1>1, <1>2, <1>3, <1>4 DEF ChainInv

\* What a request holds tells what it is at.
LEMMA HeldAt ==
  ASSUME NEW q, NEW s, NEW o, Held(q, s, o)
  PROVE  /\ q.at = "save" => SaveHeld(q, s, o)
         /\ q.at = "open" => OpenHeld(q, s, o)
         /\ q.at = "walk" => WalkHeld(q, s, o)
         /\ q.at = "write" => WriteHeld(q, s, o)
<1>1. Idle.at = "idle"
  BY DEF Idle
<1> QED BY <1>1 DEF Held, SaveHeld, OpenHeld, WalkHeld, WriteHeld

\* A step that writes no sheet: what the request holds is as it should be.
LEMMA OwnStepInv ==
  ASSUME ChainInv, NEW r \in Writers, NEW x, Held(x, sheet, opened),
         req' = [req EXCEPT ![r] = x], UNCHANGED <<sheet, opened, settled>>
  PROVE  ChainInv'
<1>1. OpenedInv' /\ AreMonths(sheet') /\ SettledInv'
  <2>1. sheet' = sheet /\ opened' = opened /\ settled' = settled
    OBVIOUS
  <2> QED BY <2>1 DEF ChainInv, OpenedInv, SettledInv
<1>2. DOMAIN req' = Writers /\ \A q \in Writers : Held(req'[q], sheet', opened')
  <2>1. DOMAIN req = Writers /\ \A q \in Writers : Held(req[q], sheet, opened)
    BY DEF ChainInv, ReqInv
  <2>2. sheet' = sheet /\ opened' = opened
    OBVIOUS
  <2>3. DOMAIN req' = Writers /\ \A q \in Writers : req'[q] = IF q = r THEN x ELSE req[q]
    BY <2>1
  <2> QED BY <2>1, <2>2, <2>3
<1>3. ReqInv'
  BY <1>2 DEF ReqInv
<1> QED BY <1>1, <1>3 DEF ChainInv

LEMMA SaveReadInv ==
  ASSUME ChainInv, NEW r \in Writers, NEW m \in Months, NEW d \in Depts, NEW form \in Forms[d],
         SaveRead(r, m, d, form)
  PROVE  ChainInv'
<1> DEFINE row == Row(m, d)
           full == WithOpening(form, row)
           x == [at |-> "save", m |-> m, d |-> d, form |-> full, stale |-> SendsOpening(form)]
<1>1. m <= opened /\ ~ImpossibleSchedule(d, full) /\ req' = [req EXCEPT ![r] = x]
      /\ UNCHANGED <<sheet, opened, settled>>
  BY DEF SaveRead
<1>2. row = RowOf(sheet, m, d) /\ IsRow(d, row)
  <2>1. row = RowOf(sheet, m, d)
    BY DEF Row, RowOf, IsSheet
  <2>2. AreMonths(sheet)
    BY DEF ChainInv
  <2> QED BY <2>1, <2>2, RowFacts
<1>3. DOMAIN form = FormFields /\ \A f \in FormFields : IsOptional(form[f])
  <2>1. IsForm(form)
    BY ProcessChainAssumption
  <2> QED BY <2>1 DEF IsForm
<1> HIDE DEF row
<1>4. /\ DOMAIN full = FormFields /\ full.ei = Default(form.ei, row.ei)
      /\ \A f \in FormFields : f # "ei" => full[f] = form[f]
  BY <1>3 DEF WithOpening, FormFields
<1> HIDE DEF full
<1>5. IsAmount(full.ei) /\ (~Given(form.ei) => full.ei = row.ei)
  <2>1. IsOptional(form.ei) /\ IsAmount(row.ei)
    BY <1>2, <1>3 DEF FormFields, IsRow, IsUnits
  <2>2. ~Given(form.ei) => Default(form.ei, row.ei) = row.ei
    BY DEF Default
  <2> QED BY <2>1, <2>2, <1>4, DefaultFacts
<1>6. IsForm(full)
  <2>1. IsOptional(full.ei)
    BY <1>5 DEF IsOptional
  <2> QED BY <2>1, <1>3, <1>4 DEF IsForm
<1>7. ASSUME ~SendsOpening(form) PROVE Keeps(full, row)
  <2>1. ~Given(form.ei) /\ ~Given(form.iMp) /\ ~Given(form.iMo) /\ ~Given(form.iCif)
    BY <1>7 DEF SendsOpening
  <2>2. full.iMp = form.iMp /\ full.iMo = form.iMo /\ full.iCif = form.iCif
    BY <1>4 DEF FormFields
  <2> QED BY <2>1, <2>2, <1>5 DEF Keeps, Given
<1>8. SendsOpening(form) \in BOOLEAN
  BY DEF SendsOpening
<1>9. SaveHeld(x, sheet, opened)
  <2>1. x.at = "save" /\ x.m = m /\ x.d = d /\ x.form = full /\ x.stale = SendsOpening(form)
        /\ DOMAIN x = {"at", "m", "d", "form", "stale"}
    OBVIOUS
  <2> HIDE DEF x
  <2> QED BY <2>1, <1>1, <1>2, <1>5, <1>6, <1>7, <1>8 DEF SaveHeld
<1> HIDE DEF x
<1> QED BY <1>1, <1>9, OwnStepInv DEF Held

LEMMA RequestEndsInv ==
  ASSUME ChainInv, NEW r \in Writers, RequestEnds(r)
  PROVE  ChainInv'
<1>1. req' = [req EXCEPT ![r] = Idle] /\ UNCHANGED <<sheet, opened, settled>>
  BY DEF RequestEnds
<1>2. Held(Idle, sheet, opened)
  BY DEF Held
<1> QED BY <1>1, <1>2, OwnStepInv

\* HasReport says it of the sheets of the month; then what they carry is a carry.
LEMMA HasReportFacts ==
  ASSUME AreMonths(sheet), NEW m \in Months, HasReport(m)
  PROVE  Reports(sheet[m]) /\ IsCarry(CarryOf(sheet[m]))
<1>1. Reports(sheet[m])
  BY DEF HasReport, Reports, IsSheet
<1>2. IsRows(sheet[m]) /\ Calculates(sheet[m])
  BY <1>1, ReportRows DEF AreMonths
<1> QED BY <1>1, <1>2, CarryIs, ChainIs

LEMMA OpenNextReadInv ==
  ASSUME ChainInv, NEW r \in Writers, OpenNextRead(r)
  PROVE  ChainInv'
<1> DEFINE carry == IF HasSheets(opened) THEN CarryOf(sheet[opened]) ELSE << >>
           x == [at |-> "open", m |-> opened, stale |-> FALSE, carry |-> carry]
<1>1. opened < MaxMonths /\ (HasSheets(opened) => HasReport(opened)) /\ req' = [req EXCEPT ![r] = x]
      /\ UNCHANGED <<sheet, opened, settled>>
  BY DEF OpenNextRead
<1>2. opened \in Months /\ opened + 1 \in Months /\ opened <= opened
  BY <1>1, ProcessChainAssumption DEF ChainInv, OpenedInv, Months
<1>3. AreMonths(sheet)
  BY DEF ChainInv
<1>4. carry # << >> => IsCarry(carry) /\ Carries(sheet, opened, carry)
  <2>1. CASE HasSheets(opened)
    <3>1. Reports(sheet[opened]) /\ IsCarry(CarryOf(sheet[opened]))
      BY <2>1, <1>1, <1>2, <1>3, HasReportFacts
    <3> QED BY <2>1, <3>1 DEF Carries
  <2>2. CASE ~HasSheets(opened)
    BY <2>2
  <2> QED BY <2>1, <2>2
<1> HIDE DEF carry
<1>5. OpenHeld(x, sheet, opened)
  <2>1. x.at = "open" /\ x.m = opened /\ x.stale = FALSE /\ x.carry = carry
        /\ DOMAIN x = {"at", "m", "stale", "carry"}
    OBVIOUS
  <2> HIDE DEF x
  <2> QED BY <2>1, <1>2, <1>4 DEF OpenHeld
<1> HIDE DEF x
<1> QED BY <1>1, <1>5, OwnStepInv DEF Held

LEMMA RepropagateInv ==
  ASSUME ChainInv, NEW r \in Writers, NEW m \in Months, Repropagate(r, m)
  PROVE  ChainInv'
<1> DEFINE x == [at |-> "walk", m |-> m, upto |-> opened]
<1>1. m < opened /\ req' = [req EXCEPT ![r] = x] /\ UNCHANGED <<sheet, opened, settled>>
  BY DEF Repropagate
<1>2. opened \in Months /\ opened <= opened
  BY <1>1 DEF ChainInv, OpenedInv, Months
<1>3. WalkHeld(x, sheet, opened)
  BY <1>1, <1>2 DEF WalkHeld, Span
<1> HIDE DEF x
<1> QED BY <1>1, <1>3, OwnStepInv DEF Held

LEMMA WalkReadInv ==
  ASSUME ChainInv, NEW r \in Writers, WalkRead(r)
  PROVE  ChainInv'
<1>1. PICK w : w = req[r]
  OBVIOUS
<1> DEFINE carry == CarryOf(sheet[w.m])
           x == [at |-> "write", m |-> w.m, upto |-> w.upto, d |-> 1, carry |-> carry,
                 stale |-> FALSE]
<1>2. w.at = "walk" /\ HasReport(w.m) /\ req' = [req EXCEPT ![r] = x]
      /\ UNCHANGED <<sheet, opened, settled>>
  BY <1>1 DEF WalkRead
<1>3. WalkHeld(w, sheet, opened)
  BY <1>1, <1>2, HeldAt DEF ChainInv, ReqInv
<1>4. Reports(sheet[w.m]) /\ IsCarry(carry)
  BY <1>2, <1>3, HasReportFacts DEF ChainInv, WalkHeld, Span
<1> HIDE DEF carry
<1>5. 1 \in Depts /\ \A e \in Depts : ~(e < 1)
  BY ChainIs DEF IsChain, Depts
<1>6. WriteHeld(x, sheet, opened)
  <2>1. x.at = "write" /\ x.m = w.m /\ x.upto = w.upto /\ x.d = 1 /\ x.carry = carry /\ x.stale = FALSE
        /\ DOMAIN x = {"at", "m", "upto", "d", "carry", "stale"}
    OBVIOUS
  <2>2. Carries(sheet, w.m, carry)
    BY <1>4 DEF Carries, carry
  <2> HIDE DEF x
  <2> QED BY <2>1, <2>2, <1>3, <1>4, <1>5 DEF WriteHeld, WalkHeld, Span
<1> HIDE DEF x
<1> QED BY <1>2, <1>6, OwnStepInv DEF Held

-----------------------------------------------------------------------------
\* A row that is written, and what that makes of the other requests and of the settled months.
LEMMA WriteInv ==
  ASSUME ChainInv, NEW r \in Writers, NEW m \in Months, NEW d \in Depts, NEW t, IsRow(d, t),
         RowWritten(sheet, sheet', m, d, t), NEW late, late = req[r].stale, late \in BOOLEAN,
         OpensStill(sheet, m, d, t, late),
         req[r].at = "write" \/ late \/ t.ei = RowOf(sheet, m, d).ei
  PROVE  /\ AreMonths(sheet')
         /\ \A n \in Months : StillSettled(r, m)[n] => IsSettled(n, sheet', opened)
         /\ \A q \in Writers : Held(Outdated(r, m, d)[q], sheet', opened)
<1>1. AreMonths(sheet) /\ opened \in Nat
  BY DEF ChainInv, OpenedInv
<1>2. PICK s2 : s2 = sheet'
  OBVIOUS
<1>3. RowWritten(sheet, s2, m, d, t)
  BY <1>2
<1>4. AreMonths(s2)
  BY <1>1, <1>3, WrittenFacts
<1>5. ASSUME NEW n \in Months, StillSettled(r, m)[n] PROVE IsSettled(n, s2, opened)
  <2>1. settled[n] /\ n # m /\ ~(n + 1 = m /\ late)
    BY <1>5 DEF StillSettled
  <2>2. IsSettled(n, sheet, opened)
    BY <2>1 DEF ChainInv, SettledInv
  <2> QED BY <2>1, <2>2, <1>1, <1>3, SettledStill
<1>6. ASSUME NEW q \in Writers PROVE Held(Outdated(r, m, d)[q], s2, opened)
  <2>1. Held(req[q], sheet, opened)
    BY DEF ChainInv, ReqInv
  <2>2. CASE Outdates(r, m, d, q)
    <3>1. Outdated(r, m, d)[q] = [req[q] EXCEPT !.stale = TRUE]
      BY <2>2 DEF Outdated
    <3>2. req[q].at \in {"save", "open", "write"}
      BY <2>2 DEF Outdates
    <3> QED BY <2>1, <3>1, <3>2, HeldStale
  <2>3. CASE ~Outdates(r, m, d, q)
    <3>1. Outdated(r, m, d)[q] = req[q]
      BY <2>3 DEF Outdated
    <3>2. PICK x : x = req[q]
      OBVIOUS
    <3>3. /\ x.at = "save" /\ x.m = m /\ x.d = d => ~(req[r].at = "write" \/ late)
          /\ ~(x.at \in {"open", "write"} /\ x.m = m)
          /\ ~(x.at = "write" /\ x.m + 1 = m /\ late)
      BY <2>3, <3>2 DEF Outdates
    <3>4. x.at = "save" /\ x.m = m /\ x.d = d => t.ei = RowOf(sheet, m, d).ei
      BY <3>3
    <3>5. Held(x, s2, opened)
      BY <2>1, <3>2, <3>3, <3>4, <1>1, <1>3, HeldStill
    <3> QED BY <3>1, <3>2, <3>5
  <2> QED BY <2>2, <2>3
<1> QED BY <1>2, <1>4, <1>5, <1>6

LEMMA SaveWriteInv ==
  ASSUME ChainInv, NEW r \in Writers, SaveWrite(r)
  PROVE  ChainInv'
<1>1. PICK w, m, d, t : w = req[r] /\ m = w.m /\ d = w.d /\ t = SavedRow(d, w.form, Row(m, d))
  OBVIOUS
<1>2. /\ w.at = "save" /\ RowWritten(sheet, sheet', m, d, t) /\ settled' = StillSettled(r, m)
      /\ req' = [Outdated(r, m, d) EXCEPT ![r] = Idle] /\ opened' = opened
  BY <1>1 DEF SaveWrite, RowWritten
<1>3. SaveHeld(w, sheet, opened)
  BY <1>1, <1>2, HeldAt DEF ChainInv, ReqInv
<1>4. m \in Months /\ d \in Depts /\ w.stale \in BOOLEAN /\ AreMonths(sheet)
  BY <1>1, <1>3 DEF SaveHeld, ChainInv
<1>5. PICK row : row = RowOf(sheet, m, d)
  OBVIOUS
<1>6. IsRow(d, row) /\ (IsRow(d, sheet[m][d]) => row = sheet[m][d]) /\ row = Row(m, d)
  BY <1>4, <1>5, RowFacts DEF Row, RowOf, IsSheet
<1>7. IsRow(d, t) /\ (~w.stale => SameOpening(t, row))
  <2>1. IsForm(w.form) /\ IsAmount(w.form.ei) /\ ~ImpossibleSchedule(d, w.form)
        /\ (~w.stale => Keeps(w.form, row))
    BY <1>1, <1>3, <1>5 DEF SaveHeld
  <2> QED BY <2>1, <1>1, <1>4, <1>6, SavedFacts, ChainIs
<1>8. OpensStill(sheet, m, d, t, w.stale)
  BY <1>6, <1>7 DEF OpensStill, OpensFrom, SameOpening
<1>9. w.stale \/ t.ei = row.ei
  BY <1>7 DEF SameOpening
<1>10. /\ AreMonths(sheet')
       /\ \A n \in Months : StillSettled(r, m)[n] => IsSettled(n, sheet', opened)
       /\ \A q \in Writers : Held(Outdated(r, m, d)[q], sheet', opened)
  BY <1>1, <1>2, <1>4, <1>5, <1>7, <1>8, <1>9, WriteInv
<1>11. OpenedInv'
  BY <1>2 DEF ChainInv, OpenedInv
<1>12. ReqInv'
  <2>1. DOMAIN req' = Writers /\ \A q \in Writers : req'[q] = IF q = r THEN Idle ELSE Outdated(r, m, d)[q]
    BY <1>2 DEF Outdated
  <2>2. \A q \in Writers : Held(req'[q], sheet', opened')
    BY <2>1, <1>2, <1>10 DEF Held
  <2> QED BY <2>1, <2>2 DEF ReqInv
<1>13. SettledInv'
  <2>1. DOMAIN settled' = Months
    BY <1>2 DEF StillSettled
  <2> QED BY <2>1, <1>2, <1>10 DEF SettledInv
<1> QED BY <1>10, <1>11, <1>12, <1>13 DEF ChainInv

LEMMA WalkWriteInv ==
  ASSUME ChainInv, NEW r \in Writers, WalkWrite(r)
  PROVE  ChainInv'
<1>1. PICK w, n, m, d, t : /\ w = req[r] /\ n = w.m /\ m = w.m + 1 /\ d = w.d
                           /\ t = Receives(Row(m, d), w.carry[d])
  OBVIOUS
<1>2. w.at = "write"
  BY <1>1 DEF WalkWrite
<1>3. WriteHeld(w, sheet, opened)
  BY <1>1, <1>2, HeldAt DEF ChainInv, ReqInv
<1>4. /\ n \in Months /\ m \in Months /\ d \in Depts /\ w.stale \in BOOLEAN /\ AreMonths(sheet)
      /\ n \in Int /\ m = n + 1 /\ m - 1 = n /\ n # m /\ w.upto \in Int /\ m <= w.upto /\ w.upto <= opened
      /\ opened \in Int
  <2>1. n \in Months /\ w.upto \in Months /\ n < w.upto /\ w.upto <= opened
    BY <1>1, <1>3 DEF WriteHeld, Span
  <2>2. m \in Months /\ n \in Int /\ m = n + 1 /\ w.upto \in Int
    BY <1>1, <2>1, ProcessChainAssumption DEF Months
  <2>3. d \in Depts /\ w.stale \in BOOLEAN /\ AreMonths(sheet) /\ opened \in Int
    BY <1>1, <1>3 DEF WriteHeld, ChainInv, OpenedInv
  <2> QED BY <2>1, <2>2, <2>3
<1>5. /\ RowWritten(sheet, sheet', m, d, t)
      /\ settled' = [StillSettled(r, m) EXCEPT ![n] = @ \/ (d = Len(Unified) /\ ~w.stale)]
      /\ req' = [Outdated(r, m, d) EXCEPT ![r] = NextOf(w)] /\ opened' = opened
  BY <1>1, <1>4 DEF WalkWrite, RowWritten
<1>6. IsRow(d, t) /\ SameOpening(t, Landed(w.carry[d]))
  <2>1. IsRow(d, Row(m, d))
    BY <1>4, RowFacts DEF Row, RowOf, IsSheet
  <2>2. IsCarried(d, w.carry[d])
    BY <1>3, <1>4 DEF WriteHeld, IsCarry
  <2> QED BY <2>1, <2>2, <1>1, ReceivesFacts, ChainIs
<1>7. ~w.stale => /\ Reports(sheet[n]) /\ OpensFrom(sheet[n], t, d)
                  /\ \A e \in Depts : e < d => OpensFrom(sheet[n], sheet[m][e], e)
  BY <1>1, <1>3, <1>6 DEF WriteHeld, Carries, OpensFrom
<1>8. OpensStill(sheet, m, d, t, w.stale)
  <2>1. ASSUME NEW k \in Months, k + 1 = m PROVE k = n
    <3>1. k \in Int
      BY DEF Months
    <3> QED BY <3>1, <2>1, <1>4
  <2> QED BY <2>1, <1>7 DEF OpensStill
<1>9. /\ AreMonths(sheet')
      /\ \A k \in Months : StillSettled(r, m)[k] => IsSettled(k, sheet', opened)
      /\ \A q \in Writers : Held(Outdated(r, m, d)[q], sheet', opened)
  BY <1>1, <1>2, <1>4, <1>5, <1>6, <1>8, WriteInv
<1>10. /\ sheet'[n] = sheet[n] /\ sheet'[m][d] = t
       /\ \A e \in Depts : e # d => sheet'[m][e] = sheet[m][e]
  <2>1. PICK s2 : s2 = sheet'
    OBVIOUS
  <2>2. RowWritten(sheet, s2, m, d, t)
    BY <2>1, <1>5
  <2> QED BY <2>1, <2>2, <1>4, <1>6, WrittenFacts
<1>11. OpenedInv'
  BY <1>5 DEF ChainInv, OpenedInv
\* The departments that are written open with what the month left.
<1>12. ASSUME ~w.stale, NEW e \in Depts, e <= d PROVE OpensFrom(sheet'[n], sheet'[m][e], e)
  <2>1. e = d \/ e < d
    BY <1>4, <1>12 DEF Depts
  <2>2. CASE e = d
    BY <2>2, <1>7, <1>10, <1>12
  <2>3. CASE e < d
    <3>1. e # d
      BY <2>3, <1>4 DEF Depts
    <3> QED BY <3>1, <2>3, <1>7, <1>10, <1>12
  <2> QED BY <2>1, <2>2, <2>3
<1>13. SettledInv'
  <2>1. /\ DOMAIN settled' = Months
        /\ \A k \in Months : k # n => settled'[k] = StillSettled(r, m)[k]
        /\ settled'[n] = (StillSettled(r, m)[n] \/ (d = Len(Unified) /\ ~w.stale))
    BY <1>4, <1>5 DEF StillSettled
  <2>2. ASSUME NEW k \in Months, settled'[k] PROVE IsSettled(k, sheet', opened')
    <3>1. CASE StillSettled(r, m)[k]
      BY <3>1, <1>5, <1>9
    <3>2. CASE ~StillSettled(r, m)[k]
      <4>1. k = n /\ d = Len(Unified) /\ ~w.stale
        BY <2>1, <2>2, <3>2
      <4>2. \A e \in Depts : e <= d
        BY <4>1, ChainIs DEF IsChain, Depts
      <4>3. n < opened /\ Reports(sheet'[n])
        BY <4>1, <1>4, <1>7, <1>10
      <4>4. OpensWith(sheet'[n], sheet'[n + 1])
        BY <4>1, <4>2, <1>4, <1>12 DEF OpensWith
      <4> QED BY <4>1, <4>3, <4>4, <1>4, <1>5 DEF IsSettled
    <3> QED BY <3>1, <3>2
  <2> QED BY <2>1, <2>2 DEF SettledInv
<1>14. Held(NextOf(w), sheet', opened')
  <2>1. CASE d < Len(Unified)
    <3>1. PICK x : x = [w EXCEPT !.d = @ + 1]
      OBVIOUS
    <3>2. NextOf(w) = x
      BY <2>1, <3>1, <1>1 DEF NextOf
    <3>3. x.at = w.at /\ x.m = n /\ x.upto = w.upto /\ x.d = d + 1 /\ x.carry = w.carry
          /\ x.stale = w.stale /\ DOMAIN x = DOMAIN w
      BY <3>1, <1>1, <1>3 DEF WriteHeld
    <3>4. d + 1 \in Depts /\ \A e \in Depts : e < d + 1 => e <= d
      BY <2>1, <1>4, ChainIs DEF IsChain, Depts
    <3>5. ~w.stale => /\ Carries(sheet', n, w.carry)
                      /\ \A e \in Depts : e < d + 1 => OpensFrom(sheet'[n], sheet'[n + 1][e], e)
      <4>1. ~w.stale => Carries(sheet', n, w.carry)
        BY <1>1, <1>3, <1>10 DEF WriteHeld, Carries
      <4> QED BY <4>1, <3>4, <1>4, <1>12
    <3>6. WriteHeld(x, sheet', opened')
      BY <3>3, <3>4, <3>5, <1>1, <1>2, <1>3, <1>5 DEF WriteHeld, Span
    <3> QED BY <3>2, <3>6 DEF Held
  <2>2. CASE d = Len(Unified) /\ m < w.upto
    <3>1. PICK x : x = [at |-> "walk", m |-> m, upto |-> w.upto]
      OBVIOUS
    <3>2. NextOf(w) = x
      BY <2>2, <3>1, <1>1, ChainIs DEF NextOf, IsChain
    <3>3. WalkHeld(x, sheet', opened')
      <4>1. w.upto \in Months /\ w.upto <= opened'
        BY <1>3, <1>5 DEF WriteHeld, Span
      <4> QED BY <4>1, <3>1, <2>2, <1>4 DEF WalkHeld, Span
    <3> QED BY <3>2, <3>3 DEF Held
  <2>3. CASE ~(d < Len(Unified)) /\ ~(d = Len(Unified) /\ m < w.upto)
    <3>1. NextOf(w) = Idle
      BY <2>3, <1>1 DEF NextOf
    <3> QED BY <3>1 DEF Held
  <2> QED BY <2>1, <2>2, <2>3
<1>15. ReqInv'
  <2>1. /\ DOMAIN req' = Writers
        /\ \A q \in Writers : req'[q] = IF q = r THEN NextOf(w) ELSE Outdated(r, m, d)[q]
    BY <1>5 DEF Outdated
  <2>2. \A q \in Writers : Held(req'[q], sheet', opened')
    BY <2>1, <1>5, <1>9, <1>14
  <2> QED BY <2>1, <2>2 DEF ReqInv
<1> QED BY <1>9, <1>11, <1>13, <1>15 DEF ChainInv

LEMMA OpenNextCommitInv ==
  ASSUME ChainInv, NEW r \in Writers, OpenNextCommit(r)
  PROVE  ChainInv'
<1>1. PICK w : w = req[r]
  OBVIOUS
<1>2. w.at = "open" /\ w.m = opened /\ opened' = opened + 1 /\ req' = [req EXCEPT ![r] = Idle]
  BY <1>1 DEF OpenNextCommit
<1>3. OpenHeld(w, sheet, opened)
  BY <1>1, <1>2, HeldAt DEF ChainInv, ReqInv
<1>4. /\ opened \in Nat /\ opened \in Months /\ opened + 1 \in Months /\ w.stale \in BOOLEAN
      /\ AreMonths(sheet)
  BY <1>2, <1>3 DEF ChainInv, OpenedInv, OpenHeld
<1>5. \A n \in Months : n \in Int /\ n # n + 1
  BY DEF Months
<1>6. OpenedInv'
  BY <1>2, <1>4 DEF OpenedInv
<1>7. w.carry # << >> =>
        /\ DOMAIN sheet' = Months
        /\ \A n \in Months : n # opened + 1 => sheet'[n] = sheet[n]
        /\ DOMAIN sheet'[opened + 1] = Depts
        /\ \A d \in Depts : sheet'[opened + 1][d] = Receives(Blank, w.carry[d])
        /\ settled' = [settled EXCEPT ![opened] = ~w.stale]
  <2>1. ASSUME w.carry # << >>
        PROVE  /\ sheet' = [sheet EXCEPT ![opened + 1] = [d \in Depts |-> Receives(Blank, w.carry[d])]]
               /\ settled' = [settled EXCEPT ![opened] = ~w.stale]
    BY <2>1, <1>1 DEF OpenNextCommit
  <2> QED BY <2>1, <1>4 DEF AreMonths
<1>8. w.carry = << >> => sheet' = sheet /\ settled' = settled
  BY <1>1 DEF OpenNextCommit
<1>9. w.carry # << >> => \A d \in Depts : /\ IsRow(d, Receives(Blank, w.carry[d]))
                                          /\ SameOpening(Receives(Blank, w.carry[d]), Landed(w.carry[d]))
  <2> SUFFICES ASSUME w.carry # << >>, NEW d \in Depts
               PROVE  /\ IsRow(d, Receives(Blank, w.carry[d]))
                      /\ SameOpening(Receives(Blank, w.carry[d]), Landed(w.carry[d]))
    OBVIOUS
  <2>1. IsCarried(d, w.carry[d])
    BY <1>3 DEF OpenHeld, IsCarry
  <2> QED BY <2>1, BlankRow, ReceivesFacts, ChainIs
<1>10. AreMonths(sheet')
  <2>1. CASE w.carry = << >>
    BY <2>1, <1>4, <1>8
  <2>2. CASE w.carry # << >>
    <3>1. IsMonth(sheet'[opened + 1])
      BY <2>2, <1>7, <1>9 DEF IsMonth
    <3> QED BY <2>2, <3>1, <1>4, <1>7 DEF AreMonths
  <2> QED BY <2>1, <2>2
<1>11. \A n \in Months : n <= opened => sheet'[n] = sheet[n]
  BY <1>4, <1>5, <1>7, <1>8
<1>12. ReqInv'
  <2>1. DOMAIN req' = Writers /\ \A q \in Writers : req'[q] = IF q = r THEN Idle ELSE req[q]
    BY <1>2 DEF ChainInv, ReqInv
  <2>2. PICK s2 : s2 = sheet'
    OBVIOUS
  <2>3. \A n \in Months : n <= opened => s2[n] = sheet[n]
    BY <1>11, <2>2
  <2>4. ASSUME NEW q \in Writers PROVE Held(req[q], s2, opened + 1)
    <3>1. Held(req[q], sheet, opened)
      BY DEF ChainInv, ReqInv
    <3> QED BY <3>1, <2>3, <1>4, HeldLonger
  <2>5. ASSUME NEW q \in Writers PROVE Held(req'[q], sheet', opened')
    <3>1. CASE q = r
      BY <3>1, <2>1 DEF Held
    <3>2. CASE q # r
      BY <3>2, <2>1, <2>2, <2>4, <1>2
    <3> QED BY <3>1, <3>2
  <2> QED BY <2>1, <2>5 DEF ReqInv
<1>13. ASSUME NEW n \in Months, settled[n] PROVE IsSettled(n, sheet', opened')
  <2>1. IsSettled(n, sheet, opened)
    BY <1>13 DEF ChainInv, SettledInv
  <2>2. n < opened /\ n + 1 \in Months /\ n \in Int
    BY <2>1, <1>5 DEF IsSettled
  <2>3. n <= opened /\ n + 1 <= opened /\ n < opened'
    BY <2>2, <1>2, <1>4
  <2> QED BY <2>1, <2>2, <2>3, <1>11 DEF IsSettled
<1>14. SettledInv'
  <2>1. CASE w.carry = << >>
    BY <2>1, <1>8, <1>13 DEF ChainInv, SettledInv
  <2>2. CASE w.carry # << >>
    <3>1. /\ DOMAIN settled' = Months /\ settled'[opened] = ~w.stale
          /\ \A n \in Months : n # opened => settled'[n] = settled[n]
      BY <2>2, <1>4, <1>7 DEF ChainInv, SettledInv
    <3>2. ASSUME NEW n \in Months, settled'[n] PROVE IsSettled(n, sheet', opened')
      <4>1. CASE n # opened
        BY <4>1, <3>1, <3>2, <1>13
      <4>2. CASE n = opened
        <5>1. ~w.stale
          BY <4>2, <3>1, <3>2
        <5>2. Reports(sheet[n]) /\ w.carry = CarryOf(sheet[n])
          BY <5>1, <4>2, <2>2, <1>2, <1>3 DEF OpenHeld, Carries
        <5>3. sheet'[n] = sheet[n]
          BY <4>2, <1>4, <1>11
        <5>4. OpensWith(sheet'[n], sheet'[n + 1])
          BY <5>2, <5>3, <4>2, <2>2, <1>7, <1>9 DEF OpensWith, OpensFrom
        <5>5. n < opened' /\ n + 1 \in Months
          BY <4>2, <1>2, <1>4
        <5> QED BY <5>2, <5>3, <5>4, <5>5 DEF IsSettled
      <4> QED BY <4>1, <4>2
    <3> QED BY <3>1, <3>2 DEF SettledInv
  <2> QED BY <2>1, <2>2
<1> QED BY <1>6, <1>10, <1>12, <1>14 DEF ChainInv

\* Every step keeps it.
LEMMA ChainNextInv == ChainInv /\ [ProcessChainNext]_chainVars => ChainInv'
<1> SUFFICES ASSUME ChainInv, [ProcessChainNext]_chainVars PROVE ChainInv'
  OBVIOUS
<1>1. ASSUME NEW r \in Writers, NEW m \in Months, NEW d \in Depts, NEW form \in Forms[d],
             SaveRead(r, m, d, form)
      PROVE  ChainInv'
  BY <1>1, SaveReadInv
<1>2. ASSUME NEW r \in Writers, SaveWrite(r) PROVE ChainInv'
  BY <1>2, SaveWriteInv
<1>3. ASSUME NEW r \in Writers, OpenNextRead(r) PROVE ChainInv'
  BY <1>3, OpenNextReadInv
<1>4. ASSUME NEW r \in Writers, OpenNextCommit(r) PROVE ChainInv'
  BY <1>4, OpenNextCommitInv
<1>5. ASSUME NEW r \in Writers, NEW m \in Months, Repropagate(r, m) PROVE ChainInv'
  BY <1>5, RepropagateInv
<1>6. ASSUME NEW r \in Writers, WalkRead(r) PROVE ChainInv'
  BY <1>6, WalkReadInv
<1>7. ASSUME NEW r \in Writers, WalkWrite(r) PROVE ChainInv'
  BY <1>7, WalkWriteInv
<1>8. ASSUME NEW r \in Writers, RequestEnds(r) PROVE ChainInv'
  BY <1>8, RequestEndsInv
<1>9. CASE UNCHANGED chainVars
  <2>1. sheet' = sheet /\ opened' = opened /\ req' = req /\ settled' = settled
    BY <1>9 DEF chainVars
  <2> QED BY <2>1 DEF ChainInv, OpenedInv, ReqInv, SettledInv
<1> QED BY <1>1, <1>2, <1>3, <1>4, <1>5, <1>6, <1>7, <1>8, <1>9 DEF ProcessChainNext

-----------------------------------------------------------------------------
\* The money that opens a department is what was carried, to half a digit of each column.
LEMMA LandedIsNear ==
  ASSUME IsChain, NEW d, NEW c, IsCarried(d, c), NEW u, SameOpening(u, Landed(c))
  PROVE  Near(OpeningMoney(u), Plus(Plus(c.iMp, Plus(c.iMo, c.iCif)), c.iPrev), Fraction(2, Grid))
<1>1. PICK a, b, e, f : a = c.iMp /\ b = c.iMo /\ e = c.iCif /\ f = c.iPrev
  OBVIOUS
<1>2. IsAmount(a) /\ IsAmount(b) /\ IsAmount(e) /\ IsAmount(f)
  BY <1>1 DEF IsCarried
<1>3. PICK a1, b1, e1, f1 : a1 = Column(a) /\ b1 = Column(b) /\ e1 = Column(e) /\ f1 = Column(f)
  OBVIOUS
<1>4. OpeningMoney(u) = Plus(Plus(a1, Plus(b1, e1)), f1)
  BY <1>1, <1>3 DEF OpeningMoney, SameOpening, Landed
<1>5. PICK h : h = Half
  OBVIOUS
<1>6. /\ IsFraction(a) /\ IsFraction(b) /\ IsFraction(e) /\ IsFraction(f) /\ IsFraction(h)
      /\ IsFraction(a1) /\ IsFraction(b1) /\ IsFraction(e1) /\ IsFraction(f1)
      /\ Near(a, a1, h) /\ Near(b, b1, h) /\ Near(e, e1, h) /\ Near(f, f1, h)
  BY <1>2, <1>3, <1>5, ColumnFacts DEF IsAmount
<1>7. Near(Plus(b, e), Plus(b1, e1), Plus(h, h))
  BY <1>6, NearPlus
<1>8. IsFraction(Plus(b, e)) /\ IsFraction(Plus(b1, e1)) /\ IsFraction(Plus(h, h))
  BY <1>6, FractionOps
<1>9. Near(Plus(a, Plus(b, e)), Plus(a1, Plus(b1, e1)), Plus(h, Plus(h, h)))
  BY <1>6, <1>7, <1>8, NearPlus
<1>10. IsFraction(Plus(a, Plus(b, e))) /\ IsFraction(Plus(a1, Plus(b1, e1))) /\ IsFraction(Plus(h, Plus(h, h)))
  BY <1>6, <1>8, FractionOps
<1>11. Near(Plus(Plus(a, Plus(b, e)), f), Plus(Plus(a1, Plus(b1, e1)), f1), Plus(Plus(h, Plus(h, h)), h))
  BY <1>6, <1>9, <1>10, NearPlus
<1>12. Plus(Plus(h, Plus(h, h)), h) = Fraction(2, Grid)
  <2>1. PICK g \in Nat : g = Grid /\ g > 0
    BY DEF IsChain
  <2>2. PICK g2 \in Nat : g2 = 2 * g
    OBVIOUS
  <2>3. g2 > 0 /\ h = Fraction(1, g2)
    BY <2>1, <2>2, <1>5 DEF Half
  <2>4. 1 \in Nat /\ 2 \in Nat /\ 3 \in Nat /\ 1 + 1 = 2 /\ 1 + 2 = 3 /\ 3 + 1 = 4
    OBVIOUS
  <2>5. Plus(h, h) = Fraction(2, g2)
    BY <2>3, <2>4, PartFacts
  <2>6. Plus(h, Plus(h, h)) = Fraction(3, g2)
    BY <2>3, <2>4, <2>5, PartFacts
  <2>7. Plus(Plus(h, Plus(h, h)), h) = Fraction(4, g2)
    BY <2>3, <2>4, <2>6, PartFacts
  <2>8. Fraction(2 * 2, 2 * g) = Fraction(2, g)
    BY <2>1, <2>4, PartFacts
  <2> QED BY <2>1, <2>2, <2>7, <2>8
<1>13. /\ IsFraction(Plus(Plus(a, Plus(b, e)), f)) /\ IsFraction(Plus(Plus(a1, Plus(b1, e1)), f1))
       /\ IsFraction(Plus(Plus(h, Plus(h, h)), h))
  BY <1>6, <1>10, FractionOps
<1> QED BY <1>1, <1>4, <1>11, <1>12, <1>13, NearFacts

\* It gives the property: the cost of a month is all where its report says, and a month
\* opens with what the one before closed with.
LEMMA ChainConserves == ChainInv => MoneyIsConserved
<1> SUFFICES ASSUME ChainInv PROVE MonthConserves /\ OpensAsItClosed
  BY DEF MoneyIsConserved
<1>1. IsChain
  BY ChainIs
<1>2. MonthConserves
  <2> SUFFICES ASSUME NEW m \in Months, \A d \in Depts : IsSheet(m, d) /\ ~Orphaned(sheet[m][d]),
                      Calculates(sheet[m])
               PROVE  /\ Near(SumOver(Charged(sheet[m]), Depts),
                              Plus(SumOver(Left(sheet[m]), Depts), Run(sheet[m])[Len(Unified)].out),
                              SumOver(Slacks(sheet[m]), Depts))
                      /\ \A d \in Depts : Run(sheet[m])[d].ef = Run(sheet[m])[d].efByElement
    BY DEF MonthConserves, AllDepts, Charged, Left, Slacks, Calculates
  <2>1. IsRows(sheet[m])
    BY ReportRows DEF ChainInv, AreMonths, Reports, IsSheet
  <2>2. \A d \in Depts : Run(sheet[m])[d].ef = Run(sheet[m])[d].efByElement
    BY <1>1, <2>1, AllDone DEF IsDone
  <2> QED BY <1>1, <2>1, <2>2, MonthIsConserved
<1>3. OpensAsItClosed
  <2> SUFFICES ASSUME NEW m \in Months, settled[m], NEW d \in Depts
               PROVE  /\ sheet[m + 1][d].ei = Run(sheet[m])[d].schedule.ef
                      /\ Near(OpeningMoney(sheet[m + 1][d]), Run(sheet[m])[d].ef, Fraction(2, Grid))
    BY DEF OpensAsItClosed
  <2>1. Reports(sheet[m]) /\ OpensFrom(sheet[m], sheet[m + 1][d], d)
    BY DEF ChainInv, SettledInv, IsSettled, OpensWith
  <2>2. IsRows(sheet[m]) /\ Calculates(sheet[m])
    BY <2>1, ReportRows DEF ChainInv, AreMonths
  <2>3. PICK c, u : c = CarryOf(sheet[m])[d] /\ u = sheet[m][d]
    OBVIOUS
  <2>4. SameOpening(sheet[m + 1][d], Landed(c))
    BY <2>1, <2>3 DEF OpensFrom
  <2>5. /\ IsCarried(d, c) /\ c.ei = Run(sheet[m])[d].schedule.ef
        /\ Plus(Plus(c.iMp, Plus(c.iMo, c.iCif)), c.iPrev) = Run(sheet[m])[d].ef
    <3>1. c = Carried(d, sheet[m][d], Run(sheet[m])[d])
      BY <1>1, <2>2, <2>3, CarryIs
    <3> QED BY <1>1, <2>2, <3>1, CarriedFacts
  <2>6. Run(sheet[m])[d].schedule.ef = u.ef /\ Column(u.ef) = u.ef
    <3>1. IsRow(d, u)
      BY <2>2, <2>3 DEF IsRows
    <3>2. Given(u.ef)
      <4>1. Given(u.out) \/ Given(u.ef)
        BY <2>2, <2>3 DEF Calculates, IsReport, RefusedInputs
      <4> QED BY <3>1, <4>1 DEF IsRow
    <3>3. Run(sheet[m])[d].schedule = Schedule(d, u)
      BY <1>1, <2>2, <2>3, AllDone DEF IsDone
    <3>4. Schedule(d, u).ef = u.ef
      BY <3>2 DEF Schedule, FinalWip
    <3> QED BY <3>1, <3>3, <3>4 DEF IsRow
  <2>7. sheet[m + 1][d].ei = Column(c.ei)
    BY <2>4 DEF SameOpening, Landed
  <2>8. Near(OpeningMoney(sheet[m + 1][d]), Run(sheet[m])[d].ef, Fraction(2, Grid))
    BY <1>1, <2>4, <2>5, LandedIsNear
  <2> QED BY <2>5, <2>6, <2>7, <2>8
<1> QED BY <1>2, <1>3

\* The money of a chain of departments is conserved: in each month, through the losses, the
\* increases and the unit conversions, but for the units whose difference the checks do not
\* notice; and from each month to the next, to half a digit of each column, whatever saves,
\* openings and propagations overlap, unless one of them wrote from what it had read before
\* another wrote.
THEOREM MoneyStaysInTheChain == ProcessChainSpec => []MoneyIsConserved
<1>1. ProcessChainInit => ChainInv
  BY ChainInitInv
<1>2. ChainInv /\ [ProcessChainNext]_chainVars => ChainInv'
  BY ChainNextInv
<1>3. ChainInv => MoneyIsConserved
  BY ChainConserves
<1> QED BY <1>1, <1>2, <1>3, PTL DEF ProcessChainSpec

-----------------------------------------------------------------------------
(* Departments.                                                              *)

\* A finite set of integers has a least and a greatest.
Bounded(T) == T = {} \/ ((\E n \in T : \A m \in T : n <= m) /\ (\E n \in T : \A m \in T : n >= m))

LEMMA HasBounds ==
  ASSUME NEW S, IsFiniteSet(S), S \subseteq Int
  PROVE  Bounded(S)
<1> DEFINE G == {T \in SUBSET S : Bounded(T)}
<1>1. {} \in G
  BY DEF Bounded
<1>2. ASSUME NEW T \in SUBSET S, NEW x \in S, T \in G, x \notin T
      PROVE  T \cup {x} \in G
  <2>1. x \in Int /\ \A n \in T : n \in Int
    OBVIOUS
  <2>2. CASE T = {}
    BY <2>1, <2>2 DEF Bounded
  <2>3. CASE T # {}
    <3>1. PICK n \in T : \A m \in T : n <= m
      BY <1>2, <2>3 DEF Bounded
    <3>2. PICK p \in T : \A m \in T : p >= m
      BY <1>2, <2>3 DEF Bounded
    <3>3. \E q \in T \cup {x} : \A m \in T \cup {x} : q <= m
      <4>1. CASE x <= n
        BY <2>1, <3>1, <4>1
      <4>2. CASE ~ x <= n
        BY <2>1, <3>1, <4>2
      <4> QED BY <4>1, <4>2
    <3>4. \E q \in T \cup {x} : \A m \in T \cup {x} : q >= m
      <4>1. CASE x >= p
        BY <2>1, <3>2, <4>1
      <4>2. CASE ~ x >= p
        BY <2>1, <3>2, <4>2
      <4> QED BY <4>1, <4>2
    <3> QED BY <3>3, <3>4 DEF Bounded
  <2> QED BY <2>2, <2>3
<1>3. S \in G
  <2> HIDE DEF G
  <2> QED BY <1>1, <1>2, FiniteFrom
<1> QED BY <1>3

\* Rooms of which no two have one place.
OnePlaceEach(S) == S \subseteq Rooms /\ \A d, e \in S : place[d] = place[e] => d = e
PlacesOf(S) == {place[d] : d \in S}

\* As many as the places they have.
LEMMA AsManyPlaces ==
  ASSUME place \in [Rooms -> Int], NEW S, IsFiniteSet(S), OnePlaceEach(S), NEW k \in Nat, PlacesOf(S) = 1 .. k
  PROVE  Cardinality(S) = k
<1> DEFINE f == [d \in S |-> place[d]]
<1>1. f \in [S -> 1 .. k] /\ \A i \in 1 .. k : \E d \in S : f[d] = i
  BY DEF PlacesOf
<1>2. \A d, e \in S : f[d] = f[e] => d = e
  BY DEF OnePlaceEach
<1> HIDE DEF f
<1>3. f \in Surjection(S, 1 .. k) /\ f \in Injection(S, 1 .. k)
  BY <1>1, <1>2 DEF Surjection, Injection, IsInjective
<1>4. Cardinality(1 .. k) = Cardinality(S)
  BY <1>3, FS_Surjection
<1>5. Cardinality(1 .. k) = k
  BY FS_Interval
<1> QED BY <1>4, <1>5

Before(S, d) == {e \in S : place[e] < place[d]}

\* The list of a set has each of its rooms once, the one after the other.
LEMMA OrderFacts ==
  ASSUME place \in [Rooms -> Int], NEW S, IsFiniteSet(S), OnePlaceEach(S)
  PROVE  /\ Cardinality(S) \in Nat
         /\ InOrder(S) \in [1 .. Cardinality(S) -> S]
         /\ \A i, j \in 1 .. Cardinality(S) : InOrder(S)[i] = InOrder(S)[j] => i = j
         /\ \A d \in S : \E i \in 1 .. Cardinality(S) : InOrder(S)[i] = d
         /\ \A i \in 1 .. Cardinality(S) : Cardinality(Before(S, InOrder(S)[i])) = i - 1
         /\ \A d, e \in S : Cardinality(Before(S, d)) = Cardinality(Before(S, e)) => d = e
<1> DEFINE c == Cardinality(S)
           rank == [d \in S |-> Cardinality(Before(S, d)) + 1]
<1>1. c \in Nat
  BY FS_CardinalityType
<1>2. ASSUME NEW d \in S
      PROVE  IsFiniteSet(Before(S, d)) /\ Cardinality(Before(S, d)) \in Nat /\ rank[d] \in 1 .. c
  <2>1. Before(S, d) \in SUBSET S /\ d \notin Before(S, d)
    BY DEF Before, OnePlaceEach
  <2>2. IsFiniteSet(Before(S, d)) /\ Cardinality(Before(S, d)) <= c /\ c # Cardinality(Before(S, d))
    BY <2>1, FS_Subset
  <2>3. Cardinality(Before(S, d)) \in Nat
    BY <2>2, FS_CardinalityType
  <2> QED BY <1>1, <2>2, <2>3
<1>3. ASSUME NEW d \in S, NEW e \in S, place[d] < place[e]
      PROVE  rank[d] # rank[e]
  <2>1. place[d] \in Int /\ place[e] \in Int /\ \A x \in S : place[x] \in Int
    BY DEF OnePlaceEach
  <2>2. Before(S, d) \in SUBSET Before(S, e) /\ d \in Before(S, e) /\ d \notin Before(S, d)
    BY <1>3, <2>1 DEF Before
  <2>3. Cardinality(Before(S, e)) # Cardinality(Before(S, d))
    BY <1>2, <2>2, FS_Subset
  <2>4. Cardinality(Before(S, d)) \in Nat /\ Cardinality(Before(S, e)) \in Nat
    BY <1>2
  <2> QED BY <2>3, <2>4
<1>4. \A d, e \in S : rank[d] = rank[e] => d = e
  <2> SUFFICES ASSUME NEW d \in S, NEW e \in S, rank[d] = rank[e]
               PROVE  d = e
    OBVIOUS
  <2>1. place[d] \in Int /\ place[e] \in Int
    BY DEF OnePlaceEach
  <2>2. place[d] = place[e]
    BY <2>1, <1>3
  <2> QED BY <2>2 DEF OnePlaceEach
<1>5. \A d \in S : rank[d] = Cardinality(Before(S, d)) + 1
  OBVIOUS
<1>6. rank \in [S -> 1 .. c]
  BY <1>2
<1> HIDE DEF rank
<1>7. rank \in Injection(S, 1 .. c)
  BY <1>4, <1>6 DEF Injection, IsInjective
<1>8. IsFiniteSet(1 .. c) /\ Cardinality(1 .. c) = c
  BY <1>1, FS_Interval
<1>9. \A i \in 1 .. c : \E d \in S : rank[d] = i
  <2>1. rank \in Surjection(S, 1 .. c)
    BY <1>7, <1>8, FS_Injection
  <2> QED BY <2>1 DEF Surjection
<1>10. ASSUME NEW i \in 1 .. c
       PROVE  InOrder(S)[i] \in S /\ Cardinality(Before(S, InOrder(S)[i])) = i - 1 /\ rank[InOrder(S)[i]] = i
  <2>1. PICK d \in S : rank[d] = i
    BY <1>9
  <2>2. Cardinality(Before(S, d)) = i - 1
    BY <1>2, <1>5, <2>1
  <2>3. InOrder(S)[i] = CHOOSE x \in S : Cardinality(Before(S, x)) = i - 1
    BY DEF InOrder, Before
  <2>4. InOrder(S)[i] \in S /\ Cardinality(Before(S, InOrder(S)[i])) = i - 1
    BY <2>2, <2>3, Zenon
  <2> QED BY <1>1, <1>5, <2>4
<1>11. InOrder(S) = [i \in 1 .. c |-> InOrder(S)[i]]
  BY DEF InOrder
<1>12. InOrder(S) \in [1 .. c -> S]
  BY <1>10, <1>11
<1>13. \A d \in S : \E i \in 1 .. c : InOrder(S)[i] = d
  BY <1>4, <1>6, <1>10
<1>14. \A i, j \in 1 .. c : InOrder(S)[i] = InOrder(S)[j] => i = j
  BY <1>10
<1>15. \A d, e \in S : Cardinality(Before(S, d)) = Cardinality(Before(S, e)) => d = e
  BY <1>4, <1>5
<1> QED BY <1>1, <1>10, <1>12, <1>13, <1>14, <1>15 DEF c

\* When the places have no hole, the list has each room at its place.
LEMMA OrderOfTiled ==
  ASSUME place \in [Rooms -> Int], NEW S, IsFiniteSet(S), OnePlaceEach(S), NEW k \in Nat, PlacesOf(S) = 1 .. k
  PROVE  Cardinality(S) = k /\ \A d \in S : place[d] \in 1 .. k /\ InOrder(S)[place[d]] = d
<1>1. Cardinality(S) = k
  BY AsManyPlaces
<1>2. ASSUME NEW d \in S
      PROVE  place[d] \in 1 .. k /\ InOrder(S)[place[d]] = d
  <2>1. place[d] \in 1 .. k
    BY DEF PlacesOf
  <2>2. Cardinality(Before(S, d)) = place[d] - 1
    <3>1. Before(S, d) \in SUBSET S
      BY DEF Before
    <3>2. IsFiniteSet(Before(S, d)) /\ OnePlaceEach(Before(S, d))
      BY <3>1, FS_Subset DEF OnePlaceEach
    <3>3. PlacesOf(Before(S, d)) = 1 .. place[d] - 1
      <4>1. \A e \in S : place[e] \in 1 .. k
        BY DEF PlacesOf
      <4>2. \A i \in 1 .. k : \E e \in S : place[e] = i
        BY DEF PlacesOf
      <4> QED BY <2>1, <4>1, <4>2 DEF PlacesOf, Before
    <3>4. place[d] - 1 \in Nat
      BY <2>1
    <3> QED BY <3>2, <3>3, <3>4, AsManyPlaces
  <2>3. /\ InOrder(S)[place[d]] \in S
        /\ Cardinality(Before(S, InOrder(S)[place[d]])) = place[d] - 1
    BY <1>1, <2>1, OrderFacts
  <2> QED BY <2>1, <2>2, <2>3, OrderFacts
<1> QED BY <1>1, <1>2

\* The places that are taken.
Taken == {place[d] : d \in Live}

IsWork(w) == w = [at |-> w.at, room |-> w.room, order |-> w.order, crossed |-> w.crossed]
               /\ w.crossed \in BOOLEAN

\* Who is about to create a room: nobody else has that one.
CreateHand(c) == clerk[c].at = "create" =>
  /\ clerk[c].order[1] \in Nat \ {0}
  /\ clerk[c].room \in Rooms /\ place[clerk[c].room] = 0
  /\ \A k \in Clerks \ {c} : clerk[k].at = "create" => clerk[k].room # clerk[c].room
RemoveHand(c) == clerk[c].at = "remove" => clerk[c].room \in Rooms /\ place[clerk[c].room] # 0
SetupHand(c)  == clerk[c].at = "setup" =>
  ToSet(clerk[c].order) \subseteq Nat \ {0} /\ IsFiniteSet(ToSet(clerk[c].order))
IsListOf(order, m) ==
  /\ order \in [1 .. m -> Rooms]
  /\ \A i, j \in 1 .. m : order[i] = order[j] => i = j
ReorderHand(c) == clerk[c].at = "reorder" =>
  \E m \in Nat : IsListOf(clerk[c].order, m) /\ \A i \in 1 .. m : place[clerk[c].order[i]] # 0

\* What a clerk that nobody crossed has read is still so: every place before the one it
\* writes is taken, or it writes it too; what it puts in order is there.
FreshWork(c) ==
  /\ clerk[c].at = "create" => \A i \in 1 .. clerk[c].order[1] - 1 : i \in Taken
  /\ clerk[c].at = "setup" =>
       \A p \in ToSet(clerk[c].order) : \A i \in 1 .. p - 1 : i \in Taken \cup ToSet(clerk[c].order)
  /\ clerk[c].at = "reorder" => ToSet(clerk[c].order) \subseteq Live

ClerkInv(c) ==
  /\ CreateHand(c) /\ RemoveHand(c) /\ SetupHand(c) /\ ReorderHand(c)
  /\ ~contested /\ ~clerk[c].crossed => FreshWork(c)
  /\ HasRuns /\ clerk[c].at \in {"remove", "reorder"} => clerk[c].crossed

PlacesInv ==
  /\ place \in [Rooms -> Int] /\ contested \in BOOLEAN
  /\ clerk = [c \in Clerks |-> clerk[c]] /\ \A c \in Clerks : IsWork(clerk[c])
  /\ OnePlaceEach(Live)
TiledInv  == ~contested => \E k \in Nat : Taken = 1 .. k
FrozenInv == HasRuns /\ ~contested =>
  \E m \in Nat : frozen \in [1 .. m -> Rooms] /\ \A i \in 1 .. m : place[frozen[i]] = i

DepartmentsInv == PlacesInv /\ TiledInv /\ FrozenInv /\ \A c \in Clerks : ClerkInv(c)

LEMMA LiveFacts ==
  ASSUME place \in [Rooms -> Int]
  PROVE  /\ IsFiniteSet(Live) /\ Live \subseteq Rooms /\ PlacesOf(Live) = Taken
         /\ \A T \in SUBSET Rooms : IsFiniteSet(T)
<1>1. \A T \in SUBSET Rooms : IsFiniteSet(T)
  BY DepartmentsAssumption, FS_Subset
<1> QED BY <1>1 DEF Live, PlacesOf, Taken

\* The beginning of a sequence.
LEMMA BeginningOf ==
  ASSUME NEW S, NEW s \in Seq(S), NEW m \in Nat, m <= Len(s)
  PROVE  SubSeq(s, 1, m) = [i \in 1 .. m |-> s[i]]
<1>1. /\ SubSeq(s, 1, m) \in Seq(S) /\ Len(SubSeq(s, 1, m)) = m
      /\ DOMAIN SubSeq(s, 1, m) = 1 .. m
      /\ \A i \in 1 .. m : SubSeq(s, 1, m)[i] = s[i]
  OBVIOUS
<1> DEFINE t == SubSeq(s, 1, m)
<1>2. t = [i \in 1 .. m |-> t[i]]
  <2> HIDE DEF t
  <2>1. t \in Seq(S) /\ Len(t) = m
    BY <1>1 DEF t
  <2> QED BY <2>1
<1> HIDE DEF t
<1>3. \A i \in 1 .. m : t[i] = s[i]
  BY <1>1 DEF t
<1>4. t = [i \in 1 .. m |-> s[i]]
  BY <1>2, <1>3
<1> QED BY <1>4 DEF t

\* The chain stands in every state of the invariant.
LEMMA ChainFollows ==
  ASSUME DepartmentsInv
  PROVE  ChainStands
<1>1. place \in [Rooms -> Int] /\ OnePlaceEach(Live)
  BY DEF DepartmentsInv, PlacesInv
<1>2. ASSUME ~contested
      PROVE  \E k \in Nat : /\ Taken = 1 .. k /\ Cardinality(Live) = k
                            /\ Chain \in [1 .. k -> Live]
                            /\ \A d \in Live : place[d] \in 1 .. k /\ Chain[place[d]] = d
  <2>1. PICK k \in Nat : Taken = 1 .. k
    BY <1>2 DEF DepartmentsInv, TiledInv
  <2>2. Cardinality(Live) = k /\ \A d \in Live : place[d] \in 1 .. k /\ InOrder(Live)[place[d]] = d
    BY <1>1, <2>1, LiveFacts, OrderOfTiled
  <2>3. InOrder(Live) \in [1 .. k -> Live]
    BY <1>1, <2>2, LiveFacts, OrderFacts
  <2> QED BY <2>1, <2>2, <2>3 DEF Chain
<1>3. ChainIsContinuous
  BY <1>2 DEF ChainIsContinuous, Taken
<1>4. ASSUME HasRuns, ~contested
      PROVE  IsPrefix(frozen, Chain)
  <2>1. PICK m \in Nat : frozen \in [1 .. m -> Rooms] /\ \A i \in 1 .. m : place[frozen[i]] = i
    BY <1>4 DEF DepartmentsInv, FrozenInv
  <2>2. PICK k \in Nat : /\ Taken = 1 .. k /\ Cardinality(Live) = k
                         /\ Chain \in [1 .. k -> Live]
                         /\ \A d \in Live : place[d] \in 1 .. k /\ Chain[place[d]] = d
    BY <1>2, <1>4
  <2>3. ASSUME NEW i \in 1 .. m
        PROVE  i \in 1 .. k /\ frozen[i] = Chain[i]
    <3>1. frozen[i] \in Live
      BY <2>1 DEF Live
    <3> QED BY <2>1, <2>2, <3>1
  <2>4. m <= k
    <3>1. CASE m = 0
      BY <2>2, <3>1
    <3>2. CASE m # 0
      <4>1. m \in 1 .. m
        BY <2>1, <3>2
      <4> QED BY <4>1, <2>3
    <3> QED BY <3>1, <3>2
  <2>5. frozen \in Seq(Rooms) /\ Len(frozen) = m
    BY <2>1
  <2>6. Chain \in Seq(Live) /\ Len(Chain) = k
    BY <2>2
  <2>7. SubSeq(frozen, 1, m) = [i \in 1 .. m |-> frozen[i]]
    BY <2>1, <2>5, BeginningOf
  <2>8. SubSeq(Chain, 1, m) = [i \in 1 .. m |-> Chain[i]]
    BY <2>2, <2>4, <2>6, BeginningOf
  <2>9. SubSeq(frozen, 1, m) = SubSeq(Chain, 1, m)
    BY <2>3, <2>7, <2>8
  <2> QED BY <2>4, <2>5, <2>6, <2>9 DEF IsPrefix
<1> QED BY <1>3, <1>4 DEF ChainStands, CalculatedChainStands

-----------------------------------------------------------------------------
\* What a write leaves of the other clerks, and what they still may rest on.
LEMMA CrossingFacts ==
  ASSUME PlacesInv, NEW c, NEW steps, Crossing(c, steps)
  PROVE  /\ clerk' = [k \in Clerks |-> clerk'[k]]
         /\ \A k \in Clerks :
              /\ IsWork(clerk'[k])
              /\ k = c => clerk'[k] = NoWork
              /\ k # c => /\ clerk'[k].at = clerk[k].at /\ clerk'[k].room = clerk[k].room
                          /\ clerk'[k].order = clerk[k].order
                          /\ clerk'[k].crossed = (clerk[k].crossed \/ clerk[k].at \in steps)
<1>1. clerk' = [k \in Clerks |-> clerk'[k]]
  BY DEF Crossing
<1>2. ASSUME NEW k \in Clerks
      PROVE  /\ IsWork(clerk'[k])
             /\ k = c => clerk'[k] = NoWork
             /\ k # c => /\ clerk'[k].at = clerk[k].at /\ clerk'[k].room = clerk[k].room
                         /\ clerk'[k].order = clerk[k].order
                         /\ clerk'[k].crossed = (clerk[k].crossed \/ clerk[k].at \in steps)
  <2>1. IsWork(clerk[k])
    BY DEF PlacesInv
  <2>2. CASE k = c
    BY <2>2 DEF Crossing, NoWork, Work, IsWork
  <2>3. CASE k # c
    <3>1. clerk'[k] = [clerk[k] EXCEPT !.crossed = clerk[k].crossed \/ clerk[k].at \in steps]
      BY <2>3 DEF Crossing
    <3> DEFINE b == clerk[k].crossed \/ clerk[k].at \in steps
    <3>2. b \in BOOLEAN
      OBVIOUS
    <3>3. clerk'[k] = [clerk[k] EXCEPT !.crossed = b]
      BY <3>1
    <3> HIDE DEF b
    <3>4. clerk'[k] = [at |-> clerk[k].at, room |-> clerk[k].room, order |-> clerk[k].order, crossed |-> b]
      BY <2>1, <3>3 DEF IsWork
    <3>5. IsWork(clerk'[k]) /\ clerk'[k].crossed = b
      BY <3>2, <3>4 DEF IsWork
    <3> QED BY <2>3, <3>4, <3>5 DEF b
  <2> QED BY <2>2, <2>3
<1> QED BY <1>1, <1>2

\* What a write owes to the others.
Respects(c, steps) ==
  /\ place' \in [Rooms -> Int] /\ OnePlaceEach(Live)'
  /\ \A d \in Rooms : place[d] # 0 => place'[d] # 0
  /\ \A k \in Clerks \ {c} : clerk[k].at = "create" => place'[clerk[k].room] = 0
  /\ contested' \in BOOLEAN /\ (contested => contested')
  /\ HasRuns' => HasRuns \/ {"remove", "reorder"} \subseteq steps
  /\ \/ {"create", "setup", "reorder"} \subseteq steps
     \/ ~contested' => Live \subseteq Live' /\ Taken \subseteq Taken'

LEMMA OthersKept ==
  ASSUME DepartmentsInv, NEW c, NEW steps, Crossing(c, steps), Respects(c, steps),
         TiledInv', FrozenInv'
  PROVE  DepartmentsInv'
<1>1. PlacesInv
  BY DEF DepartmentsInv
<1>2. clerk' = [k \in Clerks |-> clerk'[k]] /\ \A k \in Clerks : IsWork(clerk'[k])
  BY <1>1, CrossingFacts
<1>3. PlacesInv'
  BY <1>2 DEF PlacesInv, Respects
<1>4. ASSUME NEW k \in Clerks
      PROVE  ClerkInv(k)'
  <2>1. CASE k = c
    <3>1. clerk'[k].at = "idle"
      BY <1>1, <2>1, CrossingFacts DEF NoWork, Work
    <3> QED BY <3>1 DEF ClerkInv, CreateHand, RemoveHand, SetupHand, ReorderHand, FreshWork
  <2>2. CASE k # c
    <3>1. /\ clerk'[k].at = clerk[k].at /\ clerk'[k].room = clerk[k].room
          /\ clerk'[k].order = clerk[k].order
          /\ clerk'[k].crossed = (clerk[k].crossed \/ clerk[k].at \in steps)
      BY <1>1, <2>2, CrossingFacts
    <3>2. ClerkInv(k)
      BY DEF DepartmentsInv
    <3>3. CreateHand(k)'
      <4> SUFFICES ASSUME clerk[k].at = "create"
                   PROVE  /\ clerk[k].order[1] \in Nat \ {0}
                          /\ clerk[k].room \in Rooms /\ place'[clerk[k].room] = 0
                          /\ \A j \in Clerks \ {k} : clerk'[j].at = "create" => clerk'[j].room # clerk[k].room
        BY <3>1 DEF CreateHand
      <4>1. \A j \in Clerks : clerk'[j].at = "create" =>
              clerk[j].at = "create" /\ clerk'[j].room = clerk[j].room
        BY <1>1, CrossingFacts DEF NoWork, Work
      <4> QED BY <2>2, <3>2, <4>1 DEF ClerkInv, CreateHand, Respects
    <3>4. RemoveHand(k)' /\ SetupHand(k)'
      BY <3>1, <3>2 DEF ClerkInv, RemoveHand, SetupHand, Respects, ToSet
    <3>5. ReorderHand(k)'
      <4> SUFFICES ASSUME clerk[k].at = "reorder"
                   PROVE  \E m \in Nat : /\ IsListOf(clerk[k].order, m)
                                         /\ \A i \in 1 .. m : place'[clerk[k].order[i]] # 0
        BY <3>1 DEF ReorderHand, IsListOf
      <4>1. PICK m \in Nat : /\ IsListOf(clerk[k].order, m)
                             /\ \A i \in 1 .. m : place[clerk[k].order[i]] # 0
        BY <3>2 DEF ClerkInv, ReorderHand
      <4>2. \A i \in 1 .. m : clerk[k].order[i] \in Rooms
        BY <4>1 DEF IsListOf
      <4> QED BY <4>1, <4>2 DEF Respects
    <3>6. ASSUME ~contested', ~clerk'[k].crossed
          PROVE  FreshWork(k)'
      <4>1. ~contested /\ ~clerk[k].crossed /\ clerk[k].at \notin steps
        BY <3>1, <3>6 DEF Respects
      <4>2. FreshWork(k)
        BY <3>2, <4>1 DEF ClerkInv
      <4>3. CASE {"create", "setup", "reorder"} \subseteq steps
        BY <3>1, <4>1, <4>3 DEF FreshWork
      <4>4. CASE Live \subseteq Live' /\ Taken \subseteq Taken'
        BY <3>1, <4>2, <4>4 DEF FreshWork, ToSet
      <4> QED BY <3>6, <4>3, <4>4 DEF Respects
    <3>7. HasRuns' /\ clerk'[k].at \in {"remove", "reorder"} => clerk'[k].crossed
      BY <3>1, <3>2 DEF ClerkInv, Respects
    <3> QED BY <3>3, <3>4, <3>5, <3>6, <3>7 DEF ClerkInv
  <2> QED BY <2>1, <2>2
<1> QED BY <1>3, <1>4 DEF DepartmentsInv

\* A request that has only read.
LEMMA StartKept ==
  ASSUME DepartmentsInv, NEW c \in Clerks, NEW work, clerk' = [clerk EXCEPT ![c] = work], IsWork(work),
         UNCHANGED <<place, frozen, contested>>, ClerkInv(c)',
         \A k \in Clerks \ {c} : clerk[k].at = "create" /\ work.at = "create" => clerk[k].room # work.room
  PROVE  DepartmentsInv'
<1>1. PlacesInv
  BY DEF DepartmentsInv
<1>2. clerk'[c] = work /\ \A k \in Clerks \ {c} : clerk'[k] = clerk[k]
  BY <1>1 DEF PlacesInv
<1>3. clerk' = [k \in Clerks |-> clerk'[k]] /\ \A k \in Clerks : IsWork(clerk'[k])
  BY <1>1, <1>2 DEF PlacesInv
<1>4. Live' = Live /\ Taken' = Taken /\ HasRuns' = HasRuns
  BY DEF Live, Taken, HasRuns
<1>5. PlacesInv'
  BY <1>1, <1>3, <1>4 DEF PlacesInv, OnePlaceEach
<1>6. TiledInv' /\ FrozenInv'
  BY <1>4 DEF DepartmentsInv, TiledInv, FrozenInv
<1>7. ASSUME NEW k \in Clerks \ {c}
      PROVE  ClerkInv(k)'
  <2>1. ClerkInv(k)
    BY DEF DepartmentsInv
  <2>2. CreateHand(k)'
    BY <1>2, <2>1 DEF ClerkInv, CreateHand
  <2>3. RemoveHand(k)' /\ SetupHand(k)' /\ ReorderHand(k)'
    BY <1>2, <2>1 DEF ClerkInv, RemoveHand, SetupHand, ReorderHand, IsListOf, ToSet
  <2>4. FreshWork(k)' = FreshWork(k)
    BY <1>2, <1>4 DEF FreshWork, ToSet
  <2> QED BY <1>2, <1>4, <2>1, <2>2, <2>3, <2>4 DEF ClerkInv
<1> QED BY <1>5, <1>6, <1>7 DEF DepartmentsInv

LEMMA FailsKept ==
  ASSUME DepartmentsInv, NEW c \in Clerks, Fails(c)
  PROVE  DepartmentsInv'
<1>1. IsWork(NoWork) /\ NoWork.at = "idle"
  BY DEF IsWork, NoWork, Work
<1>2. clerk' = [clerk EXCEPT ![c] = NoWork] /\ UNCHANGED <<place, frozen, contested>>
  BY DEF Fails
<1>3. clerk'[c].at = "idle"
  BY <1>1, <1>2 DEF DepartmentsInv, PlacesInv
<1>4. ClerkInv(c)'
  BY <1>3 DEF ClerkInv, CreateHand, RemoveHand, SetupHand, ReorderHand, FreshWork
<1> QED BY <1>1, <1>2, <1>4, StartKept

\* The last sequence of the table, and the lowest.
LEMMA Extremes ==
  ASSUME place \in [Rooms -> Int]
  PROVE  /\ HighestPlace \in Nat /\ \A d \in Rooms : place[d] <= HighestPlace
         /\ HighestPlace = 0 \/ \E d \in Rooms : place[d] = HighestPlace
         /\ LowestPlace \in Int /\ LowestPlace <= 0 /\ \A d \in Rooms : LowestPlace <= place[d]
<1> DEFINE T == {0} \cup {place[d] : d \in Rooms}
<1>1. IsFiniteSet(T)
  <2> DEFINE P == {place[d] : d \in Rooms}
  <2>1. place \in Surjection(Rooms, P)
    BY DEF Surjection
  <2>2. IsFiniteSet(P)
    BY <2>1, DepartmentsAssumption, FS_Surjection
  <2>3. T = P \cup {0}
    OBVIOUS
  <2> HIDE DEF P, T
  <2> QED BY <2>2, <2>3, FS_AddElement
<1>2. T \subseteq Int /\ T # {}
  OBVIOUS
<1>3. Bounded(T)
  <2> HIDE DEF T
  <2> QED BY <1>1, <1>2, HasBounds
<1>4. \E n \in T : \A d \in Rooms : n <= place[d] /\ n <= 0
  <2>1. PICK n \in T : \A m \in T : n <= m
    BY <1>2, <1>3 DEF Bounded
  <2> QED BY <2>1
<1>5. \E n \in T : \A d \in Rooms : n >= place[d] /\ n >= 0
  <2>1. PICK n \in T : \A m \in T : n >= m
    BY <1>2, <1>3 DEF Bounded
  <2> QED BY <2>1
<1>6. /\ LowestPlace \in T /\ \A d \in Rooms : LowestPlace <= place[d] /\ LowestPlace <= 0
  BY <1>4, Zenon DEF LowestPlace
<1>7. /\ HighestPlace \in T /\ \A d \in Rooms : HighestPlace >= place[d] /\ HighestPlace >= 0
  BY <1>5, Zenon DEF HighestPlace
<1>8. HighestPlace \in Nat /\ LowestPlace <= 0
  <2>1. CASE Rooms = {}
    BY <1>6, <1>7, <2>1
  <2>2. CASE Rooms # {}
    <3>1. PICK d \in Rooms : TRUE
      BY <2>2
    <3> QED BY <1>6, <1>7, <3>1
  <2> QED BY <2>1, <2>2
<1>9. \A d \in Rooms : place[d] <= HighestPlace
  BY <1>7, <1>8
<1> QED BY <1>6, <1>7, <1>8, <1>9

LEMMA CreateReadKept ==
  ASSUME DepartmentsInv, NEW c \in Clerks, NEW d \in Rooms, CreateRead(c, d)
  PROVE  DepartmentsInv'
<1> DEFINE work == Work("create", d, <<HighestPlace + 1>>)
<1>1. /\ place[d] = 0 /\ \A k \in Clerks : clerk[k].room # d
      /\ clerk' = [clerk EXCEPT ![c] = work] /\ UNCHANGED <<place, frozen, contested>>
  BY DEF CreateRead, Absent, Starts
<1>3. IsWork(work) /\ work.at = "create" /\ work.room = d /\ work.order = <<HighestPlace + 1>>
  BY DEF Work, IsWork
<1> HIDE DEF work
<1>4. place \in [Rooms -> Int] /\ PlacesInv
  BY DEF DepartmentsInv, PlacesInv
<1>5. work.order[1] = HighestPlace + 1 /\ HighestPlace \in Nat
  BY <1>3, <1>4, Extremes
<1>6. clerk'[c] = work /\ \A k \in Clerks \ {c} : clerk'[k] = clerk[k]
  BY <1>1, <1>4 DEF PlacesInv
<1>7. CreateHand(c)'
  BY <1>1, <1>3, <1>5, <1>6 DEF CreateHand
<1>8. ASSUME ~contested
      PROVE  \A i \in 1 .. HighestPlace : i \in Taken
  <2>1. PICK k \in Nat : Taken = 1 .. k
    BY <1>8 DEF DepartmentsInv, TiledInv
  <2>2. CASE HighestPlace = 0
    BY <2>2
  <2>3. CASE HighestPlace # 0
    <3>1. PICK e \in Rooms : place[e] = HighestPlace
      BY <1>4, <2>3, Extremes
    <3>2. HighestPlace \in Taken
      BY <1>5, <2>3, <3>1 DEF Taken, Live
    <3> QED BY <1>5, <2>1, <3>2
  <2> QED BY <2>2, <2>3
<1>9. Taken' = Taken
  BY <1>1 DEF Taken, Live
<1>10. ClerkInv(c)'
  BY <1>1, <1>3, <1>5, <1>6, <1>7, <1>8, <1>9
     DEF ClerkInv, RemoveHand, SetupHand, ReorderHand, FreshWork
<1> QED BY <1>1, <1>3, <1>10, StartKept

LEMMA RemoveReadKept ==
  ASSUME DepartmentsInv, NEW c \in Clerks, NEW d \in Rooms, RemoveRead(c, d)
  PROVE  DepartmentsInv'
<1> DEFINE work == Work("remove", d, << >>)
<1>1. /\ place[d] > 0 /\ ~HasRuns
      /\ clerk' = [clerk EXCEPT ![c] = work] /\ UNCHANGED <<place, frozen, contested>>
  BY DEF RemoveRead, Live, Starts
<1>3. IsWork(work) /\ work.at = "remove" /\ work.room = d
  BY DEF Work, IsWork
<1> HIDE DEF work
<1>4. clerk'[c] = work
  BY <1>1 DEF DepartmentsInv, PlacesInv
<1>5. place[d] \in Int
  BY DEF DepartmentsInv, PlacesInv
<1>6. ClerkInv(c)'
  BY <1>1, <1>3, <1>4, <1>5 DEF ClerkInv, CreateHand, RemoveHand, SetupHand, ReorderHand, FreshWork, HasRuns
<1> QED BY <1>1, <1>3, <1>6, StartKept

LEMMA ReorderReadKept ==
  ASSUME DepartmentsInv, NEW c \in Clerks, NEW order \in SetToSeqs(Live), ReorderRead(c, order)
  PROVE  DepartmentsInv'
<1> DEFINE work == Work("reorder", "none", order)
<1>1. /\ ~HasRuns
      /\ clerk' = [clerk EXCEPT ![c] = work] /\ UNCHANGED <<place, frozen, contested>>
  BY DEF ReorderRead, Starts
<1>3. IsWork(work) /\ work.at = "reorder" /\ work.order = order
  BY DEF Work, IsWork
<1> HIDE DEF work
<1>4. clerk'[c] = work
  BY <1>1 DEF DepartmentsInv, PlacesInv
<1>5. place \in [Rooms -> Int]
  BY DEF DepartmentsInv, PlacesInv
<1>6. PICK m \in Nat : m = Cardinality(Live)
  BY <1>5, LiveFacts, FS_CardinalityType
<1>7. order \in [1 .. m -> Live] /\ \A i, j \in 1 .. m : i # j => order[i] # order[j]
  BY <1>6, Zenon DEF SetToSeqs
<1>8. IsListOf(order, m) /\ (\A i \in 1 .. m : place[order[i]] # 0) /\ ToSet(order) \subseteq Live
  BY <1>5, <1>7 DEF IsListOf, ToSet, Live
<1>9. Live' = Live
  BY <1>1 DEF Live
<1>10. ReorderHand(c)'
  BY <1>1, <1>3, <1>4, <1>8 DEF ReorderHand, IsListOf
<1>11. FreshWork(c)'
  BY <1>3, <1>4, <1>8, <1>9 DEF FreshWork, ToSet
<1>12. ClerkInv(c)'
  BY <1>1, <1>3, <1>4, <1>10, <1>11 DEF ClerkInv, CreateHand, RemoveHand, SetupHand, HasRuns
<1> QED BY <1>1, <1>3, <1>12, StartKept

\* A set as a sequence has its members and no other.
LEMMA SequenceOfSet ==
  ASSUME NEW S, IsFiniteSet(S)
  PROVE  ToSet(SetToSeq(S)) = S
<1>1. Cardinality(S) \in Nat /\ ExistsBijection(1 .. Cardinality(S), S)
  BY FS_CardinalityType
<1>2. PICK g : g \in Bijection(1 .. Cardinality(S), S)
  BY <1>1 DEF ExistsBijection
<1>3. g \in [1 .. Cardinality(S) -> S] /\ IsInjective(g)
  BY <1>2 DEF Bijection, Injection, IsInjective
<1> DEFINE f == SetToSeq(S)
<1>4. f \in [1 .. Cardinality(S) -> S] /\ IsInjective(f)
  BY <1>3, Zenon DEF SetToSeq
<1> HIDE DEF f
<1>5. f \in Injection(1 .. Cardinality(S), S)
  BY <1>4 DEF Injection, IsInjective
<1>6. Cardinality(1 .. Cardinality(S)) = Cardinality(S)
  BY <1>1, FS_Interval
<1>7. f \in Surjection(1 .. Cardinality(S), S)
  BY <1>5, <1>6, FS_Injection
<1>8. ToSet(f) = S
  BY <1>4, <1>7 DEF ToSet, Surjection
<1> QED BY <1>8 DEF f

LEMMA SetupReadKept ==
  ASSUME DepartmentsInv, NEW c \in Clerks, NEW n \in Places, SetupRead(c, n)
  PROVE  DepartmentsInv'
<1> DEFINE M == {i \in 1 .. n : \A d \in Live : place[d] # i}
           work == Work("setup", "none", SetToSeq(M))
<1>1. clerk' = [clerk EXCEPT ![c] = work] /\ UNCHANGED <<place, frozen, contested>>
  BY DEF SetupRead, Starts
<1>3. IsWork(work) /\ work.at = "setup" /\ work.order = SetToSeq(M)
  BY DEF Work, IsWork
<1> HIDE DEF work
<1>4. clerk'[c] = work
  BY <1>1 DEF DepartmentsInv, PlacesInv
<1>5. n \in Nat
  BY DepartmentsAssumption, FS_CardinalityType DEF Places
<1>6. IsFiniteSet(M) /\ M \subseteq Nat \ {0}
  <2>1. M \in SUBSET (1 .. n) /\ M \subseteq Nat \ {0}
    BY <1>5
  <2>2. 1 \in Int /\ n \in Int
    BY <1>5
  <2> HIDE DEF M
  <2> QED BY <2>1, <2>2, FS_Interval, FS_Subset
<1>7. ToSet(work.order) = M
  <2> HIDE DEF M
  <2> QED BY <1>3, <1>6, SequenceOfSet
<1>8. \A p \in M : \A i \in 1 .. p - 1 : i \in Taken \cup M
  BY <1>5 DEF Taken
<1>9. Taken' = Taken
  BY <1>1 DEF Taken, Live
<1> HIDE DEF M
<1>10. SetupHand(c)'
  BY <1>4, <1>6, <1>7 DEF SetupHand, ToSet
<1>11. FreshWork(c)'
  BY <1>3, <1>4, <1>7, <1>8, <1>9 DEF FreshWork, ToSet
<1>12. ClerkInv(c)'
  BY <1>3, <1>4, <1>10, <1>11 DEF ClerkInv, CreateHand, RemoveHand, ReorderHand
<1> QED BY <1>1, <1>3, <1>12, StartKept

LEMMA CreateWriteKept ==
  ASSUME DepartmentsInv, NEW c \in Clerks, CreateWrite(c)
  PROVE  DepartmentsInv'
<1> DEFINE r == clerk[c].room
           p == clerk[c].order[1]
<1>1. CASE Fails(c)
  BY <1>1, FailsKept
<1>2. CASE ~Fails(c)
  <2>1. /\ \A d \in Rooms : place[d] # p
        /\ place' = [place EXCEPT ![r] = p] /\ frozen' = frozen
        /\ Crossing(c, {}) /\ contested' = (contested \/ clerk[c].crossed)
    BY <1>2 DEF CreateWrite, Writes
  <2>2. PlacesInv /\ ClerkInv(c) /\ clerk[c].at = "create" /\ IsWork(clerk[c])
    BY DEF DepartmentsInv, CreateWrite, PlacesInv
  <2>3. /\ p \in Nat \ {0} /\ r \in Rooms /\ place[r] = 0
        /\ \A k \in Clerks \ {c} : clerk[k].at = "create" => clerk[k].room # r
    BY <2>2 DEF ClerkInv, CreateHand
  <2>4. ~contested' => \A i \in 1 .. p - 1 : i \in Taken
    <3>1. clerk[c].crossed \in BOOLEAN /\ contested \in BOOLEAN
      BY <2>2 DEF IsWork, PlacesInv
    <3> QED BY <2>1, <2>2, <3>1 DEF ClerkInv, FreshWork
  <2>5. contested' \in BOOLEAN /\ (contested => contested')
    BY <2>1, <2>2 DEF IsWork, PlacesInv
  <2> HIDE DEF r, p
  <2>6. /\ place \in [Rooms -> Int] /\ place' \in [Rooms -> Int]
        /\ place'[r] = p /\ \A d \in Rooms \ {r} : place'[d] = place[d]
    BY <2>1, <2>2, <2>3 DEF PlacesInv
  <2>7. Live' = Live \cup {r} /\ Taken' = Taken \cup {p} /\ r \notin Live
    <3>1. Live' = Live \cup {r}
      BY <2>3, <2>6 DEF Live
    <3>2. r \notin Live
      BY <2>3 DEF Live
    <3> QED BY <2>6, <3>1, <3>2 DEF Taken, Live
  <2>8. OnePlaceEach(Live)'
    BY <2>1, <2>2, <2>6, <2>7 DEF OnePlaceEach, PlacesInv, Live
  <2>9. \A k \in Clerks \ {c} : clerk[k].at = "create" => place'[clerk[k].room] = 0
    BY <2>3, <2>6 DEF DepartmentsInv, ClerkInv, CreateHand
  <2>10. Respects(c, {})
    BY <2>1, <2>3, <2>5, <2>6, <2>7, <2>8, <2>9 DEF Respects, HasRuns
  <2>11. TiledInv'
    <3> SUFFICES ASSUME ~contested'
                 PROVE  \E k \in Nat : Taken' = 1 .. k
      BY DEF TiledInv
    <3>1. PICK k \in Nat : Taken = 1 .. k
      BY <2>5 DEF DepartmentsInv, TiledInv
    <3>2. p \notin Taken
      BY <2>1 DEF Taken, Live
    <3>3. p = k + 1
      <4>1. ~ p <= k
        BY <2>3, <3>1, <3>2
      <4>2. ~ p > k + 1
        <5> SUFFICES ASSUME p > k + 1
                     PROVE  FALSE
          OBVIOUS
        <5>1. k + 1 \in 1 .. p - 1
          BY <2>3
        <5> QED BY <2>4, <3>1, <5>1
      <4> QED BY <2>3, <4>1, <4>2
    <3>4. Taken' = 1 .. k + 1
      BY <2>7, <3>1, <3>3
    <3> QED BY <3>4
  <2>12. FrozenInv'
    <3> SUFFICES ASSUME HasRuns, ~contested'
                 PROVE  \E m \in Nat : frozen \in [1 .. m -> Rooms] /\ \A i \in 1 .. m : place'[frozen[i]] = i
      BY <2>1 DEF FrozenInv, HasRuns
    <3>1. PICK m \in Nat : frozen \in [1 .. m -> Rooms] /\ \A i \in 1 .. m : place[frozen[i]] = i
      BY <2>5 DEF DepartmentsInv, FrozenInv
    <3>2. \A i \in 1 .. m : frozen[i] \in Rooms \ {r}
      BY <2>3, <3>1
    <3> QED BY <2>6, <3>1, <3>2
  <2> QED BY <2>1, <2>10, <2>11, <2>12, OthersKept
<1> QED BY <1>1, <1>2

\* What the two passes of resequence leave.
LEMMA ResequencedFacts ==
  ASSUME NEW from \in [Rooms -> Int], NEW m \in Nat, NEW order, IsListOf(order, m)
  PROVE  /\ ToSet(order) = {order[i] : i \in 1 .. m} /\ ToSet(order) \subseteq Rooms
         /\ Resequenced(from, order) \in [Rooms -> Int]
         /\ \A i \in 1 .. m : order[i] \in Rooms /\ Resequenced(from, order)[order[i]] = i
         /\ \A d \in Rooms : d \notin ToSet(order) => Resequenced(from, order)[d] = from[d]
<1>1. DOMAIN order = 1 .. m /\ \A i \in 1 .. m : order[i] \in Rooms
  BY DEF IsListOf
<1>2. ToSet(order) = {order[i] : i \in 1 .. m} /\ ToSet(order) \subseteq Rooms
  BY <1>1 DEF ToSet
<1>3. ASSUME NEW i \in 1 .. m
      PROVE  Resequenced(from, order)[order[i]] = i
  <2>1. order[i] \in ToSet(order) /\ order[i] \in Rooms
    BY <1>1, <1>2
  <2>2. \A j \in DOMAIN order : order[j] = order[i] => j = i
    BY <1>1 DEF IsListOf
  <2>3. (CHOOSE j \in DOMAIN order : order[j] = order[i]) = i
    BY <1>1, <2>2
  <2> QED BY <2>1, <2>3 DEF Resequenced
<1>4. \A d \in Rooms : d \notin ToSet(order) => Resequenced(from, order)[d] = from[d]
  BY DEF Resequenced
<1>5. Resequenced(from, order) \in [Rooms -> Int]
  <2>1. ASSUME NEW d \in Rooms
        PROVE  Resequenced(from, order)[d] \in Int
    <3>1. CASE d \in ToSet(order)
      <4>1. PICK i \in 1 .. m : order[i] = d
        BY <1>2, <3>1
      <4>2. Resequenced(from, order)[d] = i
        BY <1>3, <4>1
      <4> QED BY <4>2
    <3>2. CASE d \notin ToSet(order)
      BY <1>4, <3>2
    <3> QED BY <3>1, <3>2
  <2>2. Resequenced(from, order) = [d \in Rooms |-> Resequenced(from, order)[d]]
    BY DEF Resequenced
  <2> QED BY <2>1, <2>2
<1> QED BY <1>1, <1>2, <1>3, <1>4, <1>5

LEMMA RemoveWriteKept ==
  ASSUME DepartmentsInv, NEW c \in Clerks, RemoveWrite(c)
  PROVE  DepartmentsInv'
<1> DEFINE r == clerk[c].room
           from == [place EXCEPT ![r] = LowestPlace - 1]
           left == Live \ {r}
           m == Cardinality(left)
           order == InOrder(left)
           steps == {"create", "setup", "reorder"}
<1>1. /\ place' = Resequenced(from, order) /\ frozen' = frozen
      /\ Crossing(c, steps) /\ contested' = (contested \/ clerk[c].crossed)
  BY DEF RemoveWrite, Writes
<1>2. PlacesInv /\ ClerkInv(c) /\ clerk[c].at = "remove" /\ IsWork(clerk[c])
  BY DEF DepartmentsInv, RemoveWrite, PlacesInv
<1>3. r \in Rooms /\ place[r] # 0 /\ place \in [Rooms -> Int]
  BY <1>2 DEF ClerkInv, RemoveHand, PlacesInv
<1>4. IsFiniteSet(left) /\ OnePlaceEach(left) /\ left \subseteq Rooms
  <2>1. left \in SUBSET Rooms
    BY <1>3, LiveFacts
  <2>2. OnePlaceEach(left)
    BY <1>2 DEF PlacesInv, OnePlaceEach
  <2> HIDE DEF left
  <2> QED BY <1>3, <2>1, <2>2, LiveFacts
<1>5. contested' \in BOOLEAN /\ (contested => contested')
  BY <1>1, <1>2 DEF IsWork, PlacesInv
<1>6. ASSUME HasRuns
      PROVE  contested'
  BY <1>1, <1>2, <1>6 DEF ClerkInv
<1>7. LowestPlace \in Int /\ LowestPlace <= 0
  BY <1>3, Extremes
<1>8. /\ from \in [Rooms -> Int] /\ from[r] < 0
      /\ \A d \in Rooms \ {r} : from[d] = place[d]
  BY <1>3, <1>7
<1>9. \A d \in Rooms : d \in left <=> d # r /\ place[d] > 0
  BY DEF Live
<1> HIDE DEF r, from, left, steps
<1>10. /\ m \in Nat /\ order \in [1 .. m -> left]
       /\ \A i, j \in 1 .. m : order[i] = order[j] => i = j
       /\ \A d \in left : \E i \in 1 .. m : order[i] = d
  BY <1>3, <1>4, OrderFacts
<1> HIDE DEF m, order
<1>11. IsListOf(order, m)
  BY <1>4, <1>10 DEF IsListOf
<1>12. /\ ToSet(order) = left /\ place' \in [Rooms -> Int]
       /\ \A i \in 1 .. m : place'[order[i]] = i
       /\ \A d \in Rooms \ left : place'[d] = from[d]
  <2>1. /\ ToSet(order) = {order[i] : i \in 1 .. m} /\ place' \in [Rooms -> Int]
        /\ \A i \in 1 .. m : order[i] \in Rooms /\ place'[order[i]] = i
        /\ \A d \in Rooms : d \notin ToSet(order) => place'[d] = from[d]
    BY <1>1, <1>8, <1>10, <1>11, ResequencedFacts
  <2>2. ToSet(order) = left
    BY <1>10, <2>1
  <2> QED BY <2>1, <2>2
<1>13. \A d \in Rooms \ left : place'[d] = from[d] /\ ~ place'[d] > 0 /\ (place[d] # 0 => place'[d] # 0)
  <2> SUFFICES ASSUME NEW d \in Rooms \ left
               PROVE  ~ place'[d] > 0 /\ (place[d] # 0 => place'[d] # 0)
    BY <1>12
  <2>1. place[d] \in Int /\ place'[d] = from[d] /\ from[d] \in Int
    BY <1>3, <1>8, <1>12
  <2> QED BY <1>8, <1>9, <2>1
<1>14. \A d \in left : \E i \in 1 .. m : order[i] = d /\ place'[d] = i
  BY <1>10, <1>12
<1>15. Live' = left
  BY <1>4, <1>13, <1>14 DEF Live
<1>16. Taken' = 1 .. m
  BY <1>10, <1>12, <1>14, <1>15 DEF Taken
<1>17. OnePlaceEach(Live)'
  BY <1>4, <1>14, <1>15 DEF OnePlaceEach
<1>18. \A k \in Clerks \ {c} : clerk[k].at = "create" => place'[clerk[k].room] = 0
  <2> SUFFICES ASSUME NEW k \in Clerks \ {c}, clerk[k].at = "create"
               PROVE  place'[clerk[k].room] = 0
    OBVIOUS
  <2>1. clerk[k].room \in Rooms /\ place[clerk[k].room] = 0
    BY DEF DepartmentsInv, ClerkInv, CreateHand
  <2> QED BY <1>3, <1>8, <1>9, <1>12, <2>1
<1>19. Respects(c, steps)
  BY <1>1, <1>5, <1>12, <1>13, <1>14, <1>17, <1>18 DEF Respects, HasRuns, steps
<1>20. TiledInv'
  BY <1>10, <1>16 DEF TiledInv
<1>21. FrozenInv'
  BY <1>1, <1>6 DEF FrozenInv, HasRuns
<1> QED BY <1>1, <1>19, <1>20, <1>21, OthersKept

\* As many as the list is long.
LEMMA AsManyListed ==
  ASSUME NEW m \in Nat, NEW order, IsListOf(order, m)
  PROVE  IsFiniteSet(ToSet(order)) /\ Cardinality(ToSet(order)) = m
<1>1. DOMAIN order = 1 .. m
  BY DEF IsListOf
<1>2. order \in Surjection(1 .. m, ToSet(order)) /\ order \in Injection(1 .. m, ToSet(order))
  BY <1>1 DEF Surjection, Injection, IsInjective, ToSet, IsListOf
<1>3. IsFiniteSet(1 .. m) /\ Cardinality(1 .. m) = m
  BY FS_Interval
<1>4. IsFiniteSet(ToSet(order)) /\ (Cardinality(ToSet(order)) = m <=> order \in Injection(1 .. m, ToSet(order)))
  BY <1>2, <1>3, FS_Surjection
<1> QED BY <1>2, <1>4

\* Rooms that nobody outside the list clashes with: they had the first places.
LEMMA FirstPlaces ==
  ASSUME PlacesInv, NEW k \in Nat, Taken = 1 .. k, NEW m \in Nat, NEW order, IsListOf(order, m),
         ToSet(order) \subseteq Live, \A d \in Rooms \ ToSet(order) : place[d] \notin 1 .. m
  PROVE  m <= k /\ \A d \in ToSet(order) : place[d] \in 1 .. m
<1> DEFINE O == ToSet(order)
           S == {d \in Live : place[d] \in 1 .. m}
<1>1. place \in [Rooms -> Int] /\ OnePlaceEach(Live) /\ IsFiniteSet(Live) /\ PlacesOf(Live) = Taken
  BY LiveFacts DEF PlacesInv
<1>2. Cardinality(Live) = k
  BY <1>1, AsManyPlaces
<1>3. IsFiniteSet(O) /\ Cardinality(O) = m
  BY AsManyListed
<1>4. O \in SUBSET Live
  OBVIOUS
<1>5. m <= k
  <2> HIDE DEF O
  <2> QED BY <1>1, <1>2, <1>3, <1>4, FS_Subset
<1>6. S \in SUBSET O
  BY <1>1 DEF Live
<1>7. OnePlaceEach(S) /\ PlacesOf(S) = 1 .. m
  <2>1. \A i \in 1 .. m : \E d \in Live : place[d] = i
    BY <1>5 DEF Taken
  <2> QED BY <1>1, <2>1 DEF OnePlaceEach, PlacesOf
<1>8. S = O
  <2> HIDE DEF O, S
  <2>1. IsFiniteSet(S)
    BY <1>3, <1>6, FS_Subset
  <2>2. Cardinality(S) = m
    BY <1>1, <1>7, <2>1, AsManyPlaces
  <2> QED BY <1>3, <1>6, <2>2, FS_Subset
<1> QED BY <1>5, <1>8

LEMMA ReorderWriteKept ==
  ASSUME DepartmentsInv, NEW c \in Clerks, ReorderWrite(c)
  PROVE  DepartmentsInv'
<1> DEFINE order == clerk[c].order
<1>1. CASE Fails(c)
  BY <1>1, FailsKept
<1>2. CASE ~Fails(c)
  <2>1. /\ ~Clashes(place, order) /\ place' = Resequenced(place, order) /\ frozen' = frozen
        /\ Crossing(c, {}) /\ contested' = (contested \/ clerk[c].crossed)
    BY <1>2 DEF ReorderWrite, Writes
  <2>2. PlacesInv /\ ClerkInv(c) /\ clerk[c].at = "reorder" /\ IsWork(clerk[c])
    BY DEF DepartmentsInv, ReorderWrite, PlacesInv
  <2>3. PICK m \in Nat : IsListOf(order, m) /\ \A i \in 1 .. m : place[order[i]] # 0
    BY <2>2 DEF ClerkInv, ReorderHand
  <2>4. ~contested' => ToSet(order) \subseteq Live
    <3>1. clerk[c].crossed \in BOOLEAN /\ contested \in BOOLEAN
      BY <2>2 DEF IsWork, PlacesInv
    <3> QED BY <2>1, <2>2, <3>1 DEF ClerkInv, FreshWork
  <2>5. contested' \in BOOLEAN /\ (contested => contested')
    BY <2>1, <2>2 DEF IsWork, PlacesInv
  <2>6. HasRuns => contested'
    BY <2>1, <2>2 DEF ClerkInv
  <2> HIDE DEF order
  <2>7. place \in [Rooms -> Int] /\ OnePlaceEach(Live)
    BY <2>2 DEF PlacesInv
  <2> DEFINE O == ToSet(order)
  <2>8. /\ O = {order[i] : i \in 1 .. m} /\ O \subseteq Rooms
        /\ place' \in [Rooms -> Int]
        /\ \A i \in 1 .. m : order[i] \in Rooms /\ place'[order[i]] = i
        /\ \A d \in Rooms : d \notin O => place'[d] = place[d]
    BY <2>1, <2>3, <2>7, ResequencedFacts
  <2>9. \A d \in Rooms \ O : place[d] \notin 1 .. m
    BY <2>1, <2>3 DEF Clashes, IsListOf
  <2> HIDE DEF O
  <2>10. \A d \in O : \E i \in 1 .. m : order[i] = d /\ place'[d] = i
    BY <2>8
  <2>11. \A d \in O : place'[d] \in 1 .. m /\ place[d] # 0
    BY <2>3, <2>8
  <2>12. Live' = Live \cup O
    BY <2>7, <2>8, <2>11 DEF Live
  <2>13. OnePlaceEach(Live)'
    <3> SUFFICES ASSUME NEW d \in Live \cup O, NEW e \in Live \cup O, place'[d] = place'[e]
                 PROVE  d = e
      BY <2>8, <2>12 DEF OnePlaceEach, Live
    <3>1. d \in Rooms /\ e \in Rooms
      BY <2>8 DEF Live
    <3>2. CASE d \in O /\ e \in O
      BY <2>10, <3>2
    <3>3. CASE d \in O /\ e \notin O
      BY <2>8, <2>9, <2>11, <3>1, <3>3
    <3>4. CASE d \notin O /\ e \in O
      BY <2>8, <2>9, <2>11, <3>1, <3>4
    <3>5. CASE d \notin O /\ e \notin O
      BY <2>7, <2>8, <3>1, <3>5 DEF OnePlaceEach
    <3> QED BY <3>2, <3>3, <3>4, <3>5
  <2>14. ASSUME ~contested'
         PROVE  Live' = Live /\ Taken' = Taken /\ \E k \in Nat : Taken = 1 .. k
    <3>1. PICK k \in Nat : Taken = 1 .. k
      BY <2>5, <2>14 DEF DepartmentsInv, TiledInv
    <3>2. O \subseteq Live
      BY <2>4, <2>14 DEF O
    <3>3. m <= k /\ \A d \in O : place[d] \in 1 .. m
      BY <2>2, <2>3, <2>9, <3>1, <3>2, FirstPlaces DEF O
    <3>4. Live' = Live
      BY <2>12, <3>2
    <3>5. \A i \in 1 .. k : \E d \in Live : place[d] = i
      BY <3>1 DEF Taken
    <3>6. \A d \in Live : place[d] \in 1 .. k
      BY <3>1 DEF Taken
    <3>7. ASSUME NEW d \in Live
          PROVE  place'[d] \in 1 .. k
      <4>1. CASE d \in O
        BY <2>11, <3>3, <4>1
      <4>2. CASE d \notin O
        BY <2>8, <3>6, <4>2 DEF Live
      <4> QED BY <4>1, <4>2
    <3>8. ASSUME NEW i \in 1 .. k
          PROVE  \E d \in Live : place'[d] = i
      <4>1. CASE i \in 1 .. m
        BY <2>8, <3>2, <4>1
      <4>2. CASE i \notin 1 .. m
        <5>1. PICK d \in Live : place[d] = i
          BY <3>5
        <5>2. d \notin O /\ d \in Rooms
          BY <3>3, <4>2, <5>1 DEF Live
        <5> QED BY <2>8, <5>1, <5>2
      <4> QED BY <4>1, <4>2
    <3>9. Taken' = 1 .. k
      BY <3>4, <3>7, <3>8 DEF Taken
    <3> QED BY <3>1, <3>4, <3>9
  <2>15. \A k \in Clerks \ {c} : clerk[k].at = "create" => place'[clerk[k].room] = 0
    <3> SUFFICES ASSUME NEW k \in Clerks \ {c}, clerk[k].at = "create"
                 PROVE  place'[clerk[k].room] = 0
      OBVIOUS
    <3>1. clerk[k].room \in Rooms /\ place[clerk[k].room] = 0
      BY DEF DepartmentsInv, ClerkInv, CreateHand
    <3>2. clerk[k].room \notin O
      BY <2>11, <3>1
    <3> QED BY <2>8, <3>1, <3>2
  <2>16. \A d \in Rooms : place[d] # 0 => place'[d] # 0
    BY <2>8, <2>11
  <2>17. Respects(c, {})
    BY <2>1, <2>5, <2>8, <2>13, <2>14, <2>15, <2>16 DEF Respects, HasRuns
  <2>18. TiledInv'
    BY <2>14 DEF TiledInv
  <2>19. FrozenInv'
    BY <2>1, <2>6 DEF FrozenInv, HasRuns
  <2> QED BY <2>1, <2>17, <2>18, <2>19, OthersKept
<1> QED BY <1>1, <1>2

\* The missing sequences go to rooms that nobody holds.
LEMMA SetupWriteKept ==
  ASSUME DepartmentsInv, NEW c \in Clerks, SetupWrite(c)
  PROVE  DepartmentsInv'
<1> DEFINE M == ToSet(clerk[c].order)
<1>1. CASE Fails(c)
  BY <1>1, FailsKept
<1>2. CASE ~Fails(c)
  <2>1. /\ \A d \in Rooms : place[d] \notin M
        /\ frozen' = frozen /\ Crossing(c, {}) /\ contested' = (contested \/ clerk[c].crossed)
        /\ \E f \in [M -> Absent] :
             /\ \A i, j \in M : f[i] = f[j] => i = j
             /\ place' = [d \in Rooms |-> IF \E i \in M : f[i] = d
                                          THEN CHOOSE i \in M : f[i] = d ELSE place[d]]
    BY <1>2, Zenon DEF SetupWrite, Writes
  <2>2. PlacesInv /\ ClerkInv(c) /\ clerk[c].at = "setup" /\ IsWork(clerk[c])
    BY DEF DepartmentsInv, SetupWrite, PlacesInv
  <2>3. M \subseteq Nat \ {0} /\ IsFiniteSet(M)
    BY <2>2 DEF ClerkInv, SetupHand
  <2>4. ~contested' => \A p \in M : \A i \in 1 .. p - 1 : i \in Taken \cup M
    <3>1. clerk[c].crossed \in BOOLEAN /\ contested \in BOOLEAN
      BY <2>2 DEF IsWork, PlacesInv
    <3> QED BY <2>1, <2>2, <3>1 DEF ClerkInv, FreshWork
  <2>5. contested' \in BOOLEAN /\ (contested => contested')
    BY <2>1, <2>2 DEF IsWork, PlacesInv
  <2> HIDE DEF M
  <2>6. PICK f \in [M -> Absent] :
          /\ \A i, j \in M : f[i] = f[j] => i = j
          /\ place' = [d \in Rooms |-> IF \E i \in M : f[i] = d
                                       THEN CHOOSE i \in M : f[i] = d ELSE place[d]]
    BY <2>1
  <2> DEFINE F == {f[i] : i \in M}
  <2>7. place \in [Rooms -> Int] /\ OnePlaceEach(Live)
    BY <2>2 DEF PlacesInv
  <2>8. \A d \in F : d \in Rooms /\ place[d] = 0 /\ \A k \in Clerks : clerk[k].room # d
    BY <2>6 DEF Absent
  <2>9. ASSUME NEW i \in M
        PROVE  f[i] \in F /\ f[i] \in Rooms /\ place'[f[i]] = i
    <3>1. f[i] \in F /\ f[i] \in Rooms
      BY <2>8
    <3>2. (CHOOSE j \in M : f[j] = f[i]) = i
      BY <2>6
    <3> QED BY <2>6, <3>1, <3>2
  <2>10. \A d \in F : \E i \in M : f[i] = d /\ place'[d] = i
    BY <2>9
  <2>11. \A d \in Rooms \ F : place'[d] = place[d]
    BY <2>6
  <2> HIDE DEF F
  <2>12. place' = [d \in Rooms |-> place'[d]]
    BY <2>6
  <2>13. \A d \in F : place'[d] \in M /\ place'[d] \in Nat /\ place'[d] > 0
    BY <2>3, <2>10
  <2>14. place' \in [Rooms -> Int]
    BY <2>7, <2>11, <2>12, <2>13
  <2>15. Live' = Live \cup F
    BY <2>7, <2>8, <2>11, <2>13 DEF Live
  <2>16. \A d \in Live : d \in Rooms \ F /\ place'[d] = place[d]
    BY <2>8, <2>11 DEF Live
  <2>17. Taken' = Taken \cup M
    <3>1. \A d \in F : place'[d] \in M
      BY <2>13
    <3>2. \A i \in M : \E d \in F : place'[d] = i
      BY <2>9
    <3> QED BY <2>15, <2>16, <3>1, <3>2 DEF Taken
  <2>18. OnePlaceEach(Live)'
    <3> SUFFICES ASSUME NEW d \in Live \cup F, NEW e \in Live \cup F, place'[d] = place'[e]
                 PROVE  d = e
      BY <2>8, <2>15 DEF OnePlaceEach, Live
    <3>1. CASE d \in F /\ e \in F
      BY <2>10, <3>1
    <3>2. CASE d \in F /\ e \notin F
      BY <2>1, <2>13, <2>16, <3>2 DEF Live
    <3>3. CASE d \notin F /\ e \in F
      BY <2>1, <2>13, <2>16, <3>3 DEF Live
    <3>4. CASE d \notin F /\ e \notin F
      BY <2>7, <2>16, <3>4 DEF OnePlaceEach
    <3> QED BY <3>1, <3>2, <3>3, <3>4
  <2>19. \A k \in Clerks \ {c} : clerk[k].at = "create" => place'[clerk[k].room] = 0
    <3> SUFFICES ASSUME NEW k \in Clerks \ {c}, clerk[k].at = "create"
                 PROVE  place'[clerk[k].room] = 0
      OBVIOUS
    <3>1. clerk[k].room \in Rooms /\ place[clerk[k].room] = 0
      BY DEF DepartmentsInv, ClerkInv, CreateHand
    <3>2. clerk[k].room \notin F
      BY <2>8
    <3> QED BY <2>11, <3>1, <3>2
  <2>20. \A d \in Rooms : place[d] # 0 => place'[d] # 0
    BY <2>8, <2>11
  <2>21. Live \subseteq Live' /\ Taken \subseteq Taken'
    BY <2>15, <2>17
  <2>22. Respects(c, {})
    BY <2>1, <2>5, <2>14, <2>18, <2>19, <2>20, <2>21 DEF Respects, HasRuns
  <2>23. TiledInv'
    <3> SUFFICES ASSUME ~contested'
                 PROVE  \E k \in Nat : Taken' = 1 .. k
      BY DEF TiledInv
    <3>1. PICK k \in Nat : Taken = 1 .. k
      BY <2>5 DEF DepartmentsInv, TiledInv
    <3>2. CASE M = {}
      BY <2>17, <3>1, <3>2
    <3>3. CASE M # {}
      <4>1. M \subseteq Int
        BY <2>3
      <4>2. Bounded(M)
        BY <2>3, <4>1, HasBounds
      <4>3. PICK n \in M : \A p \in M : n >= p
        BY <3>3, <4>2 DEF Bounded
      <4>4. n \in Nat /\ n > 0 /\ \A i \in 1 .. n - 1 : i \in Taken \cup M
        BY <2>3, <2>4, <4>3
      <4>5. \A i \in 1 .. n : i \in Taken'
        BY <2>17, <4>3, <4>4
      <4>6. CASE n <= k
        <5>1. \A p \in M : p \in 1 .. k
          BY <2>3, <4>3, <4>6
        <5>2. Taken' = 1 .. k
          BY <2>17, <3>1, <5>1
        <5> QED BY <5>2
      <4>7. CASE ~ n <= k
        <5>1. \A i \in Taken' : i \in 1 .. n
          <6>1. \A p \in M : p \in 1 .. n
            BY <2>3, <4>3
          <6>2. \A i \in 1 .. k : i \in 1 .. n
            BY <4>4, <4>7
          <6> QED BY <2>17, <3>1, <6>1, <6>2
        <5>2. Taken' = 1 .. n
          BY <4>5, <5>1
        <5> QED BY <4>4, <5>2
      <4> QED BY <4>6, <4>7
    <3> QED BY <3>2, <3>3
  <2>24. FrozenInv'
    <3> SUFFICES ASSUME HasRuns, ~contested'
                 PROVE  \E m \in Nat : frozen \in [1 .. m -> Rooms] /\ \A i \in 1 .. m : place'[frozen[i]] = i
      BY <2>1 DEF FrozenInv, HasRuns
    <3>1. PICK m \in Nat : frozen \in [1 .. m -> Rooms] /\ \A i \in 1 .. m : place[frozen[i]] = i
      BY <2>5 DEF DepartmentsInv, FrozenInv
    <3>2. \A i \in 1 .. m : frozen[i] \in Rooms \ F
      BY <2>8, <3>1
    <3> QED BY <2>11, <3>1, <3>2
  <2> QED BY <2>1, <2>22, <2>23, <2>24, OthersKept
<1> QED BY <1>1, <1>2

\* The calculation finds every room at its place, and crosses who had looked before it.
LEMMA FirstRunKept ==
  ASSUME DepartmentsInv, FirstRun
  PROVE  DepartmentsInv'
<1> DEFINE steps == {"remove", "reorder"}
<1>1. /\ ~HasRuns /\ frozen' = Chain /\ Crossing("nobody", steps) /\ place' = place /\ contested' = contested
  BY DEF FirstRun
<1>2. PlacesInv /\ place \in [Rooms -> Int] /\ OnePlaceEach(Live) /\ contested \in BOOLEAN
  BY DEF DepartmentsInv, PlacesInv
<1>3. Live' = Live /\ Taken' = Taken
  BY <1>1 DEF Live, Taken
<1>4. OnePlaceEach(Live)'
  BY <1>1, <1>2, <1>3 DEF OnePlaceEach
<1>5. \A k \in Clerks : clerk[k].at = "create" => place'[clerk[k].room] = 0
  BY <1>1 DEF DepartmentsInv, ClerkInv, CreateHand
<1> HIDE DEF steps
<1>6. Respects("nobody", steps)
  BY <1>1, <1>2, <1>3, <1>4, <1>5 DEF Respects, steps
<1>7. TiledInv'
  BY <1>1, <1>3 DEF DepartmentsInv, TiledInv
<1>8. FrozenInv'
  <2> SUFFICES ASSUME ~contested
               PROVE  \E m \in Nat : Chain \in [1 .. m -> Rooms] /\ \A i \in 1 .. m : place[Chain[i]] = i
    BY <1>1 DEF FrozenInv
  <2>1. PICK k \in Nat : Taken = 1 .. k
    BY DEF DepartmentsInv, TiledInv
  <2>2. /\ Cardinality(Live) = k
        /\ \A d \in Live : place[d] \in 1 .. k /\ InOrder(Live)[place[d]] = d
    BY <1>2, <2>1, LiveFacts, OrderOfTiled
  <2>3. InOrder(Live) \in [1 .. k -> Live] /\ \A i, j \in 1 .. k : InOrder(Live)[i] = InOrder(Live)[j] => i = j
    BY <1>2, <2>2, LiveFacts, OrderFacts
  <2>4. \A i \in 1 .. k : InOrder(Live)[i] \in Live /\ place[InOrder(Live)[i]] = i
    BY <2>2, <2>3
  <2>5. InOrder(Live) \in [1 .. k -> Rooms]
    BY <2>3 DEF Live
  <2> QED BY <2>4, <2>5 DEF Chain
<1> QED BY <1>1, <1>6, <1>7, <1>8, OthersKept

LEMMA DepartmentsStart == DepartmentsInit => DepartmentsInv
<1> SUFFICES ASSUME DepartmentsInit
             PROVE  DepartmentsInv
  OBVIOUS
<1>1. IsWork(NoWork) /\ NoWork.at = "idle"
  BY DEF IsWork, NoWork, Work
<1>2. place = [d \in Rooms |-> 0] /\ frozen = << >> /\ clerk = [c \in Clerks |-> NoWork] /\ contested = FALSE
  BY DEF DepartmentsInit
<1>3. Live = {}
  BY <1>2 DEF Live
<1>4. Taken = {}
  BY <1>3 DEF Taken
<1>5. PlacesInv
  <2>1. clerk = [c \in Clerks |-> clerk[c]] /\ \A c \in Clerks : clerk[c] = NoWork
    BY <1>2
  <2>2. OnePlaceEach(Live)
    BY <1>3 DEF OnePlaceEach
  <2>3. place \in [Rooms -> Int]
    BY <1>2
  <2>4. contested \in BOOLEAN
    BY <1>2
  <2> QED BY <1>1, <2>1, <2>2, <2>3, <2>4 DEF PlacesInv
<1>6. TiledInv
  <2>1. Taken = 1 .. 0 /\ 0 \in Nat
    BY <1>4
  <2> QED BY <2>1 DEF TiledInv
<1>7. FrozenInv /\ ~HasRuns
  BY <1>2 DEF FrozenInv, HasRuns
<1>8. \A c \in Clerks : ClerkInv(c)
  BY <1>1, <1>2, <1>7 DEF ClerkInv, CreateHand, RemoveHand, SetupHand, ReorderHand, FreshWork
<1> QED BY <1>5, <1>6, <1>7, <1>8 DEF DepartmentsInv

LEMMA DepartmentsStep == DepartmentsInv /\ [DepartmentsNext]_departmentsVars => DepartmentsInv'
<1> SUFFICES ASSUME DepartmentsInv, [DepartmentsNext]_departmentsVars
             PROVE  DepartmentsInv'
  OBVIOUS
<1>1. CASE FirstRun
  BY <1>1, FirstRunKept
<1>2. ASSUME NEW c \in Clerks, NEW d \in Rooms, CreateRead(c, d) \/ RemoveRead(c, d)
      PROVE  DepartmentsInv'
  BY <1>2, CreateReadKept, RemoveReadKept
<1>3. ASSUME NEW c \in Clerks, NEW order \in SetToSeqs(Live), ReorderRead(c, order)
      PROVE  DepartmentsInv'
  BY <1>3, ReorderReadKept
<1>4. ASSUME NEW c \in Clerks, NEW n \in Places, SetupRead(c, n)
      PROVE  DepartmentsInv'
  BY <1>4, SetupReadKept
<1>5. ASSUME NEW c \in Clerks, CreateWrite(c) \/ RemoveWrite(c) \/ ReorderWrite(c) \/ SetupWrite(c)
      PROVE  DepartmentsInv'
  BY <1>5, CreateWriteKept, RemoveWriteKept, ReorderWriteKept, SetupWriteKept
<1>6. CASE UNCHANGED departmentsVars
  <2>1. place' = place /\ frozen' = frozen /\ clerk' = clerk /\ contested' = contested
    BY <1>6 DEF departmentsVars
  <2>2. Live' = Live /\ Taken' = Taken
    BY <2>1 DEF Live, Taken
  <2>3. PlacesInv' /\ TiledInv' /\ FrozenInv'
    BY <2>1, <2>2 DEF DepartmentsInv, PlacesInv, OnePlaceEach, TiledInv, FrozenInv, HasRuns
  <2>4. ASSUME NEW c \in Clerks
        PROVE  ClerkInv(c)'
    <3>1. ClerkInv(c)
      BY DEF DepartmentsInv
    <3> QED BY <2>1, <2>2, <3>1
            DEF ClerkInv, CreateHand, RemoveHand, SetupHand, ReorderHand, IsListOf, FreshWork, HasRuns, ToSet
  <2> QED BY <2>3, <2>4 DEF DepartmentsInv
<1> QED BY <1>1, <1>2, <1>3, <1>4, <1>5, <1>6 DEF DepartmentsNext

\* The chain stands (process-department-service.ts, process-setup-service.ts): through
\* creations, removals, reorderings and setups of which none crossed another, the places
\* are 1, 2, 3 and so on without a hole or a repetition, and the order the first
\* calculation saw stays the beginning of the chain.
THEOREM ChainIsKept == DepartmentsSpec => []ChainStands
<1>1. DepartmentsInit => DepartmentsInv
  BY DepartmentsStart
<1>2. DepartmentsInv /\ [DepartmentsNext]_departmentsVars => DepartmentsInv'
  BY DepartmentsStep
<1>3. DepartmentsInv => ChainStands
  BY ChainFollows
<1> QED BY <1>1, <1>2, <1>3, PTL DEF DepartmentsSpec
==============================================================================
