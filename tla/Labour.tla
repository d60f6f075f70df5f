------------------------------- MODULE Labour -------------------------------
(***************************************************************************)
(* The direct labour of a structure of the ORDERS system: the section that *)
(* a person saves and that documents complete                              *)
(* (cost-structure-populator.ts: populateDirectLabor), and the engine that *)
(* works the cost out of it (direct-labor.ts).                             *)
(*                                                                         *)
(* A document merges into the section it read, and writes it whole later:  *)
(* a document that is crossed by another writer undoes what that one did.  *)
(* Names are what normalizeChargeName leaves of them.  The days of a year  *)
(* are three amounts here: all, unpaid and paid.                           *)
(***************************************************************************)
EXTENDS Fractions, FiniteSets, SequencesExt

CONSTANTS
  Catalogue,     \* function: kind of each charge, "remunerative", "nonRemunerative" or "unknown"
  Iap,           \* the names that begin with iap, which the engine works out by itself
  LabourForms,   \* sections a person may save: [days, base, art, rem, non, depts]
  LabourPapers,  \* what documents say: [days, base, art, charges, depts], charges a sequence
                 \* of [name, coefficient, hint], coefficients as fractions, depts one of
                 \* [name, basic, hours]
  Readers        \* documents being applied at once

IsList(list) == list \in Seq(ToSet(list))

\* What directLaborConfigSchema lets through; the highest values are left out.
IsWage(d) ==
  /\ IsAmount(d.basic) /\ IsAmount(d.hours) /\ IsOptional(d.productive) /\ IsOptional(d.standard)
  /\ IsList(d.lost) /\ \A j \in DOMAIN d.lost : IsAmount(d.lost[j])
AreCharges(list) == IsList(list) /\ \A i \in DOMAIN list : IsAmount(list[i].coefficient)
IsParsed(sec) ==
  /\ IsFraction(sec.days.all) /\ IsPositive(sec.days.all)
  /\ IsFraction(sec.days.unpaid) /\ IsAmount(sec.days.paid)
  /\ IsAmount(sec.base) /\ IsAmount(sec.art) /\ AreCharges(sec.rem) /\ AreCharges(sec.non)
  /\ IsList(sec.depts) /\ \A i \in DOMAIN sec.depts : IsWage(sec.depts[i])

ASSUME LabourAssumption ==
  /\ \A form \in LabourForms : IsParsed(form)
  /\ \A paper \in LabourPapers : IsList(paper.charges)

VARIABLES
  section,   \* directLaborConfig
  reader,    \* locals of the documents in flight: the section they are going to write
  placed,    \* history: charges that a document put in a list, and nobody saved since
  undone,    \* history: a document wrote over what another writer had done
  paid       \* the result of the engine for this very section, once it has run

labourVars == <<section, reader, placed, undone, paid>>

NotPaid   == [done |-> FALSE]
NotReading == [busy |-> FALSE]
NoSection == [days |-> [all |-> Zero, unpaid |-> Zero, paid |-> Zero],
              base |-> Fraction(27, 100), art |-> Fraction(3, 200),
              rem |-> << >>, non |-> << >>, depts |-> << >>]

LabourInit ==
  /\ section = NoSection
  /\ reader = [k \in Readers |-> NotReading]
  /\ placed = {}
  /\ undone = FALSE
  /\ paid = NotPaid

-----------------------------------------------------------------------------
(* populateDirectLabor.                                                      *)

Names(list) == {list[i].name : i \in DOMAIN list}
IfBlank(old, new) == IF old = Zero THEN Default(new, Zero) ELSE old

\* The catalogue first, then the hint, then the one that costs less.
KindOf(charge) == IF Catalogue[charge.name] # "unknown" THEN Catalogue[charge.name]
                  ELSE IF charge.hint # "none" THEN charge.hint ELSE "nonRemunerative"

\* find: the first of that name.
Find(list, name) ==
  CHOOSE k \in DOMAIN list : list[k].name = name /\ \A l \in 1 .. k - 1 : list[l].name # name

Charge(name, coefficient) == [name |-> name, coefficient |-> coefficient]

\* Completes a coefficient of nothing in its list, and adds what is in neither.
Merged(target, other, charge) ==
  IF charge.name \in Names(target)
  THEN LET i == Find(target, charge.name)
       IN [target EXCEPT ![i] = Charge(charge.name, IfBlank(target[i].coefficient, charge.coefficient))]
  ELSE IF charge.name \in Names(other) THEN target
  ELSE Append(target, Charge(charge.name, charge.coefficient))

\* Mutant: the two lists are looked at one by one.
WithChargeOneList(lists, charge) ==
  IF charge.name \in Iap THEN lists
  ELSE IF KindOf(charge) = "remunerative"
       THEN [rem |-> Merged(lists.rem, << >>, charge), non |-> lists.non]
       ELSE [rem |-> lists.rem, non |-> Merged(lists.non, << >>, charge)]

WithCharge(lists, charge) ==
  IF charge.name \in Iap THEN lists
  ELSE IF KindOf(charge) = "remunerative"
       THEN [rem |-> Merged(lists.rem, lists.non, charge), non |-> lists.non]
       ELSE [rem |-> lists.rem, non |-> Merged(lists.non, lists.rem, charge)]

WithCharges(lists, charges) ==
  LET after[n \in 0 .. Len(charges)] ==
        IF n = 0 THEN lists ELSE WithCharge(after[n - 1], charges[n])
  IN after[Len(charges)]

WithDept(depts, dept) ==
  IF dept.name \notin Names(depts)
  THEN Append(depts, [name |-> dept.name, basic |-> Default(dept.basic, Zero),
                      hours |-> Default(dept.hours, Zero), productive |-> NoData,
                      standard |-> NoData, lost |-> << >>])
  ELSE LET i == Find(depts, dept.name)
       IN [depts EXCEPT ![i].basic = IfBlank(@, dept.basic), ![i].hours = IfBlank(@, dept.hours)]

WithDepts(depts, papers) == FoldLeft(WithDept, depts, papers)

\* Days of the calendar and of rest are completed; the rest of the absences, and the two
\* rates, are written over.
Populated(sec, paper) ==
  LET lists == WithCharges([rem |-> sec.rem, non |-> sec.non], paper.charges)
  IN [days |-> [all |-> IfBlank(sec.days.all, paper.days.all),
                unpaid |-> IfBlank(sec.days.unpaid, paper.days.unpaid),
                paid |-> Default(paper.days.paid, sec.days.paid)],
      base |-> Default(paper.base, sec.base), art |-> Default(paper.art, sec.art),
      rem |-> lists.rem, non |-> lists.non, depts |-> WithDepts(sec.depts, paper.depts)]

-----------------------------------------------------------------------------
(* calcWorkingDays, calcITCS.                                                *)

Worked(days) == Minus(Minus(days.all, days.unpaid), days.paid)
IapOf(days)  == IF IsPositive(Worked(days)) THEN Over(days.paid, Worked(days)) ELSE Zero
Sac == Fraction(1, 12)

SumOfCoefficients(list, out) ==
  SumOver([i \in DOMAIN list |-> IF list[i].name \in out THEN Zero ELSE list[i].coefficient],
          DOMAIN list)

\* What a remunerative charge brings with it, for each unit of it.
Derived(sec) == Plus(Plus(sec.base, Sac), Times(sec.base, Sac))

Itcs(sec) ==
  LET certain == Plus(Plus(sec.base, sec.art), Plus(Sac, Times(sec.base, Sac)))
      uncertain == Plus(IapOf(sec.days), SumOfCoefficients(sec.rem, Iap))
  IN Plus(Plus(certain, uncertain),
          Plus(SumOfCoefficients(sec.non, {}), Times(uncertain, Derived(sec))))

-----------------------------------------------------------------------------
(* calcDepartmentMod, splitLostTimeReasons and calcDirectLabor.              *)

Lowest(x, y) == IF AtMost(x, y) THEN x ELSE y

\* One reason more, as far as the hours that are left go.
Explained(s, h) ==
  IF IsPositive(s.left) /\ IsPositive(h)
  THEN [left |-> Minus(s.left, Lowest(h, s.left)), rows |-> Append(s.rows, Lowest(h, s.left))]
  ELSE s

\* The reasons, and what they leave without one.
LostTime(reasons, hours) ==
  LET cut[n \in 0 .. Len(reasons)] ==
        IF n = 0 THEN [left |-> hours, rows |-> << >>] ELSE Explained(cut[n - 1], reasons[n])
      last == cut[Len(reasons)]
  IN IF last.rows # << >> /\ IsPositive(last.left) THEN Append(last.rows, last.left) ELSE last.rows

\* Mutant: idle hours are valued by the hours that were productive.
IdleCostOfProductive(d, total, h) ==
  IF Given(d.productive) /\ IsPositive(d.productive) THEN Times(total, Over(h, d.productive)) ELSE Zero

IdleCost(d, total, h) == IF IsPositive(d.hours) THEN Times(total, Over(h, d.hours)) ELSE Zero

DeptOf(d, index) ==
  LET total      == Plus(d.basic, Times(d.basic, index))
      productive == IF Given(d.productive) THEN Lowest(d.productive, d.hours) ELSE d.hours
      informed   == Minus(d.hours, productive)
      hidden     == IF Given(d.standard) THEN Minus(productive, Lowest(d.standard, productive)) ELSE Zero
      idle       == IdleCost(d, total, Plus(informed, hidden))
      chargeable == Minus(Minus(d.hours, informed), hidden)
      applicable == Minus(total, idle)
  IN [total |-> total, informed |-> informed, informedCost |-> IdleCost(d, total, informed),
      hiddenCost |-> Minus(idle, IdleCost(d, total, informed)), applicable |-> applicable,
      chargeable |-> chargeable, reasons |-> LostTime(d.lost, informed),
      rate |-> IF IsPositive(chargeable) THEN Over(applicable, chargeable) ELSE Zero]

LabourResult ==
  LET index == Itcs(section)
      depts == [i \in DOMAIN section.depts |-> DeptOf(section.depts[i], index)]
  IN [done |-> TRUE, itcs |-> index, depts |-> depts]

-----------------------------------------------------------------------------
(* Writers.                                                                  *)

\* What the others in flight had read no longer holds.
Overtakes(k) == reader' = [j \in Readers |->
                  IF j = k THEN NotReading
                  ELSE IF reader[j].busy THEN [reader[j] EXCEPT !.crossed = TRUE] ELSE reader[j]]

\* updateConfig, section directLabor.
SaveLabour(form) ==
  /\ section' = form
  /\ placed' = {}
  /\ paid' = NotPaid
  /\ Overtakes("nobody")
  /\ UNCHANGED undone

PopulateRead(k, paper) ==
  /\ ~reader[k].busy
  /\ reader' = [reader EXCEPT ![k] = [busy |-> TRUE, next |-> Populated(section, paper), crossed |-> FALSE,
                  adds |-> {c.name : c \in ToSet(paper.charges)}
                           \ (Names(section.rem) \union Names(section.non) \union Iap)]]
  /\ UNCHANGED <<section, placed, undone, paid>>

PopulateWrite(k) ==
  /\ reader[k].busy
  /\ section' = reader[k].next
  /\ placed' = placed \union reader[k].adds
  /\ undone' = (undone \/ reader[k].crossed)
  /\ paid' = NotPaid
  /\ Overtakes(k)

\* The process dies between the two.
PopulateDies(k) ==
  /\ reader[k].busy
  /\ reader' = [reader EXCEPT ![k] = NotReading]
  /\ UNCHANGED <<section, placed, undone, paid>>

\* The section is parsed on the way to the engine: a run stops at what the schema refuses.
CalculateLabour ==
  /\ ~paid.done
  /\ IsParsed(section)
  /\ paid' = LabourResult
  /\ UNCHANGED <<section, reader, placed, undone>>

LabourNext ==
  \/ \E form \in LabourForms : SaveLabour(form)
  \/ \E k \in Readers :
       \/ \E paper \in LabourPapers : PopulateRead(k, paper)
       \/ PopulateWrite(k) \/ PopulateDies(k)
  \/ CalculateLabour

LabourSpec == LabourInit /\ [][LabourNext]_labourVars

-----------------------------------------------------------------------------
(* Properties.                                                               *)

\* A charge that came with documents alone, however many named it and with whatever hint,
\* is in one list and once, the one of the catalogue where it knows the charge: nothing
\* derives from a charge that is not remunerative.  Unless a document undid another.
ChargesFollowTheCatalogue ==
  ~undone => \A name \in placed :
    LET in(list) == Cardinality({i \in DOMAIN list : list[i].name = name})
    IN /\ in(section.rem) + in(section.non) = 1
       /\ Catalogue[name] = "remunerative" => in(section.rem) = 1
       /\ Catalogue[name] = "nonRemunerative" => in(section.non) = 1

\* Of what each department was paid, with its charges, the orders and the loss of the
\* period bear the whole: the idle time goes by type and by reason without a rest, and
\* idleness does not make the hour dearer.
PaidLabourIsBorne ==
  paid.done =>
    \A i \in DOMAIN paid.depts :
       LET d == paid.depts[i]
           s == section.depts[i]
       IN   /\ Plus(d.applicable, Plus(d.informedCost, d.hiddenCost))
                 = Plus(s.basic, Times(s.basic, paid.itcs))
            /\ ~IsNegative(d.applicable) /\ ~IsNegative(d.informedCost) /\ ~IsNegative(d.hiddenCost)
            /\ d.reasons # << >> =>
                 SumOver(d.reasons, DOMAIN d.reasons) = d.informed
            /\ IsPositive(d.chargeable) => d.rate = Over(d.total, s.hours)
=============================================================================
