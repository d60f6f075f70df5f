---------------------------- MODULE ProcessChain ----------------------------
(***************************************************************************)
(* The months of a structure of the PROCESSES system: the sheets of units  *)
(* that people save (unit-movement-service.ts), the opening of a month     *)
(* with what the one before left in process, and the propagation of a      *)
(* correction through the months that follow                               *)
(* (cost-period-propagation-service.ts).                                   *)
(*                                                                         *)
(* Requests overlap.  A save reads the units that open the sheet, checks   *)
(* it, and only then begins the transaction that writes; an opening works  *)
(* out what is carried, and then begins its own; the propagation has none: *)
(* month by month it reads what one leaves, and writes it department by    *)
(* department.  Each of these reads is one step, and so is each write.     *)
(***************************************************************************)
EXTENDS ProcessSheet

CONSTANTS
  Writers,    \* requests that may be in flight
  Forms,      \* for each department, the forms that may be sent
  MaxMonths   \* bound on the months

\* What a request may say of a department (zod): each of these amounts, or nothing of it.
FormFields == {"ei", "started", "received", "increase", "out", "stock", "lossPct", "totalLoss",
               "ef", "avMp", "avConv", "cMp", "cMo", "cCif", "iMp", "iMo", "iCif"}
IsForm(form) == DOMAIN form = FormFields /\ \A f \in FormFields : IsOptional(form[f])

\* Chains as the setup takes them: a department or more, and factors that are positive.
ASSUME ProcessChainAssumption ==
  /\ MaxMonths \in Nat /\ Grid \in Nat \ {0}
  /\ Unified \in Seq(BOOLEAN) /\ Unified # << >>
  /\ DOMAIN Factor = Depts /\ DOMAIN Forms = Depts
  /\ \A d \in Depts : /\ IsFraction(Factor[d]) /\ IsPositive(Factor[d])
                      /\ \A form \in Forms[d] : IsForm(form)

Months == 1 .. MaxMonths

VARIABLES
  sheet,    \* unit_movement_schedules, by month and department
  opened,   \* the last month that is open or has been
  req,      \* locals of the requests in flight
  settled   \* history: the month was carried whole into the next one, and since the carry
            \* was read nothing wrote on the month, nor anything else on what opens the next

chainVars == <<sheet, opened, req, settled>>

NoSheet   == [exists |-> FALSE]
IsSheet(m, d) == sheet[m][d].exists
Idle      == [at |-> "idle"]

ProcessChainInit ==
  /\ sheet = [m \in Months |-> [d \in Depts |-> NoSheet]]
  /\ opened = 1
  /\ req = [r \in Writers |-> Idle]
  /\ settled = [m \in Months |-> FALSE]

-----------------------------------------------------------------------------
(* What a write makes of the others.  A request in flight is stale when    *)
(* what it will write, or has begun to, is not what it would be if it read *)
(* again: of a save, the units that open its sheet; of an opening or a     *)
(* propagation, what the month it carries leaves.  A save that sends what  *)
(* opens the month is so from the start.                                   *)

Outdates(r, m, d, q) ==
  \/ /\ req[q].at = "save" /\ req[q].m = m /\ req[q].d = d
     /\ req[r].at = "write" \/ req[r].stale
  \/ req[q].at \in {"open", "write"} /\ req[q].m = m
  \/ req[q].at = "write" /\ req[q].m + 1 = m /\ req[r].stale

Outdated(r, m, d) ==
  [q \in Writers |-> IF Outdates(r, m, d, q) THEN [req[q] EXCEPT !.stale = TRUE] ELSE req[q]]

\* The months whose carry a write of r in month m leaves as it was.
StillSettled(r, m) == [n \in Months |-> settled[n] /\ n # m /\ ~(n + 1 = m /\ req[r].stale)]

\* A request that ends, refused or not, or whose process dies: what it wrote remains.
RequestEnds(r) ==
  /\ req[r] # Idle
  /\ req' = [req EXCEPT ![r] = Idle]
  /\ UNCHANGED <<sheet, opened, settled>>

-----------------------------------------------------------------------------
(* save.                                                                     *)

\* The row of a department before anybody writes to it.
Blank == [exists |-> TRUE, ei |-> Zero, started |-> NoData, received |-> NoData,
          increase |-> NoData, out |-> NoData, stock |-> Zero, lossPct |-> NoData,
          normal |-> Zero, totalLoss |-> NoData, ef |-> NoData, avMp |-> NoData,
          avConv |-> NoData, cMp |-> Zero, cMo |-> Zero, cCif |-> Zero,
          iMp |-> Zero, iMo |-> Zero, iCif |-> Zero, iPrev |-> Zero]

\* The row as it is in the table, or as it will be created.
Row(m, d) == IF IsSheet(m, d) THEN sheet[m][d] ELSE Blank

\* Mutant: the units that the form does not send are none.
WithoutOpening(form, row) == form

\* The units that open the month are not of this form: it keeps what it does not send.
WithOpening(form, row) == [form EXCEPT !.ei = Default(form.ei, row.ei)]

\* A number in its column, or nothing there.
Column(x) == IF Given(x) THEN Stored(x, Grid) ELSE NoData
\* An amount that is not sent stays.
Sent(x, kept) == IF Given(x) THEN Stored(x, Grid) ELSE kept

\* Units as they were resolved, what the form says of the rest, and the amounts it
\* sends: the other amounts stay.
SavedRow(d, form, row) ==
  LET s == Schedule(d, form)
  IN [row EXCEPT !.ei = Column(s.ei), !.started = IF d = 1 THEN Column(s.period) ELSE Zero,
        !.received = Column(s.received), !.increase = Column(s.increase),
        !.out = Column(s.out), !.stock = Column(s.stock), !.lossPct = Column(form.lossPct),
        !.normal = Column(s.normal), !.totalLoss = Column(form.totalLoss),
        !.ef = Column(s.ef), !.avMp = Column(form.avMp), !.avConv = Column(form.avConv),
        !.cMp = Sent(form.cMp, @), !.cMo = Sent(form.cMo, @),
        !.cCif = Sent(form.cCif, @), !.iMp = Sent(form.iMp, @),
        !.iMo = Sent(form.iMo, @), !.iCif = Sent(form.iCif, @)]

SendsOpening(form) == \E x \in {form.ei, form.iMp, form.iMo, form.iCif} : Given(x)

\* Any month, closed or not: nothing asks for its state.
SaveRead(r, m, d, form) ==
  /\ req[r] = Idle /\ m <= opened
  /\ LET full == WithOpening(form, Row(m, d))
     IN /\ ~ImpossibleSchedule(d, full)
        /\ req' = [req EXCEPT ![r] = [at |-> "save", m |-> m, d |-> d, form |-> full,
                                      stale |-> SendsOpening(form)]]
  /\ UNCHANGED <<sheet, opened, settled>>

SaveWrite(r) ==
  /\ req[r].at = "save"
  /\ LET m == req[r].m
         d == req[r].d
     IN /\ sheet' = [sheet EXCEPT ![m][d] = SavedRow(d, req[r].form, Row(m, d))]
        /\ settled' = StillSettled(r, m)
        /\ req' = [Outdated(r, m, d) EXCEPT ![r] = Idle]
  /\ UNCHANGED opened

-----------------------------------------------------------------------------
(* processWipCarryOver.                                                      *)

HasSheets(m)  == \E d \in Depts : IsSheet(m, d)
\* A department without a sheet is one of the refusals of the checks.
HasReport(m)  == /\ \A d \in Depts : IsSheet(m, d)
                 /\ Calculates(sheet[m])

\* One column of conversion is parted in two as its cost was in the month.
Carried(d, row, report) ==
  LET mo   == Plus(row.iMo, row.cMo)
      base == Plus(mo, Plus(row.iCif, row.cCif))
      part == IF IsPositive(base) THEN Over(mo, base) ELSE One
  IN [ei |-> report.schedule.ef, iMp |-> report.efs["MP"],
      iMo |-> IF Unified[d] THEN Times(report.efs["CC"], part) ELSE report.efs["MOD"],
      iCif |-> IF Unified[d] THEN Minus(report.efs["CC"], Times(report.efs["CC"], part))
               ELSE report.efs["CIP"],
      iPrev |-> IF d = 1 THEN Zero ELSE report.efPrevious]

\* What a month leaves in process, department by department.
CarryOf(rows) == LET report == Run(rows) IN [d \in Depts |-> Carried(d, rows[d], report[d])]

Receives(row, c) ==
  [row EXCEPT !.ei = Column(c.ei), !.iMp = Column(c.iMp), !.iMo = Column(c.iMo),
              !.iCif = Column(c.iCif), !.iPrev = Column(c.iPrev)]

\* openNext: of a month without sheets nothing is carried; one that does not
\* calculate stops the opening.
OpenNextRead(r) ==
  /\ req[r] = Idle /\ opened < MaxMonths
  /\ HasSheets(opened) => HasReport(opened)
  /\ req' = [req EXCEPT ![r] = [at |-> "open", m |-> opened, stale |-> FALSE,
                  carry |-> IF HasSheets(opened) THEN CarryOf(sheet[opened]) ELSE << >>]]
  /\ UNCHANGED <<sheet, opened, settled>>

\* The code of the new month is not taken: nobody opened it meanwhile.
OpenNextCommit(r) ==
  /\ req[r].at = "open" /\ req[r].m = opened
  /\ opened' = opened + 1
  /\ IF req[r].carry = << >> THEN UNCHANGED <<sheet, settled>>
     ELSE /\ sheet' = [sheet EXCEPT ![opened + 1] =
                          [d \in Depts |-> Receives(Blank, req[r].carry[d])]]
          /\ settled' = [settled EXCEPT ![opened] = ~req[r].stale]
  /\ req' = [req EXCEPT ![r] = Idle]

\* repropagateForward, of a month that was reopened: the months after it as they are now.
Repropagate(r, m) ==
  /\ req[r] = Idle /\ m < opened
  /\ req' = [req EXCEPT ![r] = [at |-> "walk", m |-> m, upto |-> opened]]
  /\ UNCHANGED <<sheet, opened, settled>>

WalkRead(r) ==
  /\ req[r].at = "walk"
  /\ HasReport(req[r].m)
  /\ req' = [req EXCEPT ![r] = [at |-> "write", m |-> req[r].m, upto |-> req[r].upto, d |-> 1,
                                carry |-> CarryOf(sheet[req[r].m]), stale |-> FALSE]]
  /\ UNCHANGED <<sheet, opened, settled>>

\* What the propagation does after it wrote the sheet of a department.
NextOf(w) ==
  CASE w.d < Len(Unified)                           -> [w EXCEPT !.d = @ + 1]
    [] w.d = Len(Unified) /\ w.m + 1 < w.upto -> [at |-> "walk", m |-> w.m + 1, upto |-> w.upto]
    [] OTHER                                        -> Idle

\* The upsert of one department, a statement of its own.
WalkWrite(r) ==
  /\ req[r].at = "write"
  /\ LET m == req[r].m + 1
         d == req[r].d
     IN /\ sheet' = [sheet EXCEPT ![m][d] = Receives(Row(m, d), req[r].carry[d])]
        /\ settled' = [StillSettled(r, m) EXCEPT ![m - 1] =
                          @ \/ (d = Len(Unified) /\ ~req[r].stale)]
        /\ req' = [Outdated(r, m, d) EXCEPT ![r] = NextOf(req[r])]
  /\ UNCHANGED opened

ProcessChainNext ==
  \E r \in Writers :
    \/ \E m \in Months, d \in Depts : \E form \in Forms[d] : SaveRead(r, m, d, form)
    \/ SaveWrite(r)
    \/ OpenNextRead(r)
    \/ OpenNextCommit(r)
    \/ \E m \in Months : Repropagate(r, m)
    \/ WalkRead(r)
    \/ WalkWrite(r)
    \/ RequestEnds(r)

ProcessChainSpec == ProcessChainInit /\ [][ProcessChainNext]_chainVars

-----------------------------------------------------------------------------
(* Properties.                                                               *)

AllDepts(F(_)) == SumOver([d \in Depts |-> F(d)], Depts)

\* What a month is charged with: what was in process when it began and its own costs.
OpeningMoney(u) == Plus(Plus(u.iMp, Plus(u.iMo, u.iCif)), u.iPrev)
PeriodMoney(u)  == Plus(u.cMp, Plus(u.cMo, u.cCif))

\* Units taken out of the opening by a form, while the money they brought stays: the
\* one way the cost of the department before is lost.
Orphaned(u) == IsPositive(u.iPrev) /\ ~IsPositive(u.ei)

\* The cost of the units that may differ from what the department before passed.
Slack(d, report) ==
  IF d = 1 THEN Zero ELSE Times(Unnoticed, InOwnUnits(d, report[d - 1].unit))

\* The check of validateProcessInputs that no money evaporates between departments,
\* and the hard assertion of the report: what opens a month and what it costs is all
\* in the product, in stock, in the extraordinary losses or in process at its end, but
\* for the units whose difference is not noticed; and this is worth the same element by
\* element, whatever the losses, increases, conversions and degrees of progress.
MonthConserves ==
  \A m \in Months : (\A d \in Depts : IsSheet(m, d) /\ ~Orphaned(sheet[m][d])) =>
    LET report == Run(sheet[m])
        In(d)  == Plus(OpeningMoney(sheet[m][d]), PeriodMoney(sheet[m][d]))
        Rest(d) == Plus(Plus(report[d].stock, report[d].extra), report[d].ef)
        Lacks(d) == Slack(d, report)
    IN IsReport(sheet[m], report) =>
         /\ Near(AllDepts(In), Plus(AllDepts(Rest), report[Len(Unified)].out), AllDepts(Lacks))
         /\ \A d \in Depts : report[d].ef = report[d].efByElement

\* A month begins with the units and with the money that the one before closed with,
\* each of its four amounts to half a digit of its column, through any saves, openings
\* and propagations that overlap, unless something wrote on the one before, or a form or
\* a stale request on what opens it, since that was read.
OpensAsItClosed ==
  \A m \in Months : settled[m] =>
    LET closed == Run(sheet[m])
        next   == sheet[m + 1]
    IN \A d \in Depts : /\ next[d].ei = closed[d].schedule.ef
                        /\ Near(OpeningMoney(next[d]), closed[d].ef, Fraction(2, Grid))

\* The money of the chain is conserved, within each month and from one to the next.
MoneyIsConserved == MonthConserves /\ OpensAsItClosed
=============================================================================
