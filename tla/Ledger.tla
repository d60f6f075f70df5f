------------------------------- MODULE Ledger -------------------------------
(***************************************************************************)
(* What a document puts in the ledger of costs and what it says of the     *)
(* condition of its company before the tax on value added:                 *)
(* ledger-builder.ts, condicion-iva-signal.ts, their part of review        *)
(* (validaciones-service.ts), validaciones-ledger-service.ts and the edit  *)
(* of a company (company-service.ts).                                      *)
(*                                                                         *)
(* A bill is a record: its true net amount and tax, which of the three     *)
(* amounts the extraction read, its month (0 is not legible), and the      *)
(* conditions that the note of the model and its own text mention.         *)
(***************************************************************************)
EXTENDS Integers, Sequences, FiniteSets, FiniteSetsExt

CONSTANTS
  Bills,       \* bills that may be approved
  Bill,        \* the content of each
  Costists,    \* requests in flight
  Booked,      \* months that have a structure of costs
  ThisMonth,   \* the month of today
  MaxAmount,   \* the column has fourteen digits before the point
  MaxLines     \* bound on the lines

Conditions == {"RESPONSABLE_INSCRIPTO", "MONOTRIBUTO", "EXENTO"}

VARIABLES
  declared,    \* companies.condicion_iva
  suspected,   \* companies.condicion_iva_revisar
  lines,       \* cost_ledger_entries: [bill, condition, amount, criterion, month, live]
  asking,      \* locals of the requests
  unheard,     \* history: bills approved since the condition was last confirmed
  overwritten  \* history: an edit of something else wrote an old condition back

ledgerVars == <<declared, suspected, lines, asking, unheard, overwritten>>

NoAmount == -1
Amounts  == {"net", "tax", "total"}
NoAsking == [at |-> "idle", bill |-> 0, condition |-> "none", news |-> FALSE]

\* A bill charges something and its tax is not negative.
ASSUME LedgerAssumption ==
  \A b \in Bills :
    /\ Bill[b].net \in Nat \ {0} /\ Bill[b].tax \in Nat
    /\ Bill[b].tells \subseteq Amounts

-----------------------------------------------------------------------------
(* pickCostAmount and criterioDelImporte.                                    *)

TaxIsCost(c) == c # "RESPONSABLE_INSCRIPTO"     \* ivaEsCosto
Tells(b, a) == a \in Bill[b].tells
Net(b)   == IF Tells(b, "net") THEN Bill[b].net ELSE NoAmount
Tax(b)   == IF Tells(b, "tax") THEN Bill[b].tax ELSE NoAmount
Total(b) == IF Tells(b, "total") THEN Bill[b].net + Bill[b].tax ELSE NoAmount

\* The tax is left out of the total only when it is a positive part of it.
NetOfTax(b) ==
  IF Net(b) # NoAmount THEN Net(b)
  ELSE IF Tax(b) > 0 /\ Tax(b) < Total(b) THEN Total(b) - Tax(b) ELSE NoAmount

\* Mutant: as it once was, the amount that is told, whoever buys.
CostOfNet(b, c) == IF Net(b) # NoAmount THEN Net(b) ELSE Total(b)

Cost(b, c) ==
  IF ~TaxIsCost(c)
  THEN IF NetOfTax(b) # NoAmount THEN NetOfTax(b) ELSE Total(b)
  ELSE IF Total(b) # NoAmount THEN Total(b)
  ELSE IF Net(b) # NoAmount /\ Tax(b) > 0 THEN Net(b) + Tax(b) ELSE Net(b)

Criterion(b, c) ==
  CASE TaxIsCost(c) -> "TOTAL_CON_IVA"
    [] ~TaxIsCost(c) /\ NetOfTax(b) # NoAmount -> "NETO_SIN_IVA"
    [] OTHER -> "TOTAL_CON_IVA"

\* buildLedgerDraft: a bill without a usable amount has no line.
HasDraft(b, c) == Cost(b, c) > 0 /\ Cost(b, c) < MaxAmount
Draft(b, c) ==
  [bill |-> b, condition |-> c, amount |-> Cost(b, c), criterion |-> Criterion(b, c),
   month |-> IF Bill[b].month = 0 THEN ThisMonth ELSE Bill[b].month, live |-> TRUE]

-----------------------------------------------------------------------------
(* detectarSenalCondicionIva and contradiceLaCondicionDeclarada.             *)

Clue(label, strong, suggests) == [label |-> label, strong |-> strong, suggests |-> suggests]
Clues ==
  <<Clue("Monotributista", TRUE, "MONOTRIBUTO"), Clue("Responsable No Inscripto", TRUE, "EXENTO"),
    Clue("Factura C", TRUE, "MONOTRIBUTO"), Clue("Comprobante C", TRUE, "MONOTRIBUTO"),
    Clue("Consumidor Final", FALSE, "MONOTRIBUTO"), Clue("Exento", FALSE, "EXENTO")>>

\* Next to the words Responsable Inscripto only a strong clue counts.
ClueIn(text) ==
  LET found == {i \in DOMAIN Clues : /\ Clues[i].label \in text
                                     /\ "Responsable Inscripto" \in text => Clues[i].strong}
  IN IF found = {} THEN "none" ELSE Clues[Min(found)].suggests

\* Mutant: the text of the bill is not looked at.
SuggestedByNote(b) == ClueIn(Bill[b].note)
Suggested(b) ==
  IF ClueIn(Bill[b].note) # "none" THEN ClueIn(Bill[b].note) ELSE ClueIn(Bill[b].text)

Contradicts(b, c) == Suggested(b) # "none" /\ TaxIsCost(Suggested(b)) # TaxIsCost(c)

-----------------------------------------------------------------------------
(* Actions.                                                                  *)

LedgerInit ==
  /\ declared \in Conditions
  /\ suspected = FALSE
  /\ lines = << >>
  /\ asking = [r \in Costists |-> NoAsking]
  /\ unheard = {}
  /\ overwritten = FALSE

\* review has read the entry with the condition of its company.
ReadBill(r, b) ==
  /\ asking[r] = NoAsking
  /\ asking' = [asking EXCEPT ![r] = [at |-> "line", bill |-> b, condition |-> declared,
                                       news |-> TRUE]]
  /\ UNCHANGED <<declared, suspected, lines, unheard, overwritten>>

\* The review committed and its line is inserted, unless the section stays unknown, there is
\* no amount, or the insertion fails; then comes the signal.
InsertLine(r) ==
  /\ asking[r].at = "line"
  /\ LET v == asking[r]
     IN \/ /\ HasDraft(v.bill, v.condition)
           /\ Len(lines) < MaxLines
           /\ lines' = Append(lines, Draft(v.bill, v.condition))
        \/ UNCHANGED lines
  /\ asking' = [asking EXCEPT ![r].at = "signal"]
  /\ UNCHANGED <<declared, suspected, unheard, overwritten>>

\* A document that contradicts the condition that was read raises the flag of the company.
Signal(r) ==
  /\ asking[r].at = "signal"
  /\ LET v == asking[r]
     IN /\ suspected' = (suspected \/ Contradicts(v.bill, v.condition))
        /\ unheard' = IF v.news THEN unheard \union {v.bill} ELSE unheard
  /\ asking' = [asking EXCEPT ![r] = NoAsking]
  /\ UNCHANGED <<declared, lines, overwritten>>

\* The flag or the line failed, or the process died: the approval stands without them.
AskingDies(r) ==
  /\ asking[r] # NoAsking
  /\ asking' = [asking EXCEPT ![r] = NoAsking]
  /\ UNCHANGED <<declared, suspected, lines, unheard, overwritten>>

\* The edit of a company reads its row, and writes it whole: what the form does not send is
\* what was read.
ReadCompany(r) ==
  /\ asking[r] = NoAsking
  /\ asking' = [asking EXCEPT ![r] = [NoAsking EXCEPT !.at = "company", !.condition = declared]]
  /\ UNCHANGED <<declared, suspected, lines, unheard, overwritten>>

\* A condition that is sent confirms the matter, for the reviews in flight too.
WriteCompany(r, c) ==
  /\ asking[r].at = "company"
  /\ IF c # "none"
     THEN /\ declared' = c /\ suspected' = FALSE /\ unheard' = {}
          /\ overwritten' = FALSE
          /\ asking' = [s \in Costists |-> IF s = r THEN NoAsking ELSE [asking[s] EXCEPT !.news = FALSE]]
     ELSE /\ declared' = asking[r].condition
          /\ overwritten' = (overwritten \/ declared # asking[r].condition)
          /\ asking' = [asking EXCEPT ![r] = NoAsking]
          /\ UNCHANGED <<suspected, unheard>>
  /\ UNCHANGED lines

\* A line typed by hand, in a month that has a structure.
AddLine(m, amount) ==
  /\ Len(lines) < MaxLines /\ m \in Booked
  /\ lines' = Append(lines, [bill |-> 0, condition |-> declared, amount |-> amount,
                             criterion |-> "CARGA_MANUAL", month |-> m, live |-> TRUE])
  /\ UNCHANGED <<declared, suspected, asking, unheard, overwritten>>

\* A corrected amount is one typed by hand; the month may change with it or alone.
EditLine(n, amount, m) ==
  /\ lines[n].live
  /\ m # 0 => m \in Booked
  /\ lines' = [lines EXCEPT
       ![n].amount = IF amount = NoAmount THEN @ ELSE amount,
       ![n].criterion = IF amount = NoAmount THEN @ ELSE "CARGA_MANUAL",
       ![n].month = IF m = 0 THEN @ ELSE m]
  /\ UNCHANGED <<declared, suspected, asking, unheard, overwritten>>

DeleteLine(n) ==
  /\ lines[n].live
  /\ lines' = [lines EXCEPT ![n].live = FALSE]
  /\ UNCHANGED <<declared, suspected, asking, unheard, overwritten>>

LedgerNext ==
  \/ \E r \in Costists :
       \/ \E b \in Bills : ReadBill(r, b)
       \/ InsertLine(r) \/ Signal(r) \/ AskingDies(r) \/ ReadCompany(r)
       \/ \E c \in Conditions \union {"none"} : WriteCompany(r, c)
  \/ \E m \in Booked : AddLine(m, 1)
  \/ \E n \in DOMAIN lines :
       \/ EditLine(n, 1, 0) \/ (\E m \in Booked : EditLine(n, NoAmount, m))
       \/ DeleteLine(n)

LedgerSpec == LedgerInit /\ [][LedgerNext]_ledgerVars

-----------------------------------------------------------------------------
(* Properties.                                                               *)

\* "El IVA no se recupera, es un costo más" or is a credit: of a bill that tells two of its
\* three amounts, in any combination, the line that nobody corrected has the net amount for
\* a company that recovers the tax and the whole for one that does not, and says which.
TaxFollowsTheCompany ==
  \A n \in DOMAIN lines :
    LET l == lines[n]
    IN l.criterion # "CARGA_MANUAL" /\ Cardinality(Bill[l.bill].tells) >= 2 =>
         /\ l.amount = Bill[l.bill].net + (IF TaxIsCost(l.condition) THEN Bill[l.bill].tax ELSE 0)
         /\ TaxIsCost(l.condition) => l.criterion = "TOTAL_CON_IVA"
         /\ l.amount < Bill[l.bill].net + Bill[l.bill].tax => l.criterion = "NETO_SIN_IVA"

\* "La IA lo VIO y lo DIJO. Nadie se enteró": while an approved document contradicts the
\* condition of its company the flag is up, unless somebody confirmed the condition since the
\* review of the document began, or an edit of something else put an old condition back.
SaysOtherwise(b) ==
  \E text \in {Bill[b].note, Bill[b].text}, i \in DOMAIN Clues :
     Clues[i].label \in text /\ ("Responsable Inscripto" \in text => Clues[i].strong)
SuspicionIsHeard ==
  /\ declared = "RESPONSABLE_INSCRIPTO" /\ ~overwritten
  /\ \E b \in unheard : SaysOtherwise(b)
  => suspected
=============================================================================
