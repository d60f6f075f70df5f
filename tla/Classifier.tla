----------------------------- MODULE Classifier -----------------------------
(***************************************************************************)
(* How a document gets its type and its section: the cascade of            *)
(* infrastructure/classifier (layers 0 to 6), the answer of the language   *)
(* model with its second attempt and its salvage (groq-classifier.ts), and *)
(* what a review teaches about the supplier (validaciones-service.ts).     *)
(*                                                                         *)
(* The content of a document is the record of what the patterns of the     *)
(* layers find in its text.  All documents are of one supplier of one      *)
(* company: the row of supplier_fingerprints is read and written back by   *)
(* each review, in a transaction that locks nothing before it writes.      *)
(***************************************************************************)
EXTENDS Integers, Sequences, FiniteSets, FiniteSetsExt

CONSTANTS
  Documents,      \* documents that may arrive
  Content,        \* what is found in the text of each
  Attempts,        \* pairs of attempts of the language model
  Rows,          \* rows of the supplier at the start, or NoFingerprint
  Truths,         \* what a person corrects to: [type, section]
  Reviewers,      \* reviews in flight
  MaxDocuments    \* bound on the documents that a review may teach from

VARIABLES
  fingerprint,    \* supplier_fingerprints of the supplier
  audits,         \* classification_audits of the documents whose text shows the CUIT
  reviewing,      \* locals of each review
  lesson,         \* history: the type of the last correction
  crossed         \* history: a review wrote over a row it had not read

classifierVars == <<fingerprint, audits, reviewing, lesson, crossed>>

Threshold        == 72
StrongCompetitor == 30

NoFingerprint == [type |-> "none", section |-> "none", seen |-> 0, overridden |-> 0, bonus |-> 0]
NoReview      == [audit |-> 0, corrects |-> FALSE, truth |-> [type |-> "none", section |-> "none"],
                  row |-> NoFingerprint]
NoAnswer      == [type |-> "none", section |-> "none", confidence |-> 0]

\* The counts of a row and the confidence of an answer are numbers.
ASSUME ClassifierAssumption ==
  /\ \A row \in Rows : row.seen \in Nat /\ row.overridden \in Nat
  /\ \A pair \in Attempts : pair[1].confidence \in Nat /\ pair[2].confidence \in Nat

-----------------------------------------------------------------------------
(* Layers 0 and 0A: quality, and the nature of a loss the text mentions.     *)

Gate(d) == CASE d.quality = "ilegible" -> "FAIL"
             [] d.quality = "parcial" \/ d.short -> "PARTIAL"
             [] OTHER -> "PASS"

\* A loss both normal and extraordinary, or named and no more, unless it is a disaster. Only
\* what is typed has an intention: a file is taken for a formal document as it is.
UnclearWaste(d) ==
  /\ d.source = "TEXT" /\ d.waste # {} /\ "event" \notin d.waste
  /\ d.waste \intersect {"extra", "normal"} # {"extra"}
  /\ d.waste \intersect {"extra", "normal"} # {"normal"}

-----------------------------------------------------------------------------
(* Layers 1 to 3: definitive marks, hints by points, and checks of numbers.  *)

Facts(d) == d.words \union (IF d.cae \in {"valid", "zeros"} THEN {"cae"} ELSE {})
                    \union (IF d.cuit # "none" THEN {"cuit"} ELSE {})
Mark(label, type, confidence, needs, without) ==
  [label |-> label, type |-> type, confidence |-> confidence, needs |-> needs, without |-> without]
Marks ==
  <<Mark("FACTURA_VENTA_CTX", "FACTURA_VENTA", 98, {"invoice", "sale"}, {}),
    Mark("CAE_FOUND", "FACTURA_COMPRA", 97, {"cae"}, {"sale"}),
    Mark("FACTURA_ABC", "FACTURA_COMPRA", 94, {"invoiceABC", "cuit"}, {}),
    Mark("NOTA_DEBITO_ABC", "NOTA_DEBITO", 98, {"debitABC"}, {}),
    Mark("NOTA_CREDITO_ABC", "NOTA_CREDITO", 98, {"creditABC"}, {}),
    Mark("RECIBO_SUELDO", "LIQUIDACION_MOD", 98, {"payslip"}, {}),
    Mark("REMITO_HEADER", "REMITO", 93, {"deliveryHeader"}, {"cae"})>>
NoMark == Mark("none", "none", 0, {}, {})
Found(d) == {i \in DOMAIN Marks : /\ Marks[i].needs \subseteq Facts(d)
                                  /\ Marks[i].without \intersect Facts(d) = {}}

\* The mark of the highest confidence, the first one of them.
Definitive(d) ==
  IF Found(d) = {} THEN NoMark
  ELSE LET best == {i \in Found(d) : \A j \in Found(d) : Marks[j].confidence <= Marks[i].confidence}
       IN Marks[Min(best)]

Hint(label, points, type) == [label |-> label, points |-> points, type |-> type]
Hints ==
  {Hint("CUIT_FORMAT", 12, "FACTURA_COMPRA"), Hint("PTO_VENTA_HEADER", 15, "FACTURA_COMPRA"),
   Hint("COMP_NRO", 10, "FACTURA_COMPRA"), Hint("IB_FIELD", 8, "FACTURA_COMPRA"),
   Hint("INICIO_ACT", 8, "FACTURA_COMPRA"), Hint("IVA_CONDITION", 10, "FACTURA_COMPRA"),
   Hint("ANSES", 20, "LIQUIDACION_MOD"), Hint("OBRA_SOCIAL", 18, "LIQUIDACION_MOD"),
   Hint("CUIL_KEYWORD", 15, "LIQUIDACION_MOD"), Hint("JUBILACION", 18, "LIQUIDACION_MOD"),
   Hint("ART", 15, "LIQUIDACION_MOD"), Hint("SUELDO_BASICO", 20, "LIQUIDACION_MOD"),
   Hint("HORAS_WORKED", 15, "LIQUIDACION_MOD"), Hint("DEPT_HOURS", 25, "PLANILLA_HORAS"),
   Hint("TURNO_JORNADA", 20, "PLANILLA_HORAS"), Hint("HOURS_FORMAT", 15, "PLANILLA_HORAS"),
   Hint("REMITO_KEYWORD", 25, "REMITO"), Hint("FECHA_ENTREGA", 18, "REMITO"),
   Hint("TRANSPORTE", 15, "REMITO")}
HintOrder == <<"FACTURA_COMPRA", "LIQUIDACION_MOD", "PLANILLA_HORAS", "REMITO">>
HintTypes == {HintOrder[i] : i \in DOMAIN HintOrder}

Refutation(label, by, penalty, type) ==
  [label |-> label, by |-> by, penalty |-> penalty, type |-> type]
Contradictions == {Refutation("REMITO_KEYWORD", "CAE_FOUND", 30, "REMITO"),
                   Refutation("ANSES", "PTO_VENTA_HEADER", 25, "LIQUIDACION_MOD"),
                   Refutation("CUIL_KEYWORD", "CAE_FOUND", 15, "LIQUIDACION_MOD")}

\* A CAE refutes even when another mark was the definitive one.
Labels(d) == d.hints \union {Definitive(d).label}
                     \union (IF d.cae = "valid" THEN {"CAE_FOUND"} ELSE {})
Points(d, type) ==
  MapThenSumSet(LAMBDA h : h.points, {h \in Hints : h.label \in d.hints /\ h.type = type})
  - MapThenSumSet(LAMBDA c : c.penalty,
                  {c \in Contradictions : {c.label, c.by} \subseteq Labels(d) /\ c.type = type})
Contenders(d) == {i \in DOMAIN HintOrder : Points(d, HintOrder[i]) > 0}
WinnerOf(d, S) == Min({i \in S : \A j \in S : Points(d, HintOrder[j]) <= Points(d, HintOrder[i])})
Winner(d)    == IF Contenders(d) = {} THEN "none" ELSE HintOrder[WinnerOf(d, Contenders(d))]
WinnerPts(d) == IF Contenders(d) = {} THEN 0 ELSE Points(d, Winner(d))

\* Two types closer than 15 points, with no definitive mark to choose.
TypeAmbiguous(d) ==
  LET others == Contenders(d) \ {WinnerOf(d, Contenders(d))}
  IN /\ Definitive(d) = NoMark /\ Cardinality(Contenders(d)) > 1
     /\ WinnerPts(d) - Points(d, HintOrder[WinnerOf(d, others)]) < 15

NumericDelta(d) ==
  (CASE d.cuit = "valid" -> 10 [] d.cuit = "invalid" -> -15 [] OTHER -> 0)
  + (CASE d.cae = "valid" -> 12 [] d.cae \in {"zeros", "short"} -> -20 [] OTHER -> 0)
  + (CASE d.date = "near" -> 5 [] d.date = "far" -> -10 [] OTHER -> 0)

-----------------------------------------------------------------------------
(* Layer 4: the section that the rules give to a document of a type.         *)

Routed(section, unsure) == [section |-> section, unsure |-> unsure]
Unrouted == Routed("DESCONOCIDO", TRUE)

\* The category of the company: the first pattern of its trade in this order, except that a
\* poultry business that slaughters or resells is not a farm. Only transport burns its product.
CategoryOrder == <<"AGRO", "GASTRONOMIA", "MANUFACTURA", "CONSTRUCCION", "TEXTIL", "SALUD",
                   "SERVICIOS", "COMERCIO", "TRANSPORTE">>
Category(trade) ==
  IF "AVICOLA" \in trade /\ "noPlantel" \notin trade THEN "AVICULTURA"
  ELSE LET named == {i \in DOMAIN CategoryOrder : CategoryOrder[i] \in trade}
       IN IF named = {} THEN "DEFAULT" ELSE CategoryOrder[Min(named)]
FuelIsMP(d) == Category(d.trade) = "TRANSPORTE"

\* A payslip goes by the post it names; one that is not named is never taken for direct labour.
RoutePayroll(d) ==
  CASE d.role = "CIP"   -> Routed("COSTOS_INDIRECTOS", TRUE)
    [] d.role = "ADMIN" -> Routed("GASTO_ADMINISTRACION", TRUE)
    [] d.role = "MOD"   -> Routed("MANO_DE_OBRA", FALSE)
    [] d.role = "other" -> Routed("MANO_DE_OBRA", TRUE)
    [] OTHER -> Unrouted

\* The expense of the most words, the first one of the order on a tie.
Spendings == <<"GASTO_COMERCIALIZACION", "GASTO_ADMINISTRACION", "GASTO_FINANCIERO">>
Spending(d) ==
  Min({i \in DOMAIN Spendings : \A j \in DOMAIN Spendings : d.gasto[Spendings[j]] <= d.gasto[Spendings[i]]})
SpendingScore(d) == d.gasto[Spendings[Spending(d)]]

\* A freight or an insurance that says, before any word of a sale, that it is over a purchase.
AcquisitionLink(d) == d.overPurchase /\ ~d.toClient
SectionMargin == 2

\* Raw material against overheads once freight, labour and expenses are out of the way.
RouteByWords(d) ==
  LET even == d.mp >= 1 /\ d.cip >= 1 /\ d.mp - d.cip \in 1 - SectionMargin .. SectionMargin - 1
  IN IF even \/ d.mp = d.cip THEN Unrouted
     ELSE Routed(IF d.mp > d.cip THEN "MATERIA_PRIMA" ELSE "COSTOS_INDIRECTOS", FALSE)

\* d.cipCore leaves out of d.cip the words of freight and insurance.
RoutePurchase(d) ==
  IF d.plantPower THEN Routed("COSTOS_INDIRECTOS", FALSE)
  ELSE IF d.fuel /\ FuelIsMP(d) THEN Routed("MATERIA_PRIMA", FALSE)
  ELSE IF SpendingScore(d) >= 1
  THEN IF SpendingScore(d) > Max({d.mp, d.cip, d.mod})
       THEN Routed(Spendings[Spending(d)], FALSE) ELSE Unrouted
  ELSE IF d.mod > 0 /\ d.mod >= d.mp /\ d.mod >= d.cip THEN Routed("MANO_DE_OBRA", FALSE)
  ELSE IF AcquisitionLink(d)
  THEN IF d.mp > d.cipCore THEN Routed("MATERIA_PRIMA", FALSE)
       ELSE IF d.cipCore > d.mp THEN Routed("COSTOS_INDIRECTOS", FALSE) ELSE Unrouted
  ELSE IF d.freight /\ d.mp >= 1
  THEN IF d.mp - d.cipCore >= SectionMargin THEN Routed("MATERIA_PRIMA", FALSE) ELSE Unrouted
  ELSE RouteByWords(d)

Route(d, type) ==
  CASE type \in {"LIQUIDACION_MOD", "PLANILLA_HORAS"} -> RoutePayroll(d)
    [] type = "FACTURA_VENTA" -> Routed("VENTAS", FALSE)
    [] type \in {"NOTA_DEBITO", "NOTA_CREDITO"} ->
         IF d.aboutSale THEN Routed("VENTAS", FALSE) ELSE RoutePurchase(d)
    [] type = "REMITO" -> CASE d.direction = "in"  -> Routed("MATERIA_PRIMA", FALSE)
                            [] d.direction = "out" -> Routed("VENTAS", FALSE)
                            [] OTHER -> Unrouted
    [] type = "FACTURA_COMPRA" -> RoutePurchase(d)
    [] OTHER -> Unrouted

Types == {"FACTURA_VENTA", "FACTURA_COMPRA", "NOTA_DEBITO", "NOTA_CREDITO", "LIQUIDACION_MOD",
          "REMITO", "PLANILLA_HORAS", "DESCONOCIDO"}

\* What the layers say of each document, whatever the supplier.
Evidence ==
  [d \in Documents |->
     LET t == Content[d]
     IN [gate |-> Gate(t), mark |-> Definitive(t), winner |-> Winner(t), points |-> WinnerPts(t),
         delta |-> NumericDelta(t), ambiguous |-> TypeAmbiguous(t), unclear |-> UnclearWaste(t),
         strong |-> {type \in HintTypes : Points(t, type) >= StrongCompetitor},
         cuit |-> t.cuit = "valid", route |-> [type \in Types |-> Route(t, type)]]]

-----------------------------------------------------------------------------
(* Layer 5: the answer of the language model.                                *)

\* An attempt brings nothing, no JSON, or the JSON with some fields that are not valid.
Valid(a) == a.read = "json" /\ a.wrong = {}
Repaired(a, wrong) ==
  [type |-> IF "documentType" \in wrong THEN "DESCONOCIDO" ELSE a.type,
   section |-> IF "costSection" \in wrong THEN "DESCONOCIDO" ELSE a.section,
   confidence |-> IF "confidence" \in wrong THEN 0 ELSE a.confidence]
Fallback == [type |-> "DESCONOCIDO", section |-> "DESCONOCIDO", confidence |-> 0]

\* The JSON of the second attempt, and only without one that of the first, is repaired if
\* nothing but its four fields is wrong. That it was repaired is not in what layer 5 returns.
Answer(pair) ==
  LET first == pair[1]
      second == pair[2]
      readable == IF second.read = "json" THEN second ELSE first
  IN IF Valid(first) THEN Repaired(first, {})
     ELSE IF Valid(second) THEN Repaired(second, {})
     ELSE IF first.read = "nothing" /\ second.read = "nothing" THEN NoAnswer
     ELSE IF readable.read = "json" /\ "structure" \notin readable.wrong
     THEN Repaired(readable, readable.wrong)
     ELSE Fallback

-----------------------------------------------------------------------------
(* The decision: classifyDocument.                                           *)

\* e is the evidence on the document.
Capped(e, points) == IF e.gate = "PARTIAL" THEN Min({points, 65}) ELSE points

\* What the supplier taught counts from its third document on.
Recognised(e, row) == IF e.cuit /\ row.seen >= 3 THEN row ELSE NoFingerprint
Hypothesis(e, row) ==
  CASE e.mark # NoMark -> e.mark.type
    [] e.mark = NoMark /\ e.winner # "none" -> e.winner
    [] OTHER -> IF Recognised(e, row) # NoFingerprint THEN row.type ELSE "DESCONOCIDO"
RuleOf(e, row) == e.route[Hypothesis(e, row)]

CrossLayerConflict(e, row) ==
  \/ e.strong \ {Hypothesis(e, row)} # {}
  \/ /\ Recognised(e, row) # NoFingerprint /\ e.mark # NoMark
     /\ row.type # e.mark.type

Confidence(e, row) ==
  LET known == Recognised(e, row)
      rule  == RuleOf(e, row)
      basis == Capped(e, IF e.mark # NoMark THEN e.mark.confidence
                         ELSE e.points + e.delta)
  IN IF known.bonus > 0 /\ (rule.unsure \/ known.section = rule.section)
     THEN Capped(e, Min({basis + known.bonus, 100})) ELSE basis

Verdict(type, section, confidence, review, ai) ==
  [type |-> type, section |-> section, confidence |-> confidence, review |-> review, ai |-> ai]
Blocked(e, row) == \/ CrossLayerConflict(e, row) \/ e.ambiguous \/ e.unclear
                   \/ RuleOf(e, row).unsure
ByRules(e, row) == /\ ~Blocked(e, row) /\ Hypothesis(e, row) # "DESCONOCIDO"
                   /\ Confidence(e, row) >= Capped(e, Threshold)

\* Mutant: the section of the model stands whatever the rule of its type says.
AfterModelSilent(e, row, answer) ==
  Verdict(answer.type, answer.section, Capped(e, answer.confidence),
         \/ CrossLayerConflict(e, row) \/ e.unclear
         \/ Capped(e, answer.confidence) < Threshold, TRUE)

\* The model decides type and section together; a rule that dissents sends it to review.
AfterModel(e, row, answer) ==
  LET rule    == e.route[answer.type]
      dissent == ~rule.unsure /\ rule.section # answer.section
  IN Verdict(answer.type, answer.section, Capped(e, answer.confidence),
            \/ CrossLayerConflict(e, row) \/ e.unclear \/ dissent
            \/ Capped(e, answer.confidence) < Threshold, TRUE)

ClassifyDocument(e, row, pair) ==
  IF e.gate = "FAIL" THEN Verdict("DESCONOCIDO", "DESCONOCIDO", 0, TRUE, FALSE)
  ELSE IF ByRules(e, row)
  THEN Verdict(Hypothesis(e, row), RuleOf(e, row).section, Min({Confidence(e, row), 100}), FALSE, FALSE)
  ELSE IF Answer(pair) # NoAnswer THEN AfterModel(e, row, Answer(pair))
  ELSE Verdict(Hypothesis(e, row), RuleOf(e, row).section, Min({Confidence(e, row), 71}), TRUE, FALSE)

-----------------------------------------------------------------------------
(* Actions.                                                                  *)

IsPending(n) == audits[n].pending

ClassifierInit ==
  /\ fingerprint \in Rows
  /\ audits = << >>
  /\ reviewing = [r \in Reviewers |-> NoReview]
  /\ lesson = "none"
  /\ crossed = FALSE

\* A document arrives. Only the text it was typed with shows the CUIT to its review.
Teaches(d) == Content[d].source = "TEXT" /\ Evidence[d].cuit
Classify(d, pair) ==
  LET result == ClassifyDocument(Evidence[d], fingerprint, pair)
  IN /\ Len(audits) < MaxDocuments
     /\ audits' = IF Teaches(d)
                  THEN Append(audits, [type |-> result.type, section |-> result.section,
                                       pending |-> TRUE])
                  ELSE audits
     /\ UNCHANGED <<fingerprint, reviewing, lesson, crossed>>

\* The transaction of a review that approves or corrects has read the row of the supplier.
ReadRow(r, n, corrects, truth) ==
  /\ reviewing[r] = NoReview
  /\ IsPending(n)
  /\ reviewing' = [reviewing EXCEPT ![r] = [audit |-> n, corrects |-> corrects, truth |-> truth,
                                            row |-> fingerprint]]
  /\ UNCHANGED <<fingerprint, audits, lesson, crossed>>

\* Math.min(25, Math.round(seen / total * 30))
Bonus(seen, overridden) ==
  LET total == seen + overridden
  IN IF total > 0 THEN Min({25, (60 * seen + total) \div (2 * total)}) ELSE 0
Truth(v) == IF v.corrects THEN v.truth
            ELSE [type |-> audits[v.audit].type, section |-> audits[v.audit].section]

\* Mutant: a correction is counted and not learned.
LearnedCounting(v) ==
  IF v.row = NoFingerprint
  THEN [type |-> Truth(v).type, section |-> Truth(v).section, seen |-> 1, overridden |-> 0, bonus |-> 5]
  ELSE LET seen == IF v.corrects THEN v.row.seen ELSE v.row.seen + 1
           overridden == IF v.corrects THEN v.row.overridden + 1 ELSE v.row.overridden
       IN [v.row EXCEPT !.seen = seen, !.overridden = overridden, !.bonus = Bonus(seen, overridden)]

\* A correction teaches what the person chose; a confirmation writes back the type it read.
Learned(v) ==
  IF v.row = NoFingerprint
  THEN [type |-> Truth(v).type, section |-> Truth(v).section, seen |-> 1, overridden |-> 0, bonus |-> 5]
  ELSE LET seen == IF v.corrects THEN v.row.seen ELSE v.row.seen + 1
           overridden == IF v.corrects THEN v.row.overridden + 1 ELSE v.row.overridden
           stands == IF v.corrects THEN Truth(v) ELSE v.row
       IN [type |-> stands.type, section |-> stands.section, seen |-> seen,
           overridden |-> overridden, bonus |-> Bonus(seen, overridden)]

\* Without a row both reviews create one, and the unique index fails the transaction of the second.
WriteRow(r) ==
  LET v == reviewing[r]
      refused == v.row = NoFingerprint /\ fingerprint # NoFingerprint
  IN /\ v # NoReview
     /\ reviewing' = [reviewing EXCEPT ![r] = NoReview]
        /\ IF refused THEN UNCHANGED <<fingerprint, audits, lesson, crossed>>
        ELSE /\ audits' = [audits EXCEPT ![v.audit].pending = FALSE]
             /\ fingerprint' = Learned(v)
             /\ lesson' = IF v.corrects THEN Truth(v).type ELSE lesson
             /\ crossed' = (crossed \/ v.row # fingerprint)

ClassifierNext ==
  \/ \E d \in Documents, pair \in Attempts : Classify(d, pair)
  \/ \E r \in Reviewers, n \in DOMAIN audits :
       \/ ReadRow(r, n, FALSE, NoReview.truth)
       \/ \E truth \in Truths : ReadRow(r, n, TRUE, truth)
  \/ \E r \in Reviewers : WriteRow(r)

ClassifierSpec == ClassifierInit /\ [][ClassifierNext]_classifierVars

-----------------------------------------------------------------------------
(* Properties.                                                               *)

\* "Cero errores silenciosos": a document that skips the review has the section of the rule
\* for its type, or there is no such rule and the model was sure of it; the mark of the law and
\* the strong hints on it point to one type at most, which is its type unless the model read it;
\* no loss on it is unclear. Of a supplier nobody knows, and of this one as it is known.
Heard(e, row, pair) ==
  LET r == ClassifyDocument(e, row, pair)
      rule == e.route[r.type]
      evidence == e.strong \union ({e.mark.type} \ {"none"})
  IN ~r.review =>
       /\ IF rule.unsure THEN r.ai /\ r.confidence >= Threshold ELSE r.section = rule.section
       /\ Cardinality(evidence) <= 1
       /\ ~r.ai => evidence \subseteq {r.type}
       /\ ~e.unclear
StrangersHeard == \A d \in Documents, pair \in Attempts : Heard(Evidence[d], NoFingerprint, pair)
NothingSilent ==
  /\ StrangersHeard
  /\ fingerprint # NoFingerprint =>
       \A d \in Documents, pair \in Attempts : Heard(Evidence[d], fingerprint, pair)

\* What a person corrected about a well-known supplier is not decided against without asking:
\* a document with a definitive mark of another type goes to review, unless two reviews
\* crossed and one of them wrote over what the other taught.
LessonIsAsked ==
  lesson # "none" /\ ~crossed =>
    \A d \in Documents, pair \in Attempts :
      /\ Recognised(Evidence[d], fingerprint) # NoFingerprint
      /\ Evidence[d].mark.type \notin {"none", lesson}
      => ClassifyDocument(Evidence[d], fingerprint, pair).review
=============================================================================
