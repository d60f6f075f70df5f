------------------------ MODULE Traceability_proofs ------------------------
(***************************************************************************)
(* Proofs about Traceability, for any fields, forms, values, requests and  *)
(* bounds: whoever writes at once, a datum keeps every version it had, and *)
(* a signature stands on the number it was given to; and every number of   *)
(* the section opens to its datum until writers cross.                     *)
(***************************************************************************)
EXTENDS Traceability, FiniteSetTheorems, SequenceTheorems, TLAPS

Version == [value : Nat, paper : BOOLEAN]
Point == [voided : BOOLEAN, status : {"borrador", "validado", "anulado"},
          signed : Nat \union {"nothing"}, versions : Seq(Version) \ {<< >>}]
Section == [Keys -> Seq(Nat)]

\* What a signed datum says is what was signed.
Stands(p) == p.status = "validado" => Current(p).value = p.signed

\* Every version that was written is still there, as it was.
Extends(p, q) == /\ Len(p.versions) <= Len(q.versions)
                 /\ \A n \in DOMAIN p.versions : q.versions[n] = p.versions[n]

DataInv(pts) == /\ pts \in [Keys -> Seq(Point)]
                /\ \A f \in Keys : \A i \in DOMAIN pts[f] : Stands(pts[f][i])

Grows(old, new) ==
  \A f \in Keys : \A i \in DOMAIN old[f] : i \in DOMAIN new[f] /\ Extends(old[f][i], new[f][i])

IsIndex(seen) == Len(seen) \in Nat /\ DOMAIN seen = 1 .. Len(seen)

\* Who writes a section holds its form, and the index of the data when it has looked.
WriterFacts(l) == l.op \in {"save", "document"} =>
  /\ {"op", "at", "form", "crossed", "seen"} \subseteq DOMAIN l
  /\ l.form \in Section
  /\ l.at = "looked" => \A f \in Keys : IsIndex(l.seen[f])

\* Who writes a datum holds which; the number it has chosen is free only if the value it
\* read is still the current one.
HandFacts(l, pts) ==
  /\ l.op = "create" => l.field \in Keys /\ l.value \in Nat
  /\ l.op \in {"correct", "validate", "void", "attach"} =>
       l.field \in Keys /\ l.datum \in DOMAIN pts[l.field]
  /\ l.op \in {"correct", "attach"} /\ l.at = "read" =>
       LET p == pts[l.field][l.datum]
       IN /\ l.number \in Nat /\ l.number <= Len(p.versions) + 1
          /\ l.number = Len(p.versions) + 1 => l.value = Current(p).value

TasksInv == DOMAIN task = Askers /\ \A k \in Askers : WriterFacts(task[k]) /\ HandFacts(task[k], points)

TraceInv == numbers \in Section /\ DataInv(points) /\ TasksInv

-----------------------------------------------------------------------------
(* A datum.                                                                  *)

LEMMA CurrentIsVersion ==
  ASSUME NEW p \in Point
  PROVE  /\ Len(p.versions) \in Nat \ {0} /\ DOMAIN p.versions = 1 .. Len(p.versions)
         /\ Current(p) = p.versions[Len(p.versions)] /\ Current(p) \in Version
<1>1. p.versions \in Seq(Version) /\ p.versions # << >>
  BY DEF Point
<1>2. Len(p.versions) \in Nat \ {0} /\ DOMAIN p.versions = 1 .. Len(p.versions)
  BY <1>1, EmptySeq, LenProperties
<1>3. p.versions[Len(p.versions)] \in Version
  BY <1>1, <1>2, ElementOfSeq
<1> QED BY <1>2, <1>3 DEF Current, Last

LEMMA NewPointFacts ==
  ASSUME NEW v \in Nat
  PROVE  NewPoint(v) \in Point /\ Stands(NewPoint(v))
BY DEF NewPoint, Point, Version, Stands

\* A version more.
LEMMA AppendedFacts ==
  ASSUME NEW p \in Point, NEW v \in Version, NEW q \in [voided : BOOLEAN,
           status : {"borrador", "validado", "anulado"}, signed : Nat \union {"nothing"},
           versions : {Append(p.versions, v)}]
  PROVE  q \in Point /\ Extends(p, q) /\ Current(q) = v
<1>1. p.versions \in Seq(Version) /\ DOMAIN p.versions = 1 .. Len(p.versions)
  BY CurrentIsVersion DEF Point
<1>2. Append(p.versions, v) \in Seq(Version) /\ Len(Append(p.versions, v)) = Len(p.versions) + 1
      /\ \A n \in 1 .. Len(p.versions) : Append(p.versions, v)[n] = p.versions[n]
      /\ Append(p.versions, v)[Len(p.versions) + 1] = v
  BY <1>1, AppendProperties
<1>3. q.versions = Append(p.versions, v)
  OBVIOUS
<1>4. Len(p.versions) \in Nat
  BY CurrentIsVersion
<1>5. Append(p.versions, v) # << >>
  BY <1>2, <1>4
<1>6. q \in Point
  BY <1>2, <1>5 DEF Point
<1>7. Extends(p, q)
  BY <1>1, <1>2, <1>3, <1>4 DEF Extends
<1>8. Current(q) = v
  BY <1>2, <1>3 DEF Current, Last
<1> QED BY <1>6, <1>7, <1>8

LEMMA CorrectedFacts ==
  ASSUME NEW p \in Point, NEW v \in Nat
  PROVE  Corrected(p, v) \in Point /\ Stands(Corrected(p, v)) /\ Extends(p, Corrected(p, v))
<1> DEFINE version == [value |-> v, paper |-> FALSE]
<1>1. version \in Version
  BY DEF Version
<1>2. Corrected(p, v) \in [voided : BOOLEAN, status : {"borrador", "validado", "anulado"},
        signed : Nat \union {"nothing"}, versions : {Append(p.versions, version)}]
  BY DEF Corrected, Point
<1>3. Corrected(p, v) \in Point /\ Extends(p, Corrected(p, v))
  <2> HIDE DEF version
  <2> QED BY <1>1, <1>2, AppendedFacts
<1>4. Corrected(p, v).status = "borrador"
  BY DEF Corrected, Point
<1> QED BY <1>3, <1>4 DEF Stands

LEMMA VoidedFacts ==
  ASSUME NEW p \in Point
  PROVE  Voided(p) \in Point /\ Stands(Voided(p)) /\ Extends(p, Voided(p))
<1>1. Voided(p) \in Point /\ Voided(p).status = "anulado" /\ Voided(p).versions = p.versions
  BY DEF Voided, Point
<1>2. Len(p.versions) \in Nat
  BY CurrentIsVersion
<1> QED BY <1>1, <1>2 DEF Stands, Extends

LEMMA UnchangedExtends ==
  ASSUME NEW p \in Point
  PROVE  Extends(p, p)
BY CurrentIsVersion DEF Extends

-----------------------------------------------------------------------------
(* The data of the section, and those who write them.                        *)

\* What a request holds of a datum stands while the data only grow.
LEMMA HandFactsKept ==
  ASSUME NEW old \in [Keys -> Seq(Point)], NEW new \in [Keys -> Seq(Point)], Grows(old, new),
         NEW l, HandFacts(l, old)
  PROVE  HandFacts(l, new)
<1>1. l.op = "create" => l.field \in Keys /\ l.value \in Nat
  BY DEF HandFacts
<1>2. l.op \in {"correct", "validate", "void", "attach"} =>
        l.field \in Keys /\ l.datum \in DOMAIN new[l.field]
  BY DEF HandFacts, Grows
<1>3. ASSUME l.op \in {"correct", "attach"}, l.at = "read"
      PROVE  LET p == new[l.field][l.datum]
             IN /\ l.number \in Nat /\ l.number <= Len(p.versions) + 1
                /\ l.number = Len(p.versions) + 1 => l.value = Current(p).value
  <2> DEFINE p == old[l.field][l.datum]  q == new[l.field][l.datum]
  <2>1. /\ l.field \in Keys /\ l.datum \in DOMAIN old[l.field] /\ l.datum \in DOMAIN new[l.field]
        /\ l.number \in Nat /\ l.number <= Len(p.versions) + 1
        /\ l.number = Len(p.versions) + 1 => l.value = Current(p).value
        /\ Extends(p, q)
    BY <1>3 DEF HandFacts, Grows
  <2>2. p \in Point /\ q \in Point
    <3>1. old[l.field] \in Seq(Point) /\ new[l.field] \in Seq(Point)
      BY <2>1
    <3> QED BY <2>1, <3>1, LenProperties, ElementOfSeq
  <2> HIDE DEF p, q
  <2>3. /\ Len(p.versions) \in Nat \ {0} /\ Len(q.versions) \in Nat \ {0}
        /\ DOMAIN p.versions = 1 .. Len(p.versions)
        /\ Current(p) = p.versions[Len(p.versions)] /\ Current(q) = q.versions[Len(q.versions)]
    BY <2>2, CurrentIsVersion
  <2>4. Len(p.versions) <= Len(q.versions)
        /\ (Len(p.versions) = Len(q.versions) => Current(p) = Current(q))
    <3>1. Len(p.versions) <= Len(q.versions) /\ Len(p.versions) \in DOMAIN p.versions
          /\ \A n \in DOMAIN p.versions : q.versions[n] = p.versions[n]
      BY <2>1, <2>3 DEF Extends
    <3>2. q.versions[Len(p.versions)] = p.versions[Len(p.versions)]
      BY <3>1
    <3> QED BY <2>3, <3>1, <3>2
  <2>5. l.number <= Len(q.versions) + 1
        /\ (l.number = Len(q.versions) + 1 => l.value = Current(q).value)
    BY <2>1, <2>3, <2>4
  <2> QED BY <2>1, <2>5 DEF q
<1> QED BY <1>1, <1>2, <1>3 DEF HandFacts

\* One datum takes another record.
LEMMA DatumReplaced ==
  ASSUME DataInv(points), NEW f \in Keys, NEW i \in DOMAIN points[f],
         NEW q \in Point, Stands(q), Extends(points[f][i], q),
         points' = [points EXCEPT ![f][i] = q]
  PROVE  DataInv(points') /\ Grows(points, points')
<1>1. points[f] \in Seq(Point) /\ DOMAIN points[f] = 1 .. Len(points[f])
  BY LenProperties DEF DataInv
<1>2. points' = [points EXCEPT ![f] = [points[f] EXCEPT ![i] = q]]
  BY DEF DataInv
<1>3. [points[f] EXCEPT ![i] = q] \in Seq(Point)
  BY <1>1, ExceptSeq
<1>4. points' \in [Keys -> Seq(Point)]
  BY <1>2, <1>3 DEF DataInv
<1>5. ASSUME NEW g \in Keys, NEW j \in DOMAIN points[g]
      PROVE  /\ points[g][j] \in Point /\ j \in DOMAIN points'[g]
             /\ points'[g][j] = IF g = f /\ j = i THEN q ELSE points[g][j]
  <2>1. points[g] \in Seq(Point)
    BY DEF DataInv
  <2>2. points[g][j] \in Point
    BY <2>1, LenProperties, ElementOfSeq
  <2> QED BY <1>2, <1>5, <2>2 DEF DataInv
<1>6. Grows(points, points')
  BY <1>5, UnchangedExtends DEF Grows
<1>7. \A g \in Keys : DOMAIN points'[g] = DOMAIN points[g]
  BY <1>2 DEF DataInv
<1>8. \A g \in Keys : \A j \in DOMAIN points'[g] : Stands(points'[g][j])
  BY <1>5, <1>7 DEF DataInv
<1> QED BY <1>4, <1>6, <1>8 DEF DataInv

\* A field gets one datum more, or several.
LEMMA DataAdded ==
  ASSUME DataInv(points), NEW new \in [Keys -> Seq(Point)],
         \A f \in Keys : /\ Len(points[f]) <= Len(new[f])
                         /\ \A i \in DOMAIN points[f] : Extends(points[f][i], new[f][i])
                         /\ \A i \in DOMAIN new[f] : Stands(new[f][i])
  PROVE  DataInv(new) /\ Grows(points, new)
<1>1. ASSUME NEW f \in Keys
      PROVE  /\ DOMAIN points[f] = 1 .. Len(points[f]) /\ Len(points[f]) \in Nat
             /\ DOMAIN new[f] = 1 .. Len(new[f]) /\ Len(new[f]) \in Nat
  <2>1. points[f] \in Seq(Point) /\ new[f] \in Seq(Point)
    BY DEF DataInv
  <2> QED BY <2>1, LenProperties
<1>2. Grows(points, new)
  BY <1>1 DEF Grows
<1> QED BY <1>2 DEF DataInv

\* The index of the data that the reconciler reads is a sequence.
LEMMA LookFacts ==
  ASSUME DataInv(points), NEW f \in Keys
  PROVE  IsIndex(Look(f))
<1>1. \E m \in Nat : DOMAIN Indexed(f) = 1 .. m
  <2>1. Cardinality(Alive(f)) \in Nat
    <3>1. points[f] \in Seq(Point)
      BY DEF DataInv
    <3>2. DOMAIN points[f] = 1 .. Len(points[f]) /\ Len(points[f]) \in Nat
      BY <3>1, LenProperties
    <3>3. IsFiniteSet(1 .. Len(points[f]))
      BY <3>2, FS_Interval
    <3>4. Alive(f) \subseteq 1 .. Len(points[f])
      BY <3>2 DEF Alive
    <3>5. IsFiniteSet(Alive(f))
      BY <3>3, <3>4, FS_Subset
    <3> QED BY <3>5, FS_CardinalityType
  <2>2. DOMAIN LiveData(f) = 1 .. Cardinality(Alive(f))
    BY DEF LiveData
  <2>3. Indexed(f) = LiveData(f) \/ Indexed(f) = <<Last(LiveData(f))>>
    BY DEF Indexed
  <2>4. \A x : DOMAIN <<x>> = 1 .. 1
    OBVIOUS
  <2> QED BY <2>1, <2>2, <2>3, <2>4
<1>2. PICK m \in Nat : DOMAIN Indexed(f) = 1 .. m
  BY <1>1
<1> DEFINE S == {Look(f)[n] : n \in 1 .. m}
<1>3. Look(f) \in [1 .. m -> S]
  BY <1>2 DEF Look
<1>4. Look(f) \in Seq(S)
  <2> HIDE DEF S
  <2> QED BY <1>3, SeqDef
<1> QED
  <2> HIDE DEF S
  <2> QED BY <1>4, LenProperties DEF IsIndex

LEMMA SettledFacts ==
  ASSUME NEW p \in Point, Stands(p), NEW i, NEW seen, IsIndex(seen), NEW wanted \in Seq(Nat)
  PROVE  LET q == Settled(p, i, seen, wanted)
         IN q \in Point /\ Stands(q) /\ Extends(p, q)
<1> DEFINE q == Settled(p, i, seen, wanted)
<1>1. CASE \A n \in DOMAIN seen : seen[n].at # i
  BY <1>1, UnchangedExtends DEF Settled
<1>2. CASE ~\A n \in DOMAIN seen : seen[n].at # i
  <2> DEFINE n == CHOOSE m \in DOMAIN seen : seen[m].at = i
  <2>1. n \in DOMAIN seen
    BY <1>2
  <2>2. q = IF n > Len(wanted) THEN Voided(p)
            ELSE IF seen[n].value = wanted[n] THEN p ELSE Corrected(p, wanted[n])
    BY <1>2 DEF Settled
  <2> HIDE DEF n, q
  <2>3. n <= Len(wanted) => wanted[n] \in Nat
    <3>1. Len(wanted) \in Nat
      BY LenProperties
    <3>2. n \in Nat \ {0}
      BY <2>1 DEF IsIndex
    <3> QED BY <3>1, <3>2, ElementOfSeq
  <2>4. n > Len(wanted) \/ n <= Len(wanted)
    BY <2>1, LenProperties DEF IsIndex
  <2>5. q = Voided(p) \/ q = p \/ \E v \in Nat : q = Corrected(p, v)
    BY <2>2, <2>3, <2>4
  <2>6. q \in Point /\ Stands(q) /\ Extends(p, q)
    BY <2>5, VoidedFacts, UnchangedExtends, CorrectedFacts
  <2> QED BY <2>6 DEF q
<1> QED BY <1>1, <1>2

LEMMA ReconciledFacts ==
  ASSUME DataInv(points), NEW seen, \A f \in Keys : IsIndex(seen[f]), NEW wanted \in Section
  PROVE  DataInv(Reconciled(seen, wanted)) /\ Grows(points, Reconciled(seen, wanted))
<1> DEFINE new == Reconciled(seen, wanted)
<1>1. ASSUME NEW f \in Keys
      PROVE  /\ new[f] \in Seq(Point) /\ Len(points[f]) <= Len(new[f])
             /\ \A i \in DOMAIN points[f] : Extends(points[f][i], new[f][i])
             /\ \A i \in DOMAIN new[f] : Stands(new[f][i])
  <2> DEFINE len == Len(points[f])
             kept == [i \in 1 .. len |-> Settled(points[f][i], i, seen[f], wanted[f])]
             more == Missing(seen[f], wanted[f])
  <2>1. points[f] \in Seq(Point) /\ wanted[f] \in Seq(Nat)
    BY <1>1 DEF DataInv, Section
  <2>2. len \in Nat /\ DOMAIN points[f] = 1 .. len
    BY <2>1, LenProperties
  <2>3. new[f] = kept \o more
    BY <1>1, <2>2 DEF Reconciled
  <2>4. ASSUME NEW i \in 1 .. len
        PROVE  kept[i] \in Point /\ Stands(kept[i]) /\ Extends(points[f][i], kept[i])
    <3>1. points[f][i] \in Point /\ Stands(points[f][i])
      BY <1>1, <2>1, <2>2, ElementOfSeq DEF DataInv
    <3>2. IsIndex(seen[f])
      BY <1>1
    <3>3. kept[i] = Settled(points[f][i], i, seen[f], wanted[f])
      BY <2>4
    <3> QED BY <2>1, <3>1, <3>2, <3>3, SettledFacts
  <2>5. kept \in Seq(Point) /\ Len(kept) = len
    <3>1. kept \in [1 .. len -> Point]
      BY <2>4
    <3> QED BY <2>2, <3>1, SeqDef, LenProperties
  <2>6. /\ more \in Seq(Point) /\ Len(more) \in Nat
        /\ \A n \in 1 .. Len(more) : Stands(more[n])
    <3> DEFINE m == Len(wanted[f]) - Len(seen[f])
    <3>1. Len(wanted[f]) \in Nat /\ Len(seen[f]) \in Nat
      BY <1>1, <2>1, LenProperties DEF IsIndex
    <3>2. ASSUME NEW n \in 1 .. m
          PROVE  more[n] \in Point /\ Stands(more[n])
      <4>1. wanted[f][Len(seen[f]) + n] \in Nat
        <5>1. Len(seen[f]) + n \in 1 .. Len(wanted[f])
          BY <3>1
        <5> QED BY <2>1, <5>1, ElementOfSeq
      <4>2. more[n] = NewPoint(wanted[f][Len(seen[f]) + n])
        BY DEF Missing
      <4> QED BY <4>1, <4>2, NewPointFacts
    <3>3. more \in [1 .. m -> Point]
      BY <3>2 DEF Missing
    <3>4. \E k \in Nat : 1 .. m = 1 .. k
      <4>1. m \in Int
        BY <3>1
      <4> HIDE DEF m
      <4>2. CASE m >= 0
        <5>1. m \in Nat
          BY <4>1, <4>2
        <5> QED BY <5>1
      <4>3. CASE m < 0
        <5>1. 1 .. m = 1 .. 0
          BY <4>1, <4>3
        <5> QED BY <5>1
      <4> QED BY <4>1, <4>2, <4>3
    <3> HIDE DEF m, more
    <3>5. PICK k \in Nat : 1 .. m = 1 .. k
      BY <3>4
    <3>6. more \in [1 .. k -> Point]
      BY <3>3, <3>5
    <3>7. more \in Seq(Point)
      BY <3>6, SeqDef
    <3>8. Len(more) \in Nat /\ 1 .. Len(more) = 1 .. k
      BY <3>6, <3>7, LenProperties
    <3> QED BY <3>2, <3>5, <3>7, <3>8
  <2> HIDE DEF new, kept, more
  <2>7. /\ new[f] \in Seq(Point) /\ Len(new[f]) = len + Len(more)
        /\ \A i \in 1 .. len + Len(more) :
             new[f][i] = IF i <= len THEN kept[i] ELSE more[i - len]
    <3>1. /\ kept \o more \in Seq(Point) /\ Len(kept \o more) = Len(kept) + Len(more)
          /\ \A i \in 1 .. Len(kept) + Len(more) :
               (kept \o more)[i] = IF i <= Len(kept) THEN kept[i] ELSE more[i - Len(kept)]
      BY <2>5, <2>6, ConcatProperties
    <3> HIDE DEF len
    <3> QED BY <2>3, <2>5, <3>1
  <2>8. DOMAIN new[f] = 1 .. len + Len(more)
    BY <2>7, LenProperties
  <2> HIDE DEF len
  <2>9. \A i \in 1 .. len : new[f][i] = kept[i]
    BY <2>2, <2>6, <2>7
  <2>10. ASSUME NEW i \in 1 .. len + Len(more)
         PROVE  Stands(new[f][i])
    <3>1. CASE i <= len
      BY <2>2, <2>4, <2>9, <3>1
    <3>2. CASE i > len
      <4>1. i - len \in 1 .. Len(more) /\ new[f][i] = more[i - len]
        BY <2>2, <2>6, <2>7, <3>2
      <4> QED BY <2>6, <4>1
    <3> QED BY <2>2, <2>6, <3>1, <3>2
  <2> QED BY <2>2, <2>4, <2>6, <2>7, <2>8, <2>9, <2>10 DEF len
<1>2. new \in [Keys -> Seq(Point)]
  BY <1>1 DEF Reconciled
<1> HIDE DEF new
<1>3. DataInv(new) /\ Grows(points, new)
  BY <1>1, <1>2, DataAdded
<1> QED BY <1>3 DEF new

-----------------------------------------------------------------------------
(* The steps.                                                                *)

LEMMA GrowsSelf ==
  ASSUME DataInv(points)
  PROVE  Grows(points, points)
<1>1. ASSUME NEW f \in Keys, NEW i \in DOMAIN points[f]
      PROVE  points[f][i] \in Point
  <2>1. points[f] \in Seq(Point)
    BY DEF DataInv
  <2> QED BY <2>1, LenProperties, ElementOfSeq
<1> QED BY <1>1, UnchangedExtends DEF Grows

LEMMA UnaskedFacts ==
  ASSUME NEW pts
  PROVE  WriterFacts(Unasked) /\ HandFacts(Unasked, pts)
BY DEF Unasked, WriterFacts, HandFacts

\* Whoever wrote meanwhile, a writer of the section keeps what it holds.
LEMMA CrossedFacts ==
  ASSUME NEW l, l.op \in {"save", "document"}, WriterFacts(l), NEW pts,
         NEW m, m = [l EXCEPT !.crossed = TRUE]
  PROVE  WriterFacts(m) /\ HandFacts(m, pts)
<1>1. m.op = l.op /\ m.at = l.at /\ m.form = l.form /\ m.seen = l.seen /\ DOMAIN m = DOMAIN l
  BY DEF WriterFacts
<1> QED BY <1>1 DEF WriterFacts, HandFacts

\* One request takes another record, some writers of the section are crossed, and the data
\* stay or grow.
LEMMA StepFacts ==
  ASSUME TraceInv, DataInv(points'), Grows(points, points'), numbers' \in Section,
         NEW k \in Askers, NEW l, WriterFacts(l), HandFacts(l, points'),
         DOMAIN task' = Askers, task'[k] = l,
         \A j \in Askers \ {k} : \/ task'[j] = task[j]
                                 \/ Writing(j) /\ task'[j] = [task[j] EXCEPT !.crossed = TRUE]
  PROVE  TraceInv'
<1>1. points \in [Keys -> Seq(Point)] /\ points' \in [Keys -> Seq(Point)]
  BY DEF TraceInv, DataInv
<1>2. ASSUME NEW j \in Askers
      PROVE  WriterFacts(task'[j]) /\ HandFacts(task'[j], points')
  <2>1. WriterFacts(task[j]) /\ HandFacts(task[j], points)
    BY DEF TraceInv, TasksInv
  <2>2. CASE j = k
    BY <2>2
  <2>3. CASE j # k /\ task'[j] = task[j]
    BY <1>1, <2>1, <2>3, HandFactsKept
  <2>4. CASE Writing(j) /\ task'[j] = [task[j] EXCEPT !.crossed = TRUE]
    BY <2>1, <2>4, CrossedFacts DEF Writing
  <2> QED BY <2>2, <2>3, <2>4
<1> QED BY <1>2 DEF TraceInv, TasksInv

\* The same, of a step that does not touch the data.
LEMMA TaskStep ==
  ASSUME TraceInv, UNCHANGED points, numbers' \in Section,
         NEW k \in Askers, NEW l, WriterFacts(l), HandFacts(l, points),
         DOMAIN task' = Askers, task'[k] = l,
         \A j \in Askers \ {k} : \/ task'[j] = task[j]
                                 \/ Writing(j) /\ task'[j] = [task[j] EXCEPT !.crossed = TRUE]
  PROVE  TraceInv' /\ Grows(points, points')
<1>1. DataInv(points')
  BY DEF TraceInv
<1>2. Grows(points, points')
  BY GrowsSelf DEF TraceInv
<1>3. HandFacts(l, points')
  OBVIOUS
<1> QED BY <1>1, <1>2, <1>3, StepFacts

LEMMA AsksStep ==
  ASSUME TraceInv, UNCHANGED <<points, numbers>>, NEW k \in Askers, NEW l,
         WriterFacts(l), HandFacts(l, points), Asks(k, l)
  PROVE  TraceInv' /\ Grows(points, points')
<1>1. DOMAIN task' = Askers /\ task'[k] = l /\ \A j \in Askers \ {k} : task'[j] = task[j]
  BY DEF Asks, TraceInv, TasksInv
<1>2. numbers' \in Section
  BY DEF TraceInv
<1> QED BY <1>1, <1>2, TaskStep

LEMMA EndsStep ==
  ASSUME TraceInv, UNCHANGED <<points, numbers>>, NEW k \in Askers, Ends(k)
  PROVE  TraceInv' /\ Grows(points, points')
<1>1. DOMAIN task' = Askers /\ task'[k] = Unasked /\ \A j \in Askers \ {k} : task'[j] = task[j]
  BY DEF Ends, TraceInv, TasksInv
<1>2. numbers' \in Section
  BY DEF TraceInv
<1> QED BY <1>1, <1>2, UnaskedFacts, TaskStep

\* A request that has written the data ends.
LEMMA WrittenStep ==
  ASSUME TraceInv, DataInv(points'), Grows(points, points'), numbers' \in Section,
         NEW k \in Askers, Ends(k) \/ EndsAndCrosses(k)
  PROVE  TraceInv'
<1>1. /\ DOMAIN task' = Askers /\ task'[k] = Unasked
      /\ \A j \in Askers \ {k} : \/ task'[j] = task[j]
                                 \/ Writing(j) /\ task'[j] = [task[j] EXCEPT !.crossed = TRUE]
  BY DEF Ends, EndsAndCrosses, TraceInv, TasksInv
<1> QED BY <1>1, UnaskedFacts, StepFacts

LEMMA BeginSteps ==
  ASSUME TraceInv, NEW k \in Askers
  PROVE  /\ \A form \in SectionForms : SaveBegin(k, form) => TraceInv' /\ Grows(points, points')
         /\ \A f \in Keys, value \in Amounts :
              DocumentBegin(k, f, value) \/ PointRead(k, f, value) => TraceInv' /\ Grows(points, points')
         /\ \A op \in {"correct", "validate", "void", "attach"}, f \in Keys, i \in 1 .. MaxPoints :
              HandBegin(k, op, f, i) => TraceInv' /\ Grows(points, points')
<1>1. ASSUME NEW form \in SectionForms, SaveBegin(k, form)
      PROVE  TraceInv' /\ Grows(points, points')
  <2> DEFINE l == [op |-> "save", at |-> "numbered", number |-> saved + 1, form |-> form,
                   crossed |-> FALSE, seen |-> << >>]
  <2>1. form \in Section
    BY TraceabilityAssumption DEF Section
  <2>2. WriterFacts(l) /\ HandFacts(l, points)
    BY <2>1 DEF WriterFacts, HandFacts
  <2>3. Asks(k, l) /\ UNCHANGED <<points, numbers>>
    BY <1>1 DEF SaveBegin
  <2> HIDE DEF l
  <2> QED BY <2>2, <2>3, AsksStep
<1>2. ASSUME NEW f \in Keys, NEW value \in Amounts, DocumentBegin(k, f, value)
      PROVE  TraceInv' /\ Grows(points, points')
  <2> DEFINE l == [op |-> "document", at |-> "read", form |-> Completed(f, value),
                   crossed |-> FALSE, seen |-> << >>]
  <2>1. Completed(f, value) \in Section
    <3>1. value \in Nat /\ numbers[f] \in Seq(Nat) /\ numbers \in [Keys -> Seq(Nat)]
      BY TraceabilityAssumption DEF TraceInv, Section
    <3>2. Append(numbers[f], value) \in Seq(Nat) /\ <<value>> \in Seq(Nat)
      BY <3>1, AppendProperties
    <3> QED BY <3>1, <3>2 DEF Completed, Section
  <2>2. WriterFacts(l) /\ HandFacts(l, points)
    BY <2>1 DEF WriterFacts, HandFacts
  <2>3. Asks(k, l) /\ UNCHANGED <<points, numbers>>
    BY <1>2 DEF DocumentBegin
  <2> HIDE DEF l
  <2> QED BY <2>2, <2>3, AsksStep
<1>3. ASSUME NEW f \in Keys, NEW value \in Amounts, PointRead(k, f, value)
      PROVE  TraceInv' /\ Grows(points, points')
  <2> DEFINE l == [op |-> "create", at |-> "read", field |-> f, value |-> value]
  <2>1. WriterFacts(l) /\ HandFacts(l, points)
    BY TraceabilityAssumption DEF WriterFacts, HandFacts
  <2>2. Asks(k, l) /\ UNCHANGED <<points, numbers>>
    BY <1>3 DEF PointRead
  <2> HIDE DEF l
  <2> QED BY <2>1, <2>2, AsksStep
<1>4. ASSUME NEW op \in {"correct", "validate", "void", "attach"}, NEW f \in Keys,
             NEW i \in 1 .. MaxPoints, HandBegin(k, op, f, i)
      PROVE  TraceInv' /\ Grows(points, points')
  <2> DEFINE l == [op |-> op, at |-> "begun", field |-> f, datum |-> i]
  <2>1. WriterFacts(l) /\ HandFacts(l, points)
    BY <1>4 DEF WriterFacts, HandFacts, HandBegin
  <2>2. Asks(k, l) /\ UNCHANGED <<points, numbers>>
    BY <1>4 DEF HandBegin
  <2> HIDE DEF l
  <2> QED BY <2>1, <2>2, AsksStep
<1> QED BY <1>1, <1>2, <1>3, <1>4

\* A writer of the section goes on.
LEMMA WriterSteps ==
  ASSUME TraceInv, NEW k \in Askers,
         SaveInsert(k) \/ ReconcileLook(k) \/ DocumentWrite(k)
  PROVE  TraceInv' /\ Grows(points, points')
<1>1. WriterFacts(task[k]) /\ DOMAIN task = Askers /\ DataInv(points) /\ numbers \in Section
  BY DEF TraceInv, TasksInv
<1>2. CASE SaveInsert(k) /\ Ends(k)
  BY <1>2, EndsStep DEF SaveInsert
<1>3. CASE SaveInsert(k) /\ Moves(k, "written")
  <2> DEFINE l == [task[k] EXCEPT !.at = "written"]
  <2>1. l.op = "save" /\ l.at = "written" /\ l.form = task[k].form /\ DOMAIN l = DOMAIN task[k]
    BY <1>1, <1>3 DEF SaveInsert, Is, WriterFacts
  <2>2. WriterFacts(l) /\ HandFacts(l, points)
    BY <1>1, <1>3, <2>1 DEF SaveInsert, Is, WriterFacts, HandFacts
  <2>3. task'[k] = l /\ DOMAIN task' = Askers /\ \A j \in Askers \ {k} : task'[j] = task[j]
    BY <1>1, <1>3 DEF Moves
  <2>4. UNCHANGED points /\ numbers' \in Section
    BY <1>1, <1>3 DEF SaveInsert
  <2> HIDE DEF l
  <2> QED BY <2>2, <2>3, <2>4, TaskStep
<1>4. CASE ReconcileLook(k)
  <2> DEFINE seen == [f \in Keys |-> Look(f)]
             l == [task[k] EXCEPT !.at = "looked", !.seen = seen]
  <2>1. \A f \in Keys : IsIndex(seen[f])
    BY <1>1, LookFacts
  <2>2. task'[k] = l /\ DOMAIN task' = Askers /\ \A j \in Askers \ {k} : task'[j] = task[j]
    BY <1>1, <1>4 DEF ReconcileLook
  <2> HIDE DEF seen
  <2>3. /\ l.op = task[k].op /\ l.op \in {"save", "document"} /\ l.at = "looked"
        /\ l.form = task[k].form /\ l.seen = seen /\ DOMAIN l = DOMAIN task[k]
    BY <1>1, <1>4 DEF ReconcileLook, Writing, WriterFacts
  <2> HIDE DEF l
  <2>4. WriterFacts(l) /\ HandFacts(l, points)
    BY <1>1, <2>1, <2>3 DEF WriterFacts, HandFacts
  <2>5. UNCHANGED points /\ numbers' \in Section
    BY <1>1, <1>4 DEF ReconcileLook
  <2> QED BY <2>2, <2>4, <2>5, TaskStep
<1>5. CASE DocumentWrite(k)
  <2> DEFINE l == [task[k] EXCEPT !.at = "written"]
  <2>1. /\ l.op = "document" /\ l.at = "written" /\ l.form = task[k].form
        /\ DOMAIN l = DOMAIN task[k]
    BY <1>1, <1>5 DEF DocumentWrite, Is, WriterFacts
  <2>2. /\ task'[k] = l /\ DOMAIN task' = Askers
        /\ \A j \in Askers \ {k} : \/ task'[j] = task[j]
                                   \/ Writing(j) /\ task'[j] = [task[j] EXCEPT !.crossed = TRUE]
    BY <1>5 DEF DocumentWrite
  <2>3. task[k].form \in Section
    BY <1>1, <1>5 DEF DocumentWrite, Is, WriterFacts
  <2>4. UNCHANGED points /\ numbers' \in Section
    BY <1>5, <2>3 DEF DocumentWrite
  <2> HIDE DEF l
  <2>5. WriterFacts(l) /\ HandFacts(l, points)
    BY <1>1, <2>1, <2>3, <1>5 DEF WriterFacts, HandFacts, DocumentWrite, Is
  <2> QED BY <2>2, <2>4, <2>5, TaskStep
<1> QED BY <1>2, <1>3, <1>4, <1>5 DEF SaveInsert

\* A writer of the section reconciles its data.
LEMMA CommitSteps ==
  ASSUME TraceInv, NEW k \in Askers, SaveCommit(k) \/ DocumentCommit(k)
  PROVE  TraceInv' /\ Grows(points, points')
<1>1. /\ task[k].op \in {"save", "document"} /\ task[k].at = "looked"
      /\ points' = Reconciled(task[k].seen, task[k].form)
      /\ numbers' = numbers \/ numbers' = task[k].form
  BY DEF SaveCommit, DocumentCommit, Is
<1>2. /\ task[k].form \in Section /\ DataInv(points) /\ numbers \in Section
      /\ \A f \in Keys : IsIndex(task[k].seen[f])
  BY <1>1 DEF TraceInv, TasksInv, WriterFacts
<1>3. DataInv(points') /\ Grows(points, points') /\ numbers' \in Section
  BY <1>1, <1>2, ReconciledFacts
<1>4. CASE SaveCommit(k)
  <2>1. /\ DOMAIN task' = Askers /\ task'[k] = Unasked
        /\ \A j \in Askers \ {k} : \/ task'[j] = task[j]
                                   \/ Writing(j) /\ task'[j] = [task[j] EXCEPT !.crossed = TRUE]
    BY <1>4 DEF SaveCommit
  <2> QED BY <1>3, <2>1, UnaskedFacts, StepFacts
<1>5. CASE DocumentCommit(k)
  BY <1>3, <1>5, WrittenStep DEF DocumentCommit
<1> QED BY <1>4, <1>5

\* A datum is created by hand.
LEMMA PointWriteStep ==
  ASSUME TraceInv, NEW k \in Askers, PointWrite(k)
  PROVE  TraceInv' /\ Grows(points, points')
<1> DEFINE f == task[k].field  p == NewPoint(task[k].value)
<1>1. f \in Keys /\ task[k].value \in Nat /\ DataInv(points) /\ numbers \in Section
  BY DEF PointWrite, Is, TraceInv, TasksInv, HandFacts
<1>2. p \in Point /\ Stands(p)
  BY <1>1, NewPointFacts
<1>3. points' = [points EXCEPT ![f] = Append(points[f], p)]
  BY DEF PointWrite
<1> HIDE DEF f, p
<1>4. points[f] \in Seq(Point)
  BY <1>1 DEF DataInv
<1>5. /\ Append(points[f], p) \in Seq(Point) /\ Len(Append(points[f], p)) = Len(points[f]) + 1
      /\ \A i \in 1 .. Len(points[f]) : Append(points[f], p)[i] = points[f][i]
      /\ Append(points[f], p)[Len(points[f]) + 1] = p
      /\ DOMAIN Append(points[f], p) = 1 .. Len(points[f]) + 1
      /\ Len(points[f]) \in Nat /\ DOMAIN points[f] = 1 .. Len(points[f])
  BY <1>2, <1>4, AppendProperties, LenProperties
<1>6. points' \in [Keys -> Seq(Point)]
  BY <1>1, <1>3, <1>5 DEF DataInv
<1>7. ASSUME NEW g \in Keys
      PROVE  /\ Len(points[g]) <= Len(points'[g])
             /\ \A i \in DOMAIN points[g] : Extends(points[g][i], points'[g][i])
             /\ \A i \in DOMAIN points'[g] : Stands(points'[g][i])
  <2>1. points[g] \in Seq(Point) /\ points'[g] = IF g = f THEN Append(points[f], p) ELSE points[g]
    BY <1>1, <1>3 DEF DataInv
  <2>2. \A i \in DOMAIN points[g] : points[g][i] \in Point /\ Stands(points[g][i])
    BY <1>1, <2>1, LenProperties, ElementOfSeq DEF DataInv
  <2>3. Len(points[g]) \in Nat
    BY <2>1, LenProperties
  <2>4. CASE g # f
    BY <2>1, <2>2, <2>3, <2>4, UnchangedExtends
  <2>5. CASE g = f
    BY <1>2, <1>5, <2>1, <2>2, <2>5, UnchangedExtends
  <2> QED BY <2>4, <2>5
<1>8. DataInv(points') /\ Grows(points, points')
  BY <1>1, <1>6, <1>7, DataAdded
<1>9. numbers' \in Section /\ EndsAndCrosses(k)
  BY <1>1 DEF PointWrite
<1> QED BY <1>8, <1>9, WrittenStep

\* What a request that writes a datum holds.
LEMMA DatumFacts ==
  ASSUME TraceInv, NEW k \in Askers, task[k].op \in {"correct", "validate", "void", "attach"}
  PROVE  /\ task[k].field \in Keys /\ task[k].datum \in DOMAIN points[task[k].field]
         /\ Datum(k) \in Point /\ Stands(Datum(k))
<1>1. task[k].field \in Keys /\ task[k].datum \in DOMAIN points[task[k].field]
  BY DEF TraceInv, TasksInv, HandFacts
<1>2. points[task[k].field] \in Seq(Point)
  BY <1>1 DEF TraceInv, DataInv
<1> QED BY <1>1, <1>2, LenProperties, ElementOfSeq DEF Datum, TraceInv, DataInv

LEMMA ReplacesStep ==
  ASSUME TraceInv, NEW k \in Askers, task[k].op \in {"correct", "validate", "void", "attach"},
         NEW q \in Point, Stands(q), Extends(Datum(k), q), Replaces(k, q),
         Ends(k) \/ EndsAndCrosses(k), UNCHANGED numbers
  PROVE  TraceInv' /\ Grows(points, points')
<1> DEFINE f == task[k].field  i == task[k].datum
<1>1. f \in Keys /\ i \in DOMAIN points[f]
  BY DatumFacts
<1>2. points' = [points EXCEPT ![f][i] = q] /\ Extends(points[f][i], q)
  BY DEF Replaces, Datum
<1> HIDE DEF f, i
<1>3. DataInv(points')  /\ Grows(points, points')
  BY <1>1, <1>2, DatumReplaced DEF TraceInv
<1>4. numbers' \in Section
  BY DEF TraceInv
<1> QED BY <1>3, <1>4, WrittenStep

LEMMA LastReadStep ==
  ASSUME TraceInv, NEW k \in Askers, LastRead(k)
  PROVE  TraceInv' /\ Grows(points, points')
<1>1. task[k].op \in {"correct", "attach"}
  BY DEF LastRead, Is
<1>2. CASE Ends(k)
  BY <1>2, EndsStep DEF LastRead
<1>3. CASE ~Ends(k)
  <2> DEFINE l == [op |-> task[k].op, at |-> "read", field |-> task[k].field,
                   datum |-> task[k].datum, number |-> Len(Datum(k).versions) + 1,
                   value |-> Current(Datum(k)).value]
  <2>1. task' = [task EXCEPT ![k] = l] /\ UNCHANGED <<points, numbers>>
    BY <1>3 DEF LastRead
  <2>2. /\ task[k].field \in Keys /\ task[k].datum \in DOMAIN points[task[k].field]
        /\ Datum(k) \in Point
    BY <1>1, DatumFacts
  <2>3. Len(Datum(k).versions) \in Nat
    BY <2>2, CurrentIsVersion
  <2>4. WriterFacts(l) /\ HandFacts(l, points)
    <3>1. /\ l.op = task[k].op /\ l.field = task[k].field /\ l.datum = task[k].datum
          /\ l.number = Len(Datum(k).versions) + 1 /\ l.value = Current(Datum(k)).value
      OBVIOUS
    <3>2. Datum(k) = points[l.field][l.datum]
      BY <3>1 DEF Datum
    <3> HIDE DEF l
    <3>3. l.number \in Nat /\ l.number <= Len(Datum(k).versions) + 1
      BY <2>3, <3>1
    <3> QED BY <1>1, <2>2, <3>1, <3>2, <3>3 DEF WriterFacts, HandFacts
  <2> HIDE DEF l
  <2>5. task'[k] = l /\ DOMAIN task' = Askers /\ \A j \in Askers \ {k} : task'[j] = task[j]
    BY <2>1 DEF TraceInv, TasksInv
  <2>6. UNCHANGED points /\ numbers' \in Section
    BY <2>1 DEF TraceInv
  <2> QED BY <2>4, <2>5, <2>6, TaskStep
<1> QED BY <1>2, <1>3

\* A datum is corrected, backed by a paper, signed or voided by hand.
LEMMA HandSteps ==
  ASSUME TraceInv, NEW k \in Askers
  PROVE  /\ \A value \in Amounts : CorrectWrite(k, value) => TraceInv' /\ Grows(points, points')
         /\ AttachWrite(k) \/ ValidateWrite(k) \/ VoidWrite(k) =>
              TraceInv' /\ Grows(points, points')
<1>1. ASSUME NEW value \in Amounts, CorrectWrite(k, value)
      PROVE  TraceInv' /\ Grows(points, points')
  <2>1. task[k].op = "correct" /\ UNCHANGED numbers /\ value \in Nat
    BY <1>1, TraceabilityAssumption DEF CorrectWrite, Is
  <2>2. CASE NumberIsFree(k)
    <3> DEFINE q == Corrected(Datum(k), value)
    <3>1. q \in Point /\ Stands(q) /\ Extends(Datum(k), q)
      BY <2>1, DatumFacts, CorrectedFacts
    <3>2. Replaces(k, q) /\ EndsAndCrosses(k)
      BY <1>1, <2>2 DEF CorrectWrite
    <3> HIDE DEF q
    <3> QED BY <2>1, <3>1, <3>2, ReplacesStep
  <2>3. CASE ~NumberIsFree(k)
    BY <1>1, <2>1, <2>3, EndsStep DEF CorrectWrite
  <2> QED BY <2>2, <2>3
<1>2. ASSUME AttachWrite(k)
      PROVE  TraceInv' /\ Grows(points, points')
  <2>1. task[k].op = "attach" /\ task[k].at = "read" /\ UNCHANGED numbers /\ Ends(k)
    BY <1>2 DEF AttachWrite, Is
  <2>2. CASE NumberIsFree(k)
    <3> DEFINE version == [value |-> task[k].value, paper |-> TRUE]
               q == [Datum(k) EXCEPT !.versions = Append(@, version)]
    <3>1. Datum(k) \in Point /\ Stands(Datum(k))
      BY <2>1, DatumFacts
    \* The number is free: nobody has written the datum since it was read.
    <3>2. task[k].value = Current(Datum(k)).value
      BY <2>1, <2>2 DEF TraceInv, TasksInv, HandFacts, NumberIsFree, Datum
    <3>3. version \in Version
      BY <3>1, <3>2, CurrentIsVersion DEF Version
    <3>4. Replaces(k, q)
      BY <1>2, <2>2 DEF AttachWrite
    <3>5. version.value = Current(Datum(k)).value
      BY <3>2
    <3> HIDE DEF version
    <3>6. q \in [voided : BOOLEAN, status : {"borrador", "validado", "anulado"},
                 signed : Nat \union {"nothing"}, versions : {Append(Datum(k).versions, version)}]
          /\ q.status = Datum(k).status /\ q.signed = Datum(k).signed
      BY <3>1 DEF Point
    <3> HIDE DEF q
    <3>7. q \in Point /\ Extends(Datum(k), q) /\ Current(q) = version
      BY <3>1, <3>3, <3>6, AppendedFacts
    <3>8. Stands(q)
      BY <3>1, <3>5, <3>6, <3>7 DEF Stands
    <3> QED BY <2>1, <3>4, <3>7, <3>8, ReplacesStep
  <2>3. CASE ~NumberIsFree(k)
    BY <1>2, <2>1, <2>3, EndsStep DEF AttachWrite
  <2> QED BY <2>2, <2>3
<1>3. ASSUME ValidateWrite(k)
      PROVE  TraceInv' /\ Grows(points, points')
  <2> DEFINE p == Datum(k)
             q == [p EXCEPT !.status = "validado", !.signed = Current(p).value]
  <2>1. task[k].op = "validate" /\ UNCHANGED numbers /\ Ends(k) /\ Replaces(k, q)
    BY <1>3 DEF ValidateWrite, Is
  <2>2. p \in Point
    BY <2>1, DatumFacts
  <2>3. Current(p).value \in Nat /\ Len(p.versions) \in Nat
    BY <2>2, CurrentIsVersion DEF Version
  <2> HIDE DEF p
  <2>4. q \in Point /\ q.versions = p.versions /\ q.signed = Current(p).value
    BY <2>2, <2>3 DEF Point
  <2> HIDE DEF q
  <2>5. Stands(q) /\ Extends(p, q)
    BY <2>3, <2>4 DEF Stands, Extends, Current
  <2> QED BY <2>1, <2>4, <2>5, ReplacesStep DEF p
<1>4. ASSUME VoidWrite(k)
      PROVE  TraceInv' /\ Grows(points, points')
  <2>1. task[k].op = "void" /\ UNCHANGED numbers /\ EndsAndCrosses(k) /\ Replaces(k, Voided(Datum(k)))
    BY <1>4 DEF VoidWrite, Is
  <2> QED BY <2>1, DatumFacts, VoidedFacts, ReplacesStep
<1> QED BY <1>1, <1>2, <1>3, <1>4

LEMMA TraceInvStep ==
  ASSUME TraceInv, [TraceabilityNext]_traceVars
  PROVE  TraceInv' /\ Grows(points, points')
<1>1. CASE UNCHANGED traceVars
  <2>1. TraceInv' /\ points' = points
    BY <1>1 DEF traceVars, TraceInv, TasksInv, DataInv
  <2> QED BY <2>1, GrowsSelf DEF TraceInv
<1>2. CASE TraceabilityNext
  <2>1. PICK k \in Askers :
          \/ \E form \in SectionForms : SaveBegin(k, form)
          \/ SaveInsert(k) \/ ReconcileLook(k) \/ SaveCommit(k) \/ SaveAborts(k)
          \/ \E f \in Keys, value \in Amounts : DocumentBegin(k, f, value) \/ PointRead(k, f, value)
          \/ DocumentWrite(k) \/ DocumentCommit(k) \/ DocumentStops(k)
          \/ PointWrite(k)
          \/ \E op \in {"correct", "validate", "void", "attach"}, f \in Keys, i \in 1 .. MaxPoints :
               HandBegin(k, op, f, i)
          \/ LastRead(k)
          \/ \E value \in Amounts : CorrectWrite(k, value)
          \/ AttachWrite(k) \/ ValidateWrite(k) \/ VoidWrite(k)
    BY <1>2 DEF TraceabilityNext
  <2>2. CASE SaveAborts(k) \/ DocumentStops(k)
    BY <2>2, EndsStep DEF SaveAborts, DocumentStops
  <2> QED BY <2>1, <2>2, BeginSteps, WriterSteps, CommitSteps, PointWriteStep, LastReadStep, HandSteps
<1> QED BY <1>1, <1>2

LEMMA TraceInvInit ==
  ASSUME TraceabilityInit
  PROVE  TraceInv
<1>1. numbers \in Section
  BY EmptySeq DEF TraceabilityInit, Section
<1>2. points \in [Keys -> Seq(Point)] /\ \A f \in Keys : DOMAIN points[f] = {}
  BY EmptySeq DEF TraceabilityInit
<1>3. DOMAIN task = Askers /\ \A k \in Askers : task[k] = Unasked
  BY DEF TraceabilityInit
<1> QED BY <1>1, <1>2, <1>3, UnaskedFacts DEF TraceInv, DataInv, TasksInv

\* However many people and forms write at once, a signature covers no other number than
\* the one in force when it was given.
THEOREM SignatureStands == TraceabilitySpec => []SignedNumberStands
<1>1. TraceInv => SignedNumberStands
  BY DEF TraceInv, DataInv, Stands, SignedNumberStands
<1>2. TraceabilityInit => TraceInv
  BY TraceInvInit
<1>3. TraceInv /\ [TraceabilityNext]_traceVars => TraceInv'
  BY TraceInvStep
<1> QED BY <1>1, <1>2, <1>3, PTL DEF TraceabilitySpec

\* No step takes a datum away, or changes or removes a version of it: neither a form, nor a
\* document, nor a person.
THEOREM VersionsStay == TraceabilitySpec => [][Grows(points, points')]_traceVars
<1>1. TraceabilityInit => TraceInv
  BY TraceInvInit
<1>2. TraceInv /\ [TraceabilityNext]_traceVars => TraceInv' /\ Grows(points, points')
  BY TraceInvStep
<1> QED BY <1>1, <1>2, PTL DEF TraceabilitySpec

-----------------------------------------------------------------------------
(* Finite sets of naturals in their order.                                   *)

Below(S, i) == {j \in S : j <= i}

Listing(S) == [n \in 1 .. Cardinality(S) |-> CHOOSE i \in S : Cardinality(Below(S, i)) = n]

\* g goes through S in its order.
Lists(g, S) ==
  /\ Len(g) \in Nat /\ DOMAIN g = 1 .. Len(g)
  /\ \A n \in 1 .. Len(g) : g[n] \in S
  /\ \A m, n \in 1 .. Len(g) : m < n => g[m] < g[n]
  /\ \A i \in S : \E n \in 1 .. Len(g) : g[n] = i

\* How many are not above an element tells which one it is.
LEMMA RankFacts ==
  ASSUME NEW S, S \subseteq Nat, IsFiniteSet(S)
  PROVE  /\ \A i \in S : Cardinality(Below(S, i)) \in 1 .. Cardinality(S)
         /\ \A i, j \in S : i < j => Cardinality(Below(S, i)) < Cardinality(Below(S, j))
<1>1. ASSUME NEW i \in S
      PROVE  /\ IsFiniteSet(Below(S, i)) /\ Cardinality(Below(S, i)) \in 1 .. Cardinality(S)
  <2>1. Below(S, i) \in SUBSET S
    BY DEF Below
  <2>2. IsFiniteSet(Below(S, i)) /\ Cardinality(Below(S, i)) <= Cardinality(S)
    BY <2>1, FS_Subset
  <2>3. i \in Below(S, i)
    BY DEF Below
  <2>4. Cardinality(Below(S, i)) # 0
    BY <2>2, <2>3, FS_EmptySet
  <2>5. Cardinality(Below(S, i)) \in Nat /\ Cardinality(S) \in Nat
    BY <2>2, FS_CardinalityType
  <2> QED BY <2>2, <2>4, <2>5
<1>2. ASSUME NEW i \in S, NEW j \in S, i < j
      PROVE  Cardinality(Below(S, i)) < Cardinality(Below(S, j))
  <2>1. Below(S, i) \in SUBSET Below(S, j)
    <3>1. i \in Nat /\ j \in Nat /\ \A k \in S : k \in Nat
      OBVIOUS
    <3>2. \A k \in S : k <= i => k <= j
      BY <1>2, <3>1
    <3> QED BY <3>2 DEF Below
  <2>2. j \in Below(S, j) /\ j \notin Below(S, i)
    <3>1. i \in Nat /\ j \in Nat
      OBVIOUS
    <3> QED BY <1>2, <3>1 DEF Below
  <2>3. /\ Cardinality(Below(S, i)) <= Cardinality(Below(S, j))
        /\ Cardinality(Below(S, j)) # Cardinality(Below(S, i))
    BY <1>1, <2>1, <2>2, FS_Subset
  <2>4. Cardinality(Below(S, i)) \in Nat /\ Cardinality(Below(S, j)) \in Nat
    BY <1>1, FS_CardinalityType
  <2> QED BY <2>3, <2>4
<1> QED BY <1>1, <1>2

\* Whatever goes through the set in its order is that listing of it.
LEMMA ListsIsListing ==
  ASSUME NEW S, S \subseteq Nat, IsFiniteSet(S), NEW g, Lists(g, S)
  PROVE  /\ Cardinality(S) = Len(g)
         /\ \A n \in 1 .. Len(g) : Listing(S)[n] = g[n]
<1> DEFINE m == Len(g)
<1>1. /\ m \in Nat /\ DOMAIN g = 1 .. m /\ \A n \in 1 .. m : g[n] \in S
      /\ \A k, n \in 1 .. m : k < n => g[k] < g[n]
      /\ \A i \in S : \E n \in 1 .. m : g[n] = i
  BY DEF Lists
<1> HIDE DEF m
<1>2. ASSUME NEW n \in 0 .. m
      PROVE  \A T : T = {g[k] : k \in 1 .. n} => IsFiniteSet(T) /\ Cardinality(T) = n
  <2> SUFFICES ASSUME NEW T, T = {g[k] : k \in 1 .. n}
               PROVE  IsFiniteSet(T) /\ Cardinality(T) = n
    OBVIOUS
  <2> DEFINE h == [k \in 1 .. n |-> g[k]]
  <2>1. ASSUME NEW k \in 1 .. n
        PROVE  k \in 1 .. m /\ g[k] \in Nat
    <3>1. k \in 1 .. m
      BY <1>1
    <3>2. g[k] \in S
      BY <1>1, <3>1
    <3> QED BY <3>1, <3>2
  <2>2. \A k, l \in 1 .. n : g[k] = g[l] => k = l
    <3> SUFFICES ASSUME NEW k \in 1 .. n, NEW l \in 1 .. n, g[k] = g[l], k # l
                 PROVE  FALSE
      OBVIOUS
    <3>1. k < l \/ l < k
      OBVIOUS
    <3>2. g[k] \in Nat /\ g[l] \in Nat /\ (k < l => g[k] < g[l]) /\ (l < k => g[l] < g[k])
      BY <1>1, <2>1
    <3> QED BY <3>1, <3>2
  <2>3. h \in [1 .. n -> T] /\ \A t \in T : \E k \in 1 .. n : h[k] = t
    OBVIOUS
  <2>4. h \in Surjection(1 .. n, T)
    BY <2>3 DEF Surjection
  <2>5. h \in Injection(1 .. n, T)
    BY <2>2, <2>3 DEF Injection, IsInjective
  <2>6. IsFiniteSet(1 .. n) /\ Cardinality(1 .. n) = n
    BY <1>1, FS_Interval
  <2> HIDE DEF h
  <2> QED BY <2>4, <2>5, <2>6, FS_Surjection
<1>3. Cardinality(S) = m
  <2>1. S = {g[k] : k \in 1 .. m}
    BY <1>1
  <2> QED BY <1>1, <1>2, <2>1
<1>4. ASSUME NEW n \in 1 .. m
      PROVE  Cardinality(Below(S, g[n])) = n
  <2>1. Below(S, g[n]) = {g[k] : k \in 1 .. n}
    <3>1. ASSUME NEW i \in Below(S, g[n])
          PROVE  i \in {g[k] : k \in 1 .. n}
      <4>1. i \in S /\ i <= g[n]
        BY DEF Below
      <4>2. PICK k \in 1 .. m : g[k] = i
        BY <1>1, <4>1
      <4>3. ~ n < k
        <5>1. g[n] \in Nat /\ g[k] \in Nat /\ (n < k => g[n] < g[k])
          BY <1>1
        <5> QED BY <4>1, <4>2, <5>1
      <4>4. k \in 1 .. n
        BY <4>3
      <4> QED BY <4>2, <4>4
    <3>2. ASSUME NEW k \in 1 .. n
          PROVE  g[k] \in Below(S, g[n])
      <4>1. k \in 1 .. m /\ (k < n \/ k = n)
        BY <1>1
      <4>2. g[k] \in S /\ g[k] \in Nat /\ g[n] \in Nat /\ (k < n => g[k] < g[n])
        BY <1>1, <4>1
      <4> QED BY <4>1, <4>2 DEF Below
    <3> QED BY <3>1, <3>2
  <2>2. n \in 0 .. m
    OBVIOUS
  <2> QED BY <1>2, <2>1, <2>2
<1>5. ASSUME NEW n \in 1 .. m
      PROVE  Listing(S)[n] = g[n]
  <2>1. g[n] \in S /\ Cardinality(Below(S, g[n])) = n
    BY <1>1, <1>4
  <2>2. \A i \in S : Cardinality(Below(S, i)) = n => i = g[n]
    <3> SUFFICES ASSUME NEW i \in S, Cardinality(Below(S, i)) = n
                 PROVE  i = g[n]
      OBVIOUS
    <3>1. PICK k \in 1 .. m : g[k] = i
      BY <1>1
    <3> QED BY <1>4, <3>1
  <2>3. (CHOOSE i \in S : Cardinality(Below(S, i)) = n) = g[n]
    BY <2>1, <2>2
  <2> QED BY <1>3, <2>3 DEF Listing
<1> QED BY <1>3, <1>5 DEF m

\* The listing goes through the set in its order.
LEMMA ListingLists ==
  ASSUME NEW S, S \subseteq Nat, IsFiniteSet(S)
  PROVE  Lists(Listing(S), S) /\ Listing(S) \in Seq(S) /\ Len(Listing(S)) = Cardinality(S)
<1> DEFINE c == Cardinality(S)  g == Listing(S)
           rank == [i \in S |-> Cardinality(Below(S, i))]
<1>1. c \in Nat
  BY FS_CardinalityType
<1>2. \A i \in S : rank[i] \in 1 .. c
  BY RankFacts
<1>3. \A i, j \in S : i < j => rank[i] < rank[j]
  BY RankFacts
<1> HIDE DEF rank
<1>4. rank \in [S -> 1 .. c]
  BY <1>2 DEF rank
<1>5. rank \in Injection(S, 1 .. c)
  <2>1. \A i, j \in S : rank[i] = rank[j] => i = j
    <3> SUFFICES ASSUME NEW i \in S, NEW j \in S, rank[i] = rank[j], i # j
                 PROVE  FALSE
      OBVIOUS
    <3>1. i < j \/ j < i
      OBVIOUS
    <3>2. rank[i] \in Nat /\ rank[j] \in Nat
      BY <1>1, <1>2
    <3> QED BY <1>3, <3>1, <3>2
  <2> QED BY <1>4, <2>1 DEF Injection, IsInjective
<1>6. IsFiniteSet(1 .. c) /\ Cardinality(1 .. c) = c
  BY <1>1, FS_Interval
<1>7. rank \in Surjection(S, 1 .. c)
  BY <1>5, <1>6, FS_Injection DEF c
<1>8. \A n \in 1 .. c : \E i \in S : rank[i] = n
  BY <1>7 DEF Surjection
<1>9. ASSUME NEW n \in 1 .. c
      PROVE  g[n] \in S /\ rank[g[n]] = n
  <2>1. g[n] = CHOOSE i \in S : Cardinality(Below(S, i)) = n
    BY DEF Listing
  <2>2. \E i \in S : Cardinality(Below(S, i)) = n
    BY <1>8 DEF rank
  <2>3. g[n] \in S /\ Cardinality(Below(S, g[n])) = n
    BY <2>1, <2>2
  <2> QED BY <2>3 DEF rank
<1>10. DOMAIN g = 1 .. c
  BY DEF Listing
<1> HIDE DEF g, c
<1>11. g \in Seq(S) /\ Len(g) = c
  <2>1. g = [n \in 1 .. c |-> g[n]]
    BY DEF g, c, Listing
  <2>2. g \in [1 .. c -> S]
    BY <1>9, <2>1
  <2>3. g \in Seq(S)
    BY <1>1, <2>2, SeqDef
  <2> QED BY <1>1, <1>10, <2>3, LenProperties
<1>12. ASSUME NEW m \in 1 .. c, NEW n \in 1 .. c, m < n
       PROVE  g[m] < g[n]
  <2>1. /\ g[m] \in S /\ g[n] \in S /\ g[m] \in Nat /\ g[n] \in Nat
        /\ rank[g[m]] = m /\ rank[g[n]] = n
    BY <1>9
  <2>2. g[m] # g[n]
    BY <1>12, <2>1
  <2>3. ~ g[n] < g[m]
    <3> SUFFICES ASSUME g[n] < g[m] PROVE FALSE
      OBVIOUS
    <3>1. rank[g[n]] < rank[g[m]]
      BY <1>3, <2>1
    <3> QED BY <1>12, <2>1, <3>1
  <2> QED BY <2>1, <2>2, <2>3
<1>13. ASSUME NEW i \in S
       PROVE  \E n \in 1 .. c : g[n] = i
  <2>1. rank[i] \in 1 .. c
    BY <1>2
  <2>2. g[rank[i]] \in S /\ rank[g[rank[i]]] = rank[i]
    BY <1>9, <2>1
  <2>3. g[rank[i]] = i
    BY <1>5, <2>2 DEF Injection, IsInjective
  <2> QED BY <2>1, <2>3
<1> QED BY <1>1, <1>9, <1>10, <1>11, <1>12, <1>13 DEF Lists, g, c

-----------------------------------------------------------------------------
(* What the reconciler does to one field.                                    *)

LiveOf(pts) == {i \in DOMAIN pts : ~pts[i].voided}

Settling(pts, seen, wanted) ==
  [i \in DOMAIN pts |-> Settled(pts[i], i, seen, wanted)] \o Missing(seen, wanted)

More(seen, wanted) == IF Len(wanted) > Len(seen) THEN Len(wanted) - Len(seen) ELSE 0

LEMMA SettlingFacts ==
  ASSUME NEW pts \in Seq(Point), NEW seen, IsIndex(seen), NEW wanted \in Seq(Nat)
  PROVE  LET new == Settling(pts, seen, wanted)
         IN /\ Len(pts) \in Nat /\ More(seen, wanted) \in Nat
            /\ DOMAIN new = 1 .. Len(pts) + More(seen, wanted)
            /\ \A i \in 1 .. Len(pts) : new[i] = Settled(pts[i], i, seen, wanted)
            /\ \A q \in 1 .. More(seen, wanted) :
                 new[Len(pts) + q] = NewPoint(wanted[Len(seen) + q])
<1> DEFINE len == Len(pts)  c == More(seen, wanted)
           kept == [i \in 1 .. len |-> Settled(pts[i], i, seen, wanted)]
           more == Missing(seen, wanted)
           A == {kept[i] : i \in 1 .. len} \union {more[q] : q \in 1 .. c}
<1>1. len \in Nat /\ DOMAIN pts = 1 .. len
  BY LenProperties
<1>2. Len(wanted) \in Nat /\ Len(seen) \in Nat
  BY LenProperties DEF IsIndex
<1>3. c \in Nat /\ 1 .. (Len(wanted) - Len(seen)) = 1 .. c
  <2>1. CASE Len(wanted) > Len(seen)
    BY <1>2, <2>1 DEF More
  <2>2. CASE ~ Len(wanted) > Len(seen)
    <3>1. c = 0
      BY <2>2 DEF More
    <3> QED BY <1>2, <2>2, <3>1
  <2> QED BY <2>1, <2>2
<1>4. /\ more = [q \in 1 .. c |-> NewPoint(wanted[Len(seen) + q])]
      /\ Settling(pts, seen, wanted) = kept \o more
  BY <1>1, <1>3 DEF Missing, Settling
<1>5. kept \in [1 .. len -> A] /\ more \in [1 .. c -> A]
  BY <1>4
<1>6. \A i \in 1 .. len : kept[i] = Settled(pts[i], i, seen, wanted)
  OBVIOUS
<1>7. \A q \in 1 .. c : more[q] = NewPoint(wanted[Len(seen) + q])
  BY <1>4
<1> HIDE DEF kept, more, A, len, c
<1>8. /\ kept \in Seq(A) /\ Len(kept) = len
      /\ more \in Seq(A) /\ Len(more) = c
  BY <1>1, <1>3, <1>5, SeqDef, LenProperties
<1>9. /\ kept \o more \in Seq(A) /\ Len(kept \o more) = len + c
      /\ \A i \in 1 .. len + c : (kept \o more)[i] = IF i <= len THEN kept[i] ELSE more[i - len]
  BY <1>8, ConcatProperties
<1>10. DOMAIN (kept \o more) = 1 .. len + c
  BY <1>9, LenProperties
<1>11. \A i \in 1 .. len : (kept \o more)[i] = kept[i]
  BY <1>1, <1>3, <1>9
<1>12. ASSUME NEW q \in 1 .. c
       PROVE  (kept \o more)[len + q] = more[q]
  <2>1. len + q \in 1 .. len + c /\ ~ len + q <= len /\ (len + q) - len = q
    BY <1>1, <1>3
  <2> QED BY <1>9, <2>1
<1> QED BY <1>1, <1>3, <1>4, <1>6, <1>7, <1>10, <1>11, <1>12 DEF len, c

LEMMA SettledCases ==
  ASSUME NEW p \in Point, NEW i, NEW seen, IsIndex(seen), NEW wanted \in Seq(Nat),
         \A a, b \in 1 .. Len(seen) : seen[a].at = seen[b].at => a = b
  PROVE  LET q == Settled(p, i, seen, wanted)
         IN /\ (\A n \in 1 .. Len(seen) : seen[n].at # i) => q = p
            /\ \A n \in 1 .. Len(seen) : seen[n].at = i =>
                 /\ n > Len(wanted) => q.voided
                 /\ n <= Len(wanted) =>
                      /\ q.voided = p.voided
                      /\ seen[n].value = Current(p).value => Current(q).value = wanted[n]
<1> DEFINE q == Settled(p, i, seen, wanted)
<1>1. DOMAIN seen = 1 .. Len(seen) /\ Len(seen) \in Nat /\ Len(wanted) \in Nat
  BY LenProperties DEF IsIndex
<1>2. (\A n \in 1 .. Len(seen) : seen[n].at # i) => q = p
  BY <1>1 DEF Settled
<1>3. ASSUME NEW n \in 1 .. Len(seen), seen[n].at = i
      PROVE  /\ n > Len(wanted) => q.voided
             /\ n <= Len(wanted) =>
                  /\ q.voided = p.voided
                  /\ seen[n].value = Current(p).value => Current(q).value = wanted[n]
  <2>1. (CHOOSE m \in DOMAIN seen : seen[m].at = i) = n
    BY <1>1, <1>3
  <2>2. q = IF n > Len(wanted) THEN Voided(p)
            ELSE IF seen[n].value = wanted[n] THEN p ELSE Corrected(p, wanted[n])
    BY <1>1, <1>3, <2>1 DEF Settled
  <2> HIDE DEF q
  <2>3. n > Len(wanted) => q.voided
    BY <2>2 DEF Voided, Point
  <2>4. ASSUME n <= Len(wanted)
        PROVE  /\ q.voided = p.voided
               /\ seen[n].value = Current(p).value => Current(q).value = wanted[n]
    <3>1. ~ n > Len(wanted)
      BY <1>1, <2>4
    <3>2. wanted[n] \in Nat
      BY <1>1, <2>4, ElementOfSeq
    <3>3. CASE seen[n].value = wanted[n]
      BY <2>2, <3>1, <3>3
    <3>4. CASE seen[n].value # wanted[n]
      <4> DEFINE v == [value |-> wanted[n], paper |-> FALSE]
      <4>1. q = Corrected(p, wanted[n])
        BY <2>2, <3>1, <3>4
      <4>2. v \in Version /\ v.value = wanted[n]
        BY <3>2 DEF Version
      <4>3. q \in [voided : BOOLEAN, status : {"borrador", "validado", "anulado"},
                   signed : Nat \union {"nothing"}, versions : {Append(p.versions, v)}]
            /\ q.voided = p.voided
        BY <4>1 DEF Corrected, Point
      <4> HIDE DEF v
      <4>4. Current(q) = v
        BY <4>2, <4>3, AppendedFacts
      <4> QED BY <4>2, <4>3, <4>4
    <3> QED BY <3>3, <3>4
  <2> QED BY <2>3, <2>4
<1> QED BY <1>2, <1>3

\* An index of the live data g of a field.
IndexOf(pts, g, seen) ==
  /\ IsIndex(seen) /\ Len(seen) = Len(g)
  /\ \A n \in 1 .. Len(g) : seen[n].at = g[n] /\ seen[n].value = Current(pts[g[n]]).value

\* Reconciled by the index of its live data, a field has one for each number, in their order.
LEMMA AllSettled ==
  ASSUME NEW pts \in Seq(Point), NEW old, Lists(old, LiveOf(pts)),
         NEW seen, IndexOf(pts, old, seen), NEW wanted \in Seq(Nat),
         NEW new, new = Settling(pts, seen, wanted)
  PROVE  \E g : /\ Lists(g, LiveOf(new)) /\ Len(g) = Len(wanted)
                /\ \A n \in 1 .. Len(wanted) : Current(new[g[n]]).value = wanted[n]
<1> DEFINE len == Len(pts)  m == Len(old)  w == Len(wanted)  c == More(seen, wanted)
           g == [n \in 1 .. w |-> IF n <= m THEN old[n] ELSE len + (n - m)]
<1>1. /\ len \in Nat /\ m \in Nat /\ w \in Nat /\ c \in Nat
      /\ c = IF w > m THEN w - m ELSE 0
  BY SettlingFacts, LenProperties DEF IndexOf, Lists, More
<1>2. /\ Len(seen) = m /\ IsIndex(seen)
      /\ \A n \in 1 .. m : seen[n].at = old[n] /\ seen[n].value = Current(pts[old[n]]).value
  BY DEF IndexOf
<1>3. /\ \A n \in 1 .. m : old[n] \in LiveOf(pts) /\ old[n] \in 1 .. len
      /\ \A k, n \in 1 .. m : k < n => old[k] < old[n]
      /\ \A i \in LiveOf(pts) : \E n \in 1 .. m : old[n] = i
  <2>1. LiveOf(pts) \subseteq 1 .. len
    BY LenProperties DEF LiveOf
  <2> QED BY <2>1 DEF Lists
<1>4. /\ DOMAIN new = 1 .. len + c
      /\ \A i \in 1 .. len : new[i] = Settled(pts[i], i, seen, wanted)
      /\ \A q \in 1 .. c : new[len + q] = NewPoint(wanted[m + q])
  <2>1. LET n == Settling(pts, seen, wanted)
        IN /\ DOMAIN n = 1 .. len + c
           /\ \A i \in 1 .. len : n[i] = Settled(pts[i], i, seen, wanted)
           /\ \A q \in 1 .. c : n[len + q] = NewPoint(wanted[Len(seen) + q])
    BY <1>2, SettlingFacts
  <2> QED BY <1>2, <2>1
<1>5. \A i \in 1 .. len : pts[i] \in Point
  BY ElementOfSeq
<1>6. \A i \in 1 .. len : i \in LiveOf(pts) <=> ~pts[i].voided
  BY LenProperties DEF LiveOf
<1>7. \A n \in 1 .. w : wanted[n] \in Nat
  BY ElementOfSeq
<1> HIDE DEF len, m, w, c
<1>8. \A a, b \in 1 .. m : old[a] = old[b] => a = b
  <2> SUFFICES ASSUME NEW a \in 1 .. m, NEW b \in 1 .. m, old[a] = old[b], a # b
               PROVE  FALSE
    OBVIOUS
  <2>1. a < b \/ b < a
    OBVIOUS
  <2>2. old[a] \in Int /\ old[b] \in Int
    BY <1>3
  <2> QED BY <1>3, <2>1, <2>2
<1>9. \A a, b \in 1 .. Len(seen) : seen[a].at = seen[b].at => a = b
  BY <1>2, <1>8
\* A datum that was live stays so if a number is left for it, and has it.
<1>10. ASSUME NEW n \in 1 .. m
       PROVE  /\ n > w => new[old[n]].voided
              /\ n <= w => ~new[old[n]].voided /\ Current(new[old[n]]).value = wanted[n]
  <2> DEFINE i == old[n]
  <2>1. /\ i \in 1 .. len /\ pts[i] \in Point /\ ~pts[i].voided
        /\ new[i] = Settled(pts[i], i, seen, wanted)
        /\ n \in 1 .. Len(seen) /\ seen[n].at = i /\ seen[n].value = Current(pts[i]).value
    BY <1>2, <1>3, <1>4, <1>5, <1>6
  <2> HIDE DEF i
  <2>2. /\ n > w => new[i].voided
        /\ n <= w => new[i].voided = pts[i].voided /\ Current(new[i]).value = wanted[n]
    BY <1>2, <1>9, <2>1, SettledCases DEF w
  <2> QED BY <2>1, <2>2 DEF i
<1>11. ASSUME NEW i \in 1 .. len, i \notin LiveOf(pts)
       PROVE  new[i].voided
  <2>1. \A n \in 1 .. Len(seen) : seen[n].at # i
    BY <1>2, <1>3, <1>11
  <2>2. Settled(pts[i], i, seen, wanted) = pts[i]
    <3>1. \A n \in DOMAIN seen : seen[n].at # i
      BY <1>2, <2>1 DEF IsIndex
    <3> QED BY <3>1 DEF Settled
  <2> QED BY <1>4, <1>6, <1>11, <2>2
<1>12. ASSUME NEW q \in 1 .. c
       PROVE  ~new[len + q].voided /\ Current(new[len + q]).value = wanted[m + q]
  <2>1. \A v : ~NewPoint(v).voided /\ NewPoint(v).versions = <<[value |-> v, paper |-> FALSE]>>
    BY DEF NewPoint
  <2>2. \A x : Last(<<x>>) = x
    BY DEF Last
  <2>3. \A v : Current(NewPoint(v)).value = v
    <3> SUFFICES ASSUME NEW v PROVE Current(NewPoint(v)).value = v
      OBVIOUS
    <3>1. Current(NewPoint(v)) = [value |-> v, paper |-> FALSE]
      BY <2>1, <2>2 DEF Current
    <3> QED BY <3>1
  <2>4. new[len + q] = NewPoint(wanted[m + q])
    BY <1>4, <1>12
  <2> QED BY <2>1, <2>3, <2>4
<1>13. ASSUME NEW n \in 1 .. w
       PROVE  /\ g[n] \in LiveOf(new) /\ Current(new[g[n]]).value = wanted[n]
              /\ g[n] \in Int /\ (n <= m => g[n] <= len /\ g[n] = old[n])
              /\ (n > m => g[n] = len + (n - m))
  <2>1. CASE n <= m
    <3>1. g[n] = old[n] /\ n \in 1 .. m
      BY <1>1, <2>1
    <3>2. old[n] \in 1 .. len /\ n <= w
      BY <1>3, <3>1
    <3>3. old[n] \in DOMAIN new
      BY <1>1, <1>4, <3>2
    <3>4. ~new[old[n]].voided /\ Current(new[old[n]]).value = wanted[n]
      BY <1>10, <3>1, <3>2
    <3> HIDE DEF g
    <3> QED BY <1>1, <2>1, <3>1, <3>2, <3>3, <3>4 DEF LiveOf
  <2>2. CASE n > m
    <3>1. g[n] = len + (n - m) /\ n - m \in 1 .. c /\ m + (n - m) = n
      BY <1>1, <2>2
    <3>2. len + (n - m) \in DOMAIN new
      BY <1>1, <1>4, <3>1
    <3>3. ~new[len + (n - m)].voided /\ Current(new[len + (n - m)]).value = wanted[n]
      BY <1>12, <3>1
    <3> HIDE DEF g
    <3> QED BY <1>1, <2>2, <3>1, <3>2, <3>3 DEF LiveOf
  <2> QED BY <1>1, <2>1, <2>2
<1>14. ASSUME NEW i \in LiveOf(new)
       PROVE  \E n \in 1 .. w : g[n] = i
  <2>1. i \in 1 .. len + c /\ ~new[i].voided
    BY <1>4 DEF LiveOf
  <2>2. CASE i <= len
    <3>1. i \in 1 .. len
      BY <1>1, <2>1, <2>2
    <3>2. i \in LiveOf(pts)
      BY <1>11, <2>1, <3>1
    <3>3. PICK n \in 1 .. m : old[n] = i
      BY <1>3, <3>2
    <3>4. ~ n > w
      BY <1>10, <2>1, <3>3
    <3>5. n \in 1 .. w /\ n <= m
      BY <1>1, <3>4
    <3> QED BY <3>3, <3>5
  <2>3. CASE i > len
    <3> DEFINE q == i - len
    <3>1. q \in 1 .. c /\ i = len + q
      BY <1>1, <2>1, <2>3
    <3>2. m + q \in 1 .. w /\ ~ m + q <= m /\ (m + q) - m = q
      <4> HIDE DEF q
      <4> QED BY <1>1, <3>1
    <3>3. g[m + q] = len + q
      BY <3>2
    <3> QED BY <3>1, <3>2, <3>3
  <2> QED BY <1>1, <2>1, <2>2, <2>3
<1>15. DOMAIN g = 1 .. w
  OBVIOUS
<1>16. g \in [1 .. w -> LiveOf(new)]
  BY <1>13, <1>15
<1> HIDE DEF g
<1>17. Len(g) = w
  <2>1. g \in Seq(LiveOf(new))
    BY <1>1, <1>16, SeqDef
  <2> QED BY <1>1, <1>15, <2>1, LenProperties
<1>18. ASSUME NEW k \in 1 .. w, NEW n \in 1 .. w, k < n
       PROVE  g[k] < g[n]
  <2>1. g[k] \in Int /\ g[n] \in Int /\ k \in Nat /\ n \in Nat
    BY <1>13
  <2>2. CASE n <= m
    <3>1. k \in 1 .. m /\ n \in 1 .. m
      BY <1>1, <1>18, <2>2
    <3>2. g[k] = old[k] /\ g[n] = old[n]
      BY <1>13, <2>1, <3>1
    <3> QED BY <1>3, <1>18, <3>1, <3>2
  <2>3. CASE k <= m /\ n > m
    <3>1. g[k] <= len /\ g[n] = len + (n - m)
      BY <1>13, <2>3
    <3> QED BY <1>1, <2>1, <2>3, <3>1
  <2>4. CASE k > m
    <3>1. g[k] = len + (k - m) /\ g[n] = len + (n - m)
      BY <1>1, <1>13, <1>18, <2>1, <2>4
    <3> QED BY <1>1, <1>18, <2>1, <3>1
  <2> QED BY <1>1, <2>1, <2>2, <2>3, <2>4
<1>19. Lists(g, LiveOf(new))
  BY <1>1, <1>13, <1>14, <1>15, <1>17, <1>18 DEF Lists
<1> QED BY <1>13, <1>17, <1>19 DEF w

\* Reconciled by the index of the last one only, a field of one number keeps its data, and the
\* last has the number.
LEMMA LastSettled ==
  ASSUME NEW pts \in Seq(Point), NEW i \in LiveOf(pts),
         NEW seen, IsIndex(seen), Len(seen) = 1,
         seen[1].at = i, seen[1].value = Current(pts[i]).value,
         NEW wanted \in Seq(Nat), Len(wanted) = 1,
         NEW new, new = Settling(pts, seen, wanted)
  PROVE  LiveOf(new) = LiveOf(pts) /\ Current(new[i]).value = wanted[1]
<1> DEFINE len == Len(pts)
<1>1. More(seen, wanted) = 0 /\ len \in Nat /\ DOMAIN pts = 1 .. len
  BY LenProperties DEF More
<1>2. DOMAIN new = 1 .. len /\ \A j \in 1 .. len : new[j] = Settled(pts[j], j, seen, wanted)
  BY <1>1, SettlingFacts
<1>3. \A j \in 1 .. len : pts[j] \in Point
  BY ElementOfSeq
<1>4. \A a, b \in 1 .. Len(seen) : seen[a].at = seen[b].at => a = b
  OBVIOUS
<1>5. i \in 1 .. len
  BY <1>1 DEF LiveOf
<1> HIDE DEF len
<1>6. /\ \A j \in 1 .. len : j # i => new[j] = pts[j]
      /\ new[i].voided = pts[i].voided /\ Current(new[i]).value = wanted[1]
  <2>1. 1 .. Len(seen) = {1} /\ 1 <= Len(wanted)
    OBVIOUS
  <2>2. ASSUME NEW j \in 1 .. len, j # i
        PROVE  new[j] = pts[j]
    <3>1. \A n \in 1 .. Len(seen) : seen[n].at # j
      BY <2>1, <2>2
    <3>2. Settled(pts[j], j, seen, wanted) = pts[j]
      BY <1>3, <1>4, <3>1, SettledCases
    <3> QED BY <1>2, <3>2
  <2>3. LET q == Settled(pts[i], i, seen, wanted)
        IN q.voided = pts[i].voided /\ Current(q).value = wanted[1]
    <3>1. pts[i] \in Point /\ 1 \in 1 .. Len(seen)
      BY <1>3, <1>5, <2>1
    <3> QED BY <1>4, <2>1, <3>1, SettledCases
  <2> QED BY <1>2, <1>5, <2>2, <2>3
<1> QED BY <1>1, <1>2, <1>6 DEF LiveOf

LEMMA LiveFinite ==
  ASSUME NEW pts \in Seq(Point)
  PROVE  LiveOf(pts) \subseteq Nat /\ IsFiniteSet(LiveOf(pts))
<1>1. DOMAIN pts = 1 .. Len(pts) /\ Len(pts) \in Nat
  BY LenProperties
<1>2. IsFiniteSet(1 .. Len(pts)) /\ LiveOf(pts) \in SUBSET (1 .. Len(pts))
  BY <1>1, FS_Interval DEF LiveOf
<1>3. IsFiniteSet(LiveOf(pts))
  BY <1>2, FS_Subset
<1> QED BY <1>1, <1>2, <1>3

\* The index of a field: all its live data if it is a movement, else the last of them.
LEMMA IndexFacts ==
  ASSUME DataInv(points), NEW f \in Keys
  PROVE  /\ points[f] \in Seq(Point)
         /\ LiveData(f) = Listing(LiveOf(points[f]))
         /\ Lists(LiveData(f), LiveOf(points[f]))
         /\ f \in Movements \/ Len(LiveData(f)) = 0 =>
              Indexed(f) = LiveData(f) /\ IndexOf(points[f], LiveData(f), Look(f))
         /\ f \notin Movements /\ Len(LiveData(f)) # 0 =>
              LET i == LiveData(f)[Len(LiveData(f))]
              IN /\ i \in LiveOf(points[f]) /\ Indexed(f) = <<i>> /\ IsIndex(Look(f))
                 /\ Len(Look(f)) = 1 /\ Look(f)[1].at = i
                 /\ Look(f)[1].value = Current(points[f][i]).value
<1>1. points[f] \in Seq(Point)
  BY DEF DataInv
<1>2. LiveData(f) = Listing(LiveOf(points[f]))
  BY DEF LiveData, Listing, Alive, LiveOf, Below
<1> DEFINE L == LiveData(f)
<1>3. Lists(L, LiveOf(points[f]))
  BY <1>1, <1>2, LiveFinite, ListingLists
<1>4. /\ Len(L) \in Nat /\ DOMAIN L = 1 .. Len(L)
      /\ \A n \in 1 .. Len(L) : L[n] \in LiveOf(points[f])
  BY <1>3 DEF Lists
<1>5. L = << >> <=> Len(L) = 0
  <2>1. L \in Seq(LiveOf(points[f]))
    BY <1>1, <1>2, LiveFinite, ListingLists
  <2> HIDE DEF L
  <2> QED BY <2>1, EmptySeq, LenProperties
<1>6. IsIndex(Look(f)) /\ DOMAIN Look(f) = DOMAIN Indexed(f)
  BY LookFacts DEF Look
<1>7. \A n \in DOMAIN Indexed(f) :
        Look(f)[n] = [at |-> Indexed(f)[n], value |-> Current(points[f][Indexed(f)[n]]).value]
  BY DEF Look
<1>8. Indexed(f) = IF f \in Movements \/ L = << >> THEN L ELSE <<L[Len(L)]>>
  BY DEF Indexed, Last
<1> HIDE DEF L
<1>9. ASSUME f \in Movements \/ Len(L) = 0
      PROVE  Indexed(f) = L /\ IndexOf(points[f], L, Look(f))
  <2>1. Indexed(f) = L
    BY <1>5, <1>8, <1>9
  <2>2. Len(Look(f)) = Len(L)
    <3>1. 1 .. Len(Look(f)) = 1 .. Len(L) /\ Len(Look(f)) \in Nat
      BY <1>4, <1>6, <2>1 DEF IsIndex
    <3> QED BY <1>4, <3>1
  <2>3. \A n \in 1 .. Len(L) : Look(f)[n].at = L[n] /\ Look(f)[n].value = Current(points[f][L[n]]).value
    <3> SUFFICES ASSUME NEW n \in 1 .. Len(L)
                 PROVE  Look(f)[n].at = L[n] /\ Look(f)[n].value = Current(points[f][L[n]]).value
      OBVIOUS
    <3>1. Look(f)[n] = [at |-> L[n], value |-> Current(points[f][L[n]]).value]
      BY <1>4, <1>7, <2>1
    <3> QED BY <3>1
  <2> QED BY <1>6, <2>1, <2>2, <2>3 DEF IndexOf
<1>10. ASSUME f \notin Movements, Len(L) # 0
       PROVE  LET i == L[Len(L)]
              IN /\ i \in LiveOf(points[f]) /\ Indexed(f) = <<i>> /\ IsIndex(Look(f))
                 /\ Len(Look(f)) = 1 /\ Look(f)[1].at = i
                 /\ Look(f)[1].value = Current(points[f][i]).value
  <2> DEFINE i == L[Len(L)]
  <2>1. i \in LiveOf(points[f]) /\ Indexed(f) = <<i>>
    BY <1>4, <1>5, <1>8, <1>10
  <2> HIDE DEF i
  <2>2. DOMAIN Indexed(f) = {1} /\ Indexed(f)[1] = i
    BY <2>1
  <2>3. Look(f)[1].at = i /\ Look(f)[1].value = Current(points[f][i]).value
    BY <1>7, <2>2
  <2>4. Len(Look(f)) = 1
    <3>1. 1 .. Len(Look(f)) = {1} /\ Len(Look(f)) \in Nat
      BY <1>6, <2>2 DEF IsIndex
    <3>2. Len(Look(f)) >= 1
      <4>1. 1 \in 1 .. Len(Look(f))
        BY <3>1
      <4> QED BY <4>1, <3>1
    <3>3. Len(Look(f)) \in 1 .. Len(Look(f))
      BY <3>1, <3>2
    <3> QED BY <3>1, <3>3
  <2> QED BY <1>6, <2>1, <2>3, <2>4 DEF i
<1> QED BY <1>1, <1>2, <1>3, <1>9, <1>10 DEF L

\* A field whose index was the one there is opens to the numbers that were wanted.
LEMMA FieldTraced ==
  ASSUME DataInv(points), NEW f \in Keys, NEW wanted \in Seq(Nat),
         f \notin Movements => Len(wanted) <= 1,
         NEW new \in Seq(Point), new = Settling(points[f], Look(f), wanted),
         NEW live, live = Listing(LiveOf(new)),
         NEW index, index = IF f \in Movements \/ live = << >> THEN live ELSE <<Last(live)>>
  PROVE  /\ f \in Movements => Len(live) = Len(wanted)
         /\ \A n \in DOMAIN wanted :
              n <= Len(index) /\ Current(new[index[n]]).value = wanted[n]
<1> DEFINE L == LiveData(f)  w == Len(wanted)
<1>1. /\ points[f] \in Seq(Point) /\ L = Listing(LiveOf(points[f]))
      /\ Lists(L, LiveOf(points[f]))
  BY IndexFacts
<1>2. w \in Nat /\ DOMAIN wanted = 1 .. w
  BY LenProperties
<1>3. CASE f \in Movements \/ Len(L) = 0
  <2>1. IndexOf(points[f], L, Look(f))
    BY <1>3, IndexFacts
  <2>2. PICK g : /\ Lists(g, LiveOf(new)) /\ Len(g) = w
                 /\ \A n \in 1 .. w : Current(new[g[n]]).value = wanted[n]
    <3> HIDE DEF L
    <3> QED BY <1>1, <2>1, AllSettled
  <2>3. LiveOf(new) \subseteq Nat /\ IsFiniteSet(LiveOf(new))
    BY LiveFinite
  <2>4. Len(live) = w /\ \A n \in 1 .. w : live[n] = g[n]
    BY <2>2, <2>3, ListsIsListing, ListingLists
  <2> HIDE DEF L, w
  <2>5. CASE f \in Movements
    BY <1>2, <2>2, <2>4, <2>5 DEF w
  <2>6. CASE f \notin Movements
    <3> SUFFICES ASSUME NEW n \in DOMAIN wanted
                 PROVE  n <= Len(index) /\ Current(new[index[n]]).value = wanted[n]
      BY <2>6
    <3>1. w = 1 /\ n = 1
      BY <1>2, <2>6 DEF w
    <3>2. live # << >> /\ Last(live) = live[1]
      BY <2>4, <3>1 DEF Last
    <3>3. index = <<live[1]>>
      BY <2>6, <3>2
    <3>4. Len(index) = 1 /\ index[1] = g[1]
      BY <2>4, <3>1, <3>3
    <3> QED BY <2>2, <3>1, <3>4
  <2> QED BY <2>5, <2>6
<1>4. CASE f \notin Movements /\ Len(L) # 0
  <2> DEFINE i == L[Len(L)]
  <2>1. /\ i \in LiveOf(points[f]) /\ IsIndex(Look(f)) /\ Len(Look(f)) = 1
        /\ Look(f)[1].at = i /\ Look(f)[1].value = Current(points[f][i]).value
    BY <1>4, IndexFacts
  <2> HIDE DEF i
  <2> SUFFICES ASSUME NEW n \in DOMAIN wanted
               PROVE  n <= Len(index) /\ Current(new[index[n]]).value = wanted[n]
    BY <1>4
  <2>2. Len(wanted) = 1 /\ n = 1
    BY <1>2, <1>4
  <2>3. LiveOf(new) = LiveOf(points[f]) /\ Current(new[i]).value = wanted[1]
    BY <1>1, <2>1, <2>2, LastSettled
  <2>4. live = L
    BY <1>1, <2>3
  <2>5. live # << >> /\ Last(live) = i
    BY <1>4, <2>4 DEF Last, i
  <2>6. index = <<i>>
    BY <1>4, <2>5
  <2>7. Len(index) = 1 /\ index[1] = i
    BY <2>6
  <2> QED BY <2>2, <2>3, <2>7
<1> QED BY <1>1, <1>3, <1>4 DEF Lists

-----------------------------------------------------------------------------
(* The section and its data.                                                 *)

\* A field that no other movement shares has one number.
OneNumberEach == \A form \in SectionForms : \A f \in Keys \ Movements : Len(form[f]) <= 1

Short(form) == \A f \in Keys \ Movements : Len(form[f]) <= 1
View == [f \in Keys |-> Look(f)]
Busy(l) == l.op \in {"save", "document"} /\ l.at \in {"written", "looked"}
Saves(l) == l.op = "save" /\ Busy(l)

\* A save that has inserted its version has the number after the last.
Numbered(l, last) == l.op = "save" => /\ "number" \in DOMAIN l /\ l.number \in Nat
                                      /\ l.number <= last + 1
                                      /\ Saves(l) => l.number = last + 1

\* What a writer that nobody crossed has read or written is still so.
Fresh(l, view, section) == Busy(l) /\ ~l.crossed =>
  /\ l.at = "looked" => l.seen = view
  /\ l.op = "document" => l.form = section

WriterInv(l, last, view, section) ==
  /\ l.op \in {"save", "document"} => Short(l.form)
  /\ Numbered(l, last) /\ Fresh(l, view, section)

\* One save at a time is between its version and its commit.
OneSaver == \A j, k \in Askers : Saves(task[j]) /\ Saves(task[k]) => j = k

SectionInv == /\ Short(numbers) /\ saved \in Nat /\ SectionIsTraced /\ OneSaver
              /\ \A k \in Askers : WriterInv(task[k], saved, View, numbers)

LEMMA ReconcileTraces ==
  ASSUME DataInv(points), NEW wanted \in Section, Short(wanted), numbers' = wanted,
         points' = Reconciled(View, wanted)
  PROVE  SectionIsTraced'
<1>1. \A f \in Keys : IsIndex(View[f])
  BY LookFacts DEF View
<1>2. DataInv(points')
  BY <1>1, ReconciledFacts
<1>3. ASSUME NEW f \in Keys
      PROVE  /\ f \in Movements => Len(LiveData(f)') = Len(wanted[f])
             /\ \A n \in DOMAIN wanted[f] :
                  /\ n <= Len(Indexed(f)')
                  /\ Current(points'[f][Indexed(f)'[n]]).value = wanted[f][n]
  <2>1. points'[f] \in Seq(Point) /\ wanted[f] \in Seq(Nat)
        /\ (f \notin Movements => Len(wanted[f]) <= 1)
    BY <1>2 DEF DataInv, Section, Short
  <2>2. points'[f] = Settling(points[f], Look(f), wanted[f])
    BY DEF Reconciled, Settling, View
  <2>3. LiveData(f)' = Listing(LiveOf(points'[f]))
    BY DEF LiveData, Listing, Alive, LiveOf, Below
  <2>4. Indexed(f)' = IF f \in Movements \/ LiveData(f)' = << >> THEN LiveData(f)'
                      ELSE <<Last(LiveData(f)')>>
    BY DEF Indexed
  <2> QED BY <2>1, <2>2, <2>3, <2>4, FieldTraced
<1> QED BY <1>3 DEF SectionIsTraced

-----------------------------------------------------------------------------
(* The steps, for the section.                                               *)

\* A step that changes neither which data are live nor a current value.
SameLive == \A f \in Keys :
  /\ LiveOf(points'[f]) = LiveOf(points[f])
  /\ \A i \in LiveOf(points[f]) : Current(points'[f][i]).value = Current(points[f][i]).value

LEMMA ViewKept ==
  ASSUME DataInv(points), SameLive
  PROVE  /\ View' = View
         /\ \A f \in Keys : /\ LiveData(f)' = LiveData(f) /\ Indexed(f)' = Indexed(f)
                            /\ \A n \in 1 .. Len(Indexed(f)) :
                                 Current(points'[f][Indexed(f)[n]]).value
                                   = Current(points[f][Indexed(f)[n]]).value
<1>1. ASSUME NEW f \in Keys
      PROVE  /\ Look(f)' = Look(f) /\ LiveData(f)' = LiveData(f) /\ Indexed(f)' = Indexed(f)
             /\ \A n \in 1 .. Len(Indexed(f)) :
                  Current(points'[f][Indexed(f)[n]]).value = Current(points[f][Indexed(f)[n]]).value
  <2>1. /\ LiveData(f) = Listing(LiveOf(points[f]))
        /\ LiveData(f)' = Listing(LiveOf(points'[f]))
    BY DEF LiveData, Listing, Alive, LiveOf, Below
  <2>2. LiveData(f)' = LiveData(f)
    BY <2>1 DEF SameLive
  <2>3. Indexed(f)' = Indexed(f)
    BY <2>2 DEF Indexed
  <2>4. /\ DOMAIN Indexed(f) = 1 .. Len(Indexed(f))
        /\ \A n \in 1 .. Len(Indexed(f)) : Indexed(f)[n] \in LiveOf(points[f])
    <3>1. CASE f \in Movements \/ Len(LiveData(f)) = 0
      BY <3>1, IndexFacts DEF Lists
    <3>2. CASE f \notin Movements /\ Len(LiveData(f)) # 0
      <4> DEFINE i == LiveData(f)[Len(LiveData(f))]
      <4>1. Indexed(f) = <<i>> /\ i \in LiveOf(points[f])
        BY <3>2, IndexFacts
      <4> HIDE DEF i
      <4> QED BY <4>1
    <3> QED BY <3>1, <3>2
  <2>5. \A n \in 1 .. Len(Indexed(f)) :
          Current(points'[f][Indexed(f)[n]]).value = Current(points[f][Indexed(f)[n]]).value
    BY <2>4 DEF SameLive
  <2>6. Look(f)' = [n \in DOMAIN Indexed(f) |->
                      [at |-> Indexed(f)[n], value |-> Current(points'[f][Indexed(f)[n]]).value]]
    BY <2>3 DEF Look
  <2>7. Look(f)' = Look(f)
    BY <2>4, <2>5, <2>6 DEF Look
  <2> QED BY <2>2, <2>3, <2>5, <2>7
<1> QED BY <1>1 DEF View

LEMMA SameLiveSelf == UNCHANGED points => SameLive
BY DEF SameLive

LEMMA SameLiveReplaced ==
  ASSUME DataInv(points), NEW f \in Keys, NEW i \in DOMAIN points[f], NEW q,
         q.voided = points[f][i].voided, Current(q).value = Current(points[f][i]).value,
         points' = [points EXCEPT ![f][i] = q]
  PROVE  SameLive
<1>1. points' = [points EXCEPT ![f] = [points[f] EXCEPT ![i] = q]]
  BY DEF DataInv
<1>2. ASSUME NEW g \in Keys
      PROVE  /\ DOMAIN points'[g] = DOMAIN points[g]
             /\ \A j \in DOMAIN points[g] :
                  points'[g][j] = IF g = f /\ j = i THEN q ELSE points[g][j]
  <2>1. points[g] \in Seq(Point) /\ points[f] \in Seq(Point)
    BY DEF DataInv
  <2>2. points'[g] = IF g = f THEN [points[f] EXCEPT ![i] = q] ELSE points[g]
    BY <1>1 DEF DataInv
  <2> QED BY <2>2
<1>3. ASSUME NEW g \in Keys
      PROVE  /\ LiveOf(points'[g]) = LiveOf(points[g])
             /\ \A j \in LiveOf(points[g]) :
                  Current(points'[g][j]).value = Current(points[g][j]).value
  <2>1. \A j \in DOMAIN points[g] : /\ points'[g][j].voided = points[g][j].voided
                                    /\ Current(points'[g][j]).value = Current(points[g][j]).value
    BY <1>2
  <2> QED BY <1>2, <2>1 DEF LiveOf
<1> QED BY <1>3 DEF SameLive

LEMMA OthersWrite ==
  ASSUME NEW l, l.op \notin {"save", "document"}, NEW last, NEW view, NEW section
  PROVE  WriterInv(l, last, view, section) /\ ~Saves(l)
BY DEF WriterInv, Numbered, Fresh, Busy, Saves

\* The index, the version and the section may change under a writer that is crossed.
LEMMA CrossedWriter ==
  ASSUME NEW l, WriterFacts(l), Busy(l), NEW last, NEW view, NEW section,
         WriterInv(l, last, view, section), NEW m, m = [l EXCEPT !.crossed = TRUE],
         NEW newView, NEW newSection
  PROVE  WriterInv(m, last, newView, newSection) /\ (Saves(m) <=> Saves(l))
<1>1. l.op \in {"save", "document"}
  BY DEF Busy
<1>2. /\ m.op = l.op /\ m.at = l.at /\ m.form = l.form /\ m.crossed = TRUE /\ DOMAIN m = DOMAIN l
      /\ "number" \in DOMAIN l => m.number = l.number
  BY <1>1 DEF WriterFacts
<1> QED BY <1>1, <1>2 DEF WriterInv, Numbered, Fresh, Saves, Busy

LEMMA IdleWriter ==
  ASSUME NEW l, ~Busy(l), NEW last, NEW view, NEW section,
         WriterInv(l, last, view, section), NEW newView, NEW newSection
  PROVE  WriterInv(l, last, newView, newSection)
BY DEF WriterInv, Fresh

\* One request goes on and the others see what they saw.
LEMMA QuietSection ==
  ASSUME TraceInv, SectionInv, NEW k \in Askers, NEW l,
         task'[k] = l, \A j \in Askers \ {k} : task'[j] = task[j],
         SameLive, UNCHANGED <<numbers, saved, traced>>,
         WriterInv(l, saved, View, numbers),
         Saves(l) => Saves(task[k]) \/ \A j \in Askers \ {k} : ~Saves(task[j])
  PROVE  SectionInv'
<1>1. /\ View' = View
      /\ \A f \in Keys : /\ LiveData(f)' = LiveData(f) /\ Indexed(f)' = Indexed(f)
                         /\ \A n \in 1 .. Len(Indexed(f)) :
                              Current(points'[f][Indexed(f)[n]]).value
                                = Current(points[f][Indexed(f)[n]]).value
  BY ViewKept DEF TraceInv
<1>2. SectionIsTraced'
  <2> SUFFICES ASSUME traced, NEW f \in Keys
               PROVE  /\ f \in Movements => Len(LiveData(f)) = Len(numbers[f])
                      /\ \A n \in DOMAIN numbers[f] :
                           /\ n <= Len(Indexed(f))
                           /\ Current(points'[f][Indexed(f)[n]]).value = numbers[f][n]
    BY <1>1 DEF SectionIsTraced
  <2>1. /\ f \in Movements => Len(LiveData(f)) = Len(numbers[f])
        /\ \A n \in DOMAIN numbers[f] :
             n <= Len(Indexed(f)) /\ Current(points[f][Indexed(f)[n]]).value = numbers[f][n]
    BY DEF SectionInv, SectionIsTraced
  <2>2. \A n \in DOMAIN numbers[f] : n \in 1 .. Len(numbers[f]) /\ n \in Nat \ {0}
    <3>1. numbers[f] \in Seq(Nat)
      BY DEF TraceInv, Section
    <3> QED BY <3>1, LenProperties
  <2>3. Len(Indexed(f)) \in Nat
    <3>1. CASE f \in Movements \/ Len(LiveData(f)) = 0
      BY <3>1, IndexFacts DEF TraceInv, Lists
    <3>2. CASE f \notin Movements /\ Len(LiveData(f)) # 0
      BY <3>2, IndexFacts DEF TraceInv
    <3> QED BY <3>1, <3>2
  <2>4. \A n \in DOMAIN numbers[f] : n \in 1 .. Len(Indexed(f))
    BY <2>1, <2>2, <2>3
  <2> QED BY <1>1, <2>1, <2>4
<1>3. \A j \in Askers : WriterInv(task'[j], saved, View, numbers)
  BY DEF SectionInv
<1>4. OneSaver'
  BY DEF SectionInv, OneSaver
<1> QED BY <1>1, <1>2, <1>3, <1>4 DEF SectionInv

\* One request writes the section or a datum, and crosses the others.
LEMMA CrossingSection ==
  ASSUME TraceInv, SectionInv, NEW k \in Askers, NEW l,
         task'[k] = l,
         \A j \in Askers \ {k} :
           task'[j] = IF Writing(j) THEN [task[j] EXCEPT !.crossed = TRUE] ELSE task[j],
         UNCHANGED saved, Short(numbers'), SectionIsTraced',
         ~Saves(l), WriterInv(l, saved, View', numbers')
  PROVE  SectionInv'
<1>1. ASSUME NEW j \in Askers \ {k}
      PROVE  WriterInv(task'[j], saved, View', numbers') /\ (Saves(task'[j]) => Saves(task[j]))
  <2>1. WriterFacts(task[j]) /\ WriterInv(task[j], saved, View, numbers)
    BY DEF TraceInv, TasksInv, SectionInv
  <2>2. CASE Writing(j)
    <3>1. Busy(task[j]) /\ task'[j] = [task[j] EXCEPT !.crossed = TRUE]
      BY <2>2 DEF Writing, Busy
    <3> QED BY <2>1, <3>1, CrossedWriter
  <2>3. CASE ~Writing(j)
    <3>1. ~Busy(task[j]) /\ task'[j] = task[j]
      BY <2>3 DEF Writing, Busy
    <3> QED BY <2>1, <3>1, IdleWriter
  <2> QED BY <2>2, <2>3
<1>2. OneSaver'
  BY <1>1 DEF SectionInv, OneSaver
<1>3. \A j \in Askers : WriterInv(task'[j], saved', View', numbers')
  BY <1>1
<1>4. saved' \in Nat
  BY DEF SectionInv
<1> QED BY <1>2, <1>3, <1>4 DEF SectionInv

LEMMA EndsSection ==
  ASSUME TraceInv, SectionInv, NEW k \in Askers, Ends(k), SameLive,
         UNCHANGED <<numbers, saved, traced>>
  PROVE  SectionInv'
<1>1. task'[k] = Unasked /\ \A j \in Askers \ {k} : task'[j] = task[j]
  BY DEF Ends, TraceInv, TasksInv
<1>2. Unasked.op = "none"
  BY DEF Unasked
<1>3. WriterInv(Unasked, saved, View, numbers) /\ ~Saves(Unasked)
  BY <1>2, OthersWrite
<1> QED BY <1>1, <1>3, QuietSection

LEMMA EndsCrossingSection ==
  ASSUME TraceInv, SectionInv, NEW k \in Askers, EndsAndCrosses(k),
         UNCHANGED saved, Short(numbers'), SectionIsTraced'
  PROVE  SectionInv'
<1>1. /\ task'[k] = Unasked
      /\ \A j \in Askers \ {k} :
           task'[j] = IF Writing(j) THEN [task[j] EXCEPT !.crossed = TRUE] ELSE task[j]
  BY DEF EndsAndCrosses
<1>2. Unasked.op = "none"
  BY DEF Unasked
<1>3. WriterInv(Unasked, saved, View', numbers') /\ ~Saves(Unasked)
  BY <1>2, OthersWrite
<1> QED BY <1>1, <1>3, CrossingSection

LEMMA AsksSection ==
  ASSUME TraceInv, SectionInv, NEW k \in Askers, NEW l, Asks(k, l),
         UNCHANGED <<numbers, saved, points, traced>>,
         WriterInv(l, saved, View, numbers), ~Saves(l)
  PROVE  SectionInv'
<1>1. task'[k] = l /\ \A j \in Askers \ {k} : task'[j] = task[j]
  BY DEF Asks, TraceInv, TasksInv
<1> QED BY <1>1, QuietSection, SameLiveSelf

LEMMA BeginsSection ==
  ASSUME OneNumberEach, TraceInv, SectionInv, NEW k \in Askers,
         \/ \E form \in SectionForms : SaveBegin(k, form)
         \/ \E f \in Keys, value \in Amounts : DocumentBegin(k, f, value) \/ PointRead(k, f, value)
         \/ \E op \in {"correct", "validate", "void", "attach"}, f \in Keys, i \in 1 .. MaxPoints :
              HandBegin(k, op, f, i)
  PROVE  SectionInv'
<1>1. ASSUME NEW form \in SectionForms, SaveBegin(k, form)
      PROVE  SectionInv'
  <2> DEFINE l == [op |-> "save", at |-> "numbered", number |-> saved + 1, form |-> form,
                   crossed |-> FALSE, seen |-> << >>]
  <2>1. Asks(k, l) /\ UNCHANGED <<numbers, saved, points, traced>>
    BY <1>1 DEF SaveBegin
  <2>2. /\ l.op = "save" /\ l.at = "numbered" /\ l.number = saved + 1 /\ l.form = form
        /\ "number" \in DOMAIN l
    OBVIOUS
  <2> HIDE DEF l
  <2>3. Short(form) /\ saved \in Nat
    BY DEF OneNumberEach, Short, SectionInv
  <2>4. WriterInv(l, saved, View, numbers) /\ ~Saves(l)
    BY <2>2, <2>3 DEF WriterInv, Numbered, Fresh, Saves, Busy
  <2> QED BY <2>1, <2>4, AsksSection
<1>2. ASSUME NEW f \in Keys, NEW value \in Amounts, DocumentBegin(k, f, value)
      PROVE  SectionInv'
  <2> DEFINE l == [op |-> "document", at |-> "read", form |-> Completed(f, value),
                   crossed |-> FALSE, seen |-> << >>]
  <2>1. Asks(k, l) /\ UNCHANGED <<numbers, saved, points, traced>>
    BY <1>2 DEF DocumentBegin
  <2>2. l.op = "document" /\ l.at = "read" /\ l.form = Completed(f, value)
    OBVIOUS
  <2> HIDE DEF l
  <2>3. Short(Completed(f, value))
    <3> SUFFICES ASSUME NEW g \in Keys \ Movements
                 PROVE  Len(Completed(f, value)[g]) <= 1
      BY DEF Short
    <3>1. Len(numbers[g]) <= 1
      BY DEF SectionInv, Short
    <3>2. Completed(f, value)[g] = IF g = f THEN <<value>> ELSE numbers[g]
      BY DEF Completed, TraceInv, Section
    <3> QED BY <3>1, <3>2
  <2>4. WriterInv(l, saved, View, numbers) /\ ~Saves(l)
    BY <2>2, <2>3 DEF WriterInv, Numbered, Fresh, Saves, Busy
  <2> QED BY <2>1, <2>4, AsksSection
<1>3. ASSUME NEW f \in Keys, NEW value \in Amounts, PointRead(k, f, value)
      PROVE  SectionInv'
  <2> DEFINE l == [op |-> "create", at |-> "read", field |-> f, value |-> value]
  <2>1. Asks(k, l) /\ UNCHANGED <<numbers, saved, points, traced>> /\ l.op = "create"
    BY <1>3 DEF PointRead
  <2> HIDE DEF l
  <2> QED BY <2>1, OthersWrite, AsksSection
<1>4. ASSUME NEW op \in {"correct", "validate", "void", "attach"}, NEW f \in Keys,
             NEW i \in 1 .. MaxPoints, HandBegin(k, op, f, i)
      PROVE  SectionInv'
  <2> DEFINE l == [op |-> op, at |-> "begun", field |-> f, datum |-> i]
  <2>1. Asks(k, l) /\ UNCHANGED <<numbers, saved, points, traced>>
        /\ l.op \notin {"save", "document"}
    BY <1>4 DEF HandBegin
  <2> HIDE DEF l
  <2> QED BY <2>1, OthersWrite, AsksSection
<1> QED BY <1>1, <1>2, <1>3, <1>4

LEMMA InsertSection ==
  ASSUME TraceInv, SectionInv, NEW k \in Askers, SaveInsert(k)
  PROVE  SectionInv'
<1>1. /\ task[k].op = "save" /\ task[k].at = "numbered" /\ ~SameNumberInFlight(k)
      /\ UNCHANGED <<numbers, saved, points, traced>>
  BY DEF SaveInsert, Is
<1>2. /\ WriterFacts(task[k]) /\ WriterInv(task[k], saved, View, numbers) /\ saved \in Nat
  BY DEF TraceInv, TasksInv, SectionInv
<1>3. CASE task[k].number <= saved
  BY <1>1, <1>3, SameLiveSelf, EndsSection DEF SaveInsert
<1>4. CASE ~ task[k].number <= saved
  <2> DEFINE l == [task[k] EXCEPT !.at = "written"]
  <2>1. /\ "number" \in DOMAIN task[k] /\ task[k].number \in Nat /\ task[k].number <= saved + 1
        /\ Short(task[k].form)
    BY <1>1, <1>2 DEF WriterInv, Numbered
  <2>2. task[k].number = saved + 1
    BY <1>2, <1>4, <2>1
  <2>3. task'[k] = l /\ \A j \in Askers \ {k} : task'[j] = task[j]
    BY <1>1, <1>4 DEF SaveInsert, Moves, TraceInv, TasksInv
  <2>4. /\ l.op = "save" /\ l.at = "written" /\ l.form = task[k].form
        /\ l.number = saved + 1 /\ "number" \in DOMAIN l
    BY <1>1, <1>2, <2>1, <2>2 DEF WriterFacts
  <2> HIDE DEF l
  <2>5. WriterInv(l, saved, View, numbers)
    BY <1>2, <2>1, <2>4 DEF WriterInv, Numbered, Fresh, Saves, Busy
  <2>6. ASSUME NEW j \in Askers \ {k}, Saves(task[j])
        PROVE  FALSE
    <3>1. task[j].op = "save" /\ Writing(j)
      BY <2>6 DEF Saves, Busy, Writing
    <3>2. task[j].number = saved + 1
      BY <2>6, <3>1 DEF SectionInv, WriterInv, Numbered
    <3> QED BY <1>1, <2>2, <3>1, <3>2 DEF SameNumberInFlight
  <2> QED BY <1>1, <2>3, <2>5, <2>6, SameLiveSelf, QuietSection
<1> QED BY <1>3, <1>4

LEMMA LookSection ==
  ASSUME TraceInv, SectionInv, NEW k \in Askers, ReconcileLook(k)
  PROVE  SectionInv'
<1> DEFINE l == [task[k] EXCEPT !.at = "looked", !.seen = View]
<1>1. /\ task[k].op \in {"save", "document"} /\ task[k].at = "written"
      /\ UNCHANGED <<numbers, saved, points, traced>>
  BY DEF ReconcileLook, Writing
<1>2. WriterFacts(task[k]) /\ WriterInv(task[k], saved, View, numbers)
  BY DEF TraceInv, TasksInv, SectionInv
<1>3. task'[k] = l /\ \A j \in Askers \ {k} : task'[j] = task[j]
  BY DEF ReconcileLook, View, TraceInv, TasksInv
<1>4. /\ l.op = task[k].op /\ l.at = "looked" /\ l.form = task[k].form /\ l.seen = View
      /\ l.crossed = task[k].crossed /\ DOMAIN l = DOMAIN task[k]
      /\ "number" \in DOMAIN l => l.number = task[k].number
  BY <1>1, <1>2 DEF WriterFacts
<1> HIDE DEF l
<1>5. WriterInv(l, saved, View, numbers) /\ (Saves(l) => Saves(task[k]))
  BY <1>1, <1>2, <1>4 DEF WriterInv, Numbered, Fresh, Saves, Busy
<1> QED BY <1>1, <1>3, <1>5, SameLiveSelf, QuietSection

LEMMA DocumentWriteSection ==
  ASSUME TraceInv, SectionInv, NEW k \in Askers, DocumentWrite(k)
  PROVE  SectionInv'
<1> DEFINE l == [task[k] EXCEPT !.at = "written"]
<1>1. /\ task[k].op = "document" /\ numbers' = task[k].form /\ UNCHANGED saved /\ traced' = FALSE
  BY DEF DocumentWrite, Is
<1>2. WriterFacts(task[k]) /\ WriterInv(task[k], saved, View, numbers)
  BY DEF TraceInv, TasksInv, SectionInv
<1>3. /\ task'[k] = l
      /\ \A j \in Askers \ {k} :
           task'[j] = IF Writing(j) THEN [task[j] EXCEPT !.crossed = TRUE] ELSE task[j]
  BY DEF DocumentWrite
<1>4. l.op = "document" /\ l.at = "written" /\ l.form = task[k].form
  BY <1>1, <1>2 DEF WriterFacts
<1> HIDE DEF l
<1>5. Short(task[k].form)
  BY <1>1, <1>2 DEF WriterInv
<1>6. WriterInv(l, saved, View', numbers') /\ ~Saves(l)
  BY <1>1, <1>4, <1>5 DEF WriterInv, Numbered, Fresh, Saves, Busy
<1>7. SectionIsTraced'
  BY <1>1 DEF SectionIsTraced
<1> QED BY <1>1, <1>3, <1>5, <1>6, <1>7, CrossingSection

\* The form, or the document, as it was written, by the data as they are.
LEMMA CommitTraces ==
  ASSUME TraceInv, SectionInv, NEW k \in Askers, Busy(task[k]), task[k].at = "looked",
         points' = Reconciled(task[k].seen, task[k].form), numbers' = task[k].form,
         traced' = ~task[k].crossed
  PROVE  SectionIsTraced' /\ Short(numbers')
<1>1. WriterFacts(task[k]) /\ WriterInv(task[k], saved, View, numbers) /\ DataInv(points)
  BY DEF TraceInv, TasksInv, SectionInv
<1>2. task[k].form \in Section /\ Short(task[k].form)
  BY <1>1 DEF WriterFacts, WriterInv, Busy
<1>3. CASE task[k].crossed
  BY <1>2, <1>3 DEF SectionIsTraced
<1>4. CASE ~task[k].crossed
  <2>1. task[k].seen = View
    BY <1>1, <1>4 DEF WriterInv, Fresh
  <2> QED BY <1>1, <1>2, <2>1, ReconcileTraces
<1> QED BY <1>3, <1>4

LEMMA DocumentCommitSection ==
  ASSUME TraceInv, SectionInv, NEW k \in Askers, DocumentCommit(k)
  PROVE  SectionInv'
<1>1. /\ task[k].op = "document" /\ task[k].at = "looked" /\ Busy(task[k])
      /\ points' = Reconciled(task[k].seen, task[k].form) /\ traced' = ~task[k].crossed
      /\ EndsAndCrosses(k) /\ UNCHANGED <<numbers, saved>>
  BY DEF DocumentCommit, Is, Busy
<1>2. Short(numbers)
  BY DEF SectionInv
<1>3. CASE task[k].crossed
  <2>1. SectionIsTraced'
    BY <1>1, <1>3 DEF SectionIsTraced
  <2> QED BY <1>1, <1>2, <2>1, EndsCrossingSection
<1>4. CASE ~task[k].crossed
  <2>1. numbers' = task[k].form
    BY <1>1, <1>4 DEF SectionInv, WriterInv, Fresh
  <2> QED BY <1>1, <2>1, CommitTraces, EndsCrossingSection
<1> QED BY <1>3, <1>4

LEMMA SaveCommitSection ==
  ASSUME TraceInv, SectionInv, NEW k \in Askers, SaveCommit(k)
  PROVE  SectionInv'
<1>1. /\ task[k].op = "save" /\ task[k].at = "looked" /\ Busy(task[k]) /\ Saves(task[k])
      /\ points' = Reconciled(task[k].seen, task[k].form) /\ numbers' = task[k].form
      /\ traced' = ~task[k].crossed /\ saved' = task[k].number
      /\ task'[k] = Unasked
  BY DEF SaveCommit, Is, Busy, Saves
<1>2. saved' = saved + 1 /\ saved \in Nat
  BY <1>1 DEF SectionInv, WriterInv, Numbered
<1>3. SectionIsTraced' /\ Short(numbers')
  BY <1>1, CommitTraces
<1>4. WriterInv(Unasked, saved', View', numbers') /\ ~Saves(Unasked)
  <2>1. Unasked.op = "none"
    BY DEF Unasked
  <2> QED BY <2>1, OthersWrite
<1>5. ASSUME NEW j \in Askers \ {k}
      PROVE  WriterInv(task'[j], saved', View', numbers') /\ ~Saves(task'[j])
  <2>1. WriterFacts(task[j]) /\ WriterInv(task[j], saved, View, numbers)
    BY DEF TraceInv, TasksInv, SectionInv
  <2>2. ~Saves(task[j])
    BY <1>1 DEF SectionInv, OneSaver
  <2>3. CASE Writing(j)
    <3>1. Busy(task[j]) /\ task[j].op = "document"
      BY <2>2, <2>3 DEF Writing, Busy, Saves
    <3>2. task'[j] = [task[j] EXCEPT !.crossed = TRUE]
      BY <2>3, <3>1 DEF SaveCommit
    <3>3. WriterInv(task'[j], saved, View', numbers') /\ ~Saves(task'[j])
      BY <2>1, <2>2, <3>1, <3>2, CrossedWriter
    <3>4. task'[j].op = "document"
      BY <2>1, <3>1, <3>2 DEF WriterFacts
    <3> QED BY <3>3, <3>4 DEF WriterInv, Numbered
  <2>4. CASE ~Writing(j)
    <3>1. ~Busy(task[j]) /\ task'[j] = task[j]
      BY <2>4 DEF SaveCommit, Writing, Busy
    <3> QED BY <1>2, <2>1, <2>2, <3>1 DEF WriterInv, Numbered, Fresh
  <2> QED BY <2>3, <2>4
<1>6. OneSaver' /\ \A j \in Askers : WriterInv(task'[j], saved', View', numbers')
  BY <1>1, <1>4, <1>5 DEF OneSaver
<1>7. saved' \in Nat
  BY <1>2
<1> QED BY <1>3, <1>6, <1>7 DEF SectionInv

\* A datum is created, read, corrected, backed by a paper, signed or voided by hand.
LEMMA HandSection ==
  ASSUME TraceInv, SectionInv, NEW k \in Askers
  PROVE  /\ PointWrite(k) \/ LastRead(k) => SectionInv'
         /\ \A value \in Amounts : CorrectWrite(k, value) => SectionInv'
         /\ AttachWrite(k) \/ ValidateWrite(k) \/ VoidWrite(k) => SectionInv'
<1> USE DEF SectionInv
<1>1. ASSUME PointWrite(k) \/ VoidWrite(k)
      PROVE  SectionInv'
  <2>1. EndsAndCrosses(k) /\ traced' = FALSE /\ UNCHANGED <<numbers, saved>>
    BY <1>1 DEF PointWrite, VoidWrite
  <2>2. SectionIsTraced' /\ Short(numbers')
    BY <2>1 DEF SectionIsTraced
  <2> QED BY <2>1, <2>2, EndsCrossingSection
<1>2. ASSUME LastRead(k)
      PROVE  SectionInv'
  <2>1. task[k].op \in {"correct", "attach"} /\ UNCHANGED <<numbers, saved, points, traced>>
    BY <1>2 DEF LastRead, Is
  <2>2. CASE Ends(k)
    BY <2>1, <2>2, SameLiveSelf, EndsSection
  <2>3. CASE ~Ends(k)
    <3> DEFINE l == [op |-> task[k].op, at |-> "read", field |-> task[k].field,
                     datum |-> task[k].datum, number |-> Len(Datum(k).versions) + 1,
                     value |-> Current(Datum(k)).value]
    <3>1. task' = [task EXCEPT ![k] = l] /\ l.op \notin {"save", "document"}
      BY <1>2, <2>1, <2>3 DEF LastRead
    <3> HIDE DEF l
    <3>2. task'[k] = l /\ \A j \in Askers \ {k} : task'[j] = task[j]
      BY <3>1 DEF TraceInv, TasksInv
    <3> QED BY <2>1, <3>1, <3>2, OthersWrite, SameLiveSelf, QuietSection
  <2> QED BY <2>2, <2>3
<1>3. ASSUME NEW value \in Amounts, CorrectWrite(k, value)
      PROVE  SectionInv'
  <2>1. UNCHANGED <<numbers, saved>>
    BY <1>3 DEF CorrectWrite
  <2>2. CASE NumberIsFree(k)
    <3>1. EndsAndCrosses(k) /\ SectionIsTraced' /\ Short(numbers')
      BY <1>3, <2>1, <2>2 DEF CorrectWrite, SectionIsTraced
    <3> QED BY <2>1, <3>1, EndsCrossingSection
  <2>3. CASE ~NumberIsFree(k)
    BY <1>3, <2>1, <2>3, SameLiveSelf, EndsSection DEF CorrectWrite
  <2> QED BY <2>2, <2>3
<1>4. ASSUME AttachWrite(k)
      PROVE  SectionInv'
  <2>1. /\ task[k].op = "attach" /\ task[k].at = "read" /\ Ends(k)
        /\ UNCHANGED <<numbers, saved, traced>>
    BY <1>4 DEF AttachWrite, Is
  <2>2. CASE NumberIsFree(k)
    <3> DEFINE version == [value |-> task[k].value, paper |-> TRUE]  p == Datum(k)
               q == [p EXCEPT !.versions = Append(@, version)]
    <3>1. p \in Point /\ task[k].field \in Keys /\ task[k].datum \in DOMAIN points[task[k].field]
      BY <2>1, DatumFacts
    <3>2. task[k].value = Current(p).value
      BY <2>1, <2>2 DEF TraceInv, TasksInv, HandFacts, NumberIsFree, Datum
    <3>3. version \in Version /\ version.value = Current(p).value
      BY <3>1, <3>2, CurrentIsVersion DEF Version
    <3>4. Replaces(k, q)
      BY <1>4, <2>2 DEF AttachWrite
    <3> HIDE DEF version, p
    <3>5. /\ q \in [voided : BOOLEAN, status : {"borrador", "validado", "anulado"},
                    signed : Nat \union {"nothing"}, versions : {Append(p.versions, version)}]
          /\ q.voided = p.voided
      BY <3>1 DEF Point
    <3> HIDE DEF q
    <3>6. Current(q).value = Current(p).value
      BY <3>1, <3>3, <3>5, AppendedFacts
    <3>7. SameLive
      BY <3>1, <3>4, <3>5, <3>6, SameLiveReplaced DEF Replaces, Datum, TraceInv, p
    <3> QED BY <2>1, <3>7, EndsSection
  <2>3. CASE ~NumberIsFree(k)
    BY <1>4, <2>1, <2>3, SameLiveSelf, EndsSection DEF AttachWrite
  <2> QED BY <2>2, <2>3
<1>5. ASSUME ValidateWrite(k)
      PROVE  SectionInv'
  <2> DEFINE p == Datum(k)
             q == [p EXCEPT !.status = "validado", !.signed = Current(p).value]
  <2>1. task[k].op = "validate" /\ Ends(k) /\ Replaces(k, q) /\ UNCHANGED <<numbers, saved, traced>>
    BY <1>5 DEF ValidateWrite, Is
  <2>2. p \in Point /\ task[k].field \in Keys /\ task[k].datum \in DOMAIN points[task[k].field]
    BY <2>1, DatumFacts
  <2> HIDE DEF p
  <2>3. q.voided = p.voided /\ q.versions = p.versions
    BY <2>2 DEF Point
  <2> HIDE DEF q
  <2>4. Current(q).value = Current(p).value
    BY <2>3 DEF Current
  <2>5. SameLive
    BY <2>1, <2>2, <2>3, <2>4, SameLiveReplaced DEF Replaces, Datum, TraceInv, p
  <2> QED BY <2>1, <2>5, EndsSection
<1> QED BY <1>1, <1>2, <1>3, <1>4, <1>5

LEMMA SectionStep ==
  ASSUME OneNumberEach, TraceInv, SectionInv, [TraceabilityNext]_traceVars
  PROVE  SectionInv'
<1>1. CASE UNCHANGED traceVars
  <2>1. UNCHANGED <<numbers, saved, points, task, traced>> /\ SameLive
    BY <1>1, SameLiveSelf DEF traceVars
  <2>2. View' = View /\ \A f \in Keys : LiveData(f)' = LiveData(f) /\ Indexed(f)' = Indexed(f)
    BY <2>1, ViewKept DEF TraceInv
  <2>3. SectionIsTraced'
    BY <2>1, <2>2 DEF SectionInv, SectionIsTraced
  <2>4. OneSaver'
    BY <2>1 DEF SectionInv, OneSaver
  <2> QED BY <2>1, <2>2, <2>3, <2>4 DEF SectionInv
<1>2. CASE TraceabilityNext
  <2>1. PICK k \in Askers :
          \/ \E form \in SectionForms : SaveBegin(k, form)
          \/ SaveInsert(k) \/ ReconcileLook(k) \/ SaveCommit(k) \/ SaveAborts(k)
          \/ \E f \in Keys, value \in Amounts : DocumentBegin(k, f, value) \/ PointRead(k, f, value)
          \/ DocumentWrite(k) \/ DocumentCommit(k) \/ DocumentStops(k)
          \/ PointWrite(k)
          \/ \E op \in {"correct", "validate", "void", "attach"}, f \in Keys, i \in 1 .. MaxPoints :
               HandBegin(k, op, f, i)
          \/ LastRead(k)
          \/ \E value \in Amounts : CorrectWrite(k, value)
          \/ AttachWrite(k) \/ ValidateWrite(k) \/ VoidWrite(k)
    BY <1>2 DEF TraceabilityNext
  <2>2. CASE SaveAborts(k) \/ DocumentStops(k)
    BY <2>2, SameLiveSelf, EndsSection DEF SaveAborts, DocumentStops
  <2> QED BY <2>1, <2>2, BeginsSection, InsertSection, LookSection, DocumentWriteSection,
             DocumentCommitSection, SaveCommitSection, HandSection
<1> QED BY <1>1, <1>2

LEMMA SectionStart ==
  ASSUME TraceabilityInit
  PROVE  SectionInv
<1>1. \A k \in Askers : WriterInv(task[k], saved, View, numbers) /\ ~Saves(task[k])
  <2>1. Unasked.op = "none" /\ \A k \in Askers : task[k] = Unasked
    BY DEF Unasked, TraceabilityInit
  <2> QED BY <2>1, OthersWrite
<1>2. Short(numbers) /\ saved \in Nat /\ SectionIsTraced
  BY DEF TraceabilityInit, Short, SectionIsTraced
<1> QED BY <1>1, <1>2 DEF SectionInv, OneSaver

\* Where each field that is not a movement has one number, what a writer that nobody crossed
\* has read is still so, and one save at a time is about to commit.
THEOREM SectionInductive ==
  ASSUME OneNumberEach
  PROVE  TraceabilitySpec => [](TraceInv /\ SectionInv)
<1>1. TraceabilityInit => TraceInv /\ SectionInv
  BY TraceInvInit, SectionStart
<1>2. TraceInv /\ SectionInv /\ [TraceabilityNext]_traceVars => (TraceInv /\ SectionInv)'
  BY TraceInvStep, SectionStep
<1> QED BY <1>1, <1>2, PTL DEF TraceabilitySpec

\* Where each field that is not a movement has one number, every number of the section opens
\* to its datum, however many saves and documents were about, until somebody crosses them.
THEOREM SectionTraced ==
  ASSUME OneNumberEach
  PROVE  TraceabilitySpec => []SectionIsTraced
<1>1. TraceInv /\ SectionInv => SectionIsTraced
  BY DEF SectionInv
<1> QED BY <1>1, SectionInductive, PTL
=============================================================================
