----------------------------- MODULE Book_proofs -----------------------------
(***************************************************************************)
(* Proofs about the engines of the book of a month.                        *)
(*                                                                         *)
(* Labour, for any catalogue, documents and forms: a charge is in the list *)
(* of the catalogue and in no other, and every hour paid is borne.         *)
(* CostSheet, for any book and in whatever order it is saved: the accounts *)
(* reach, side by side, the centres that make the product, and what was    *)
(* spent was sold, is kept or was lost.                                    *)
(***************************************************************************)
EXTENDS Labour, CostSheet, Fractions_proofs, SequenceTheorems

-----------------------------------------------------------------------------
(* Labour: where the charges go.                                             *)

LEMMA ListOf ==
  ASSUME NEW S, NEW list \in Seq(S)
  PROVE  IsList(list)
<1>1. list \in [1 .. Len(list) -> S] /\ Len(list) \in Nat /\ DOMAIN list = 1 .. Len(list)
  OBVIOUS
<1>2. \A i \in 1 .. Len(list) : list[i] \in ToSet(list)
  BY <1>1 DEF ToSet
<1> QED BY <1>1, <1>2 DEF IsList

LEMMA ListFacts ==
  ASSUME NEW list, IsList(list)
  PROVE  /\ Len(list) \in Nat /\ DOMAIN list = 1 .. Len(list)
         /\ list = [i \in 1 .. Len(list) |-> list[i]]
BY DEF IsList

LEMMA AppendFacts ==
  ASSUME NEW list, IsList(list), NEW x
  PROVE  /\ IsList(Append(list, x)) /\ Len(Append(list, x)) = Len(list) + 1
         /\ Append(list, x)[Len(list) + 1] = x
         /\ \A i \in 1 .. Len(list) : Append(list, x)[i] = list[i]
<1> DEFINE S == ToSet(list) \cup {x}
<1>1. list \in Seq(S) /\ x \in S
  <2>1. /\ Len(list) \in Nat /\ DOMAIN list = 1 .. Len(list)
        /\ list = [i \in 1 .. Len(list) |-> list[i]]
    BY ListFacts
  <2>2. \A i \in 1 .. Len(list) : list[i] \in S
    BY <2>1 DEF ToSet
  <2> HIDE DEF S
  <2>3. list \in [1 .. Len(list) -> S]
    BY <2>1, <2>2
  <2>4. list \in Seq(S)
    BY <2>1, <2>3
  <2> QED BY <2>4 DEF S
<1> HIDE DEF S
<1>2. Append(list, x) \in Seq(S)
  BY <1>1
<1>3. IsList(Append(list, x))
  BY <1>2, ListOf
<1> QED BY <1>1, <1>3

\* The places of a list that have a name.
Where(list, name) == {i \in DOMAIN list : list[i].name = name}

\* The list t is the target with the charge key, unless one of the two had it.
Adds(t, target, other, key) ==
  /\ IsList(t)
  /\ \A name : name # key => Where(t, name) = Where(target, name)
  /\ Where(target, key) # {} \/ Where(other, key) # {} => Where(t, key) = Where(target, key)
  /\ Where(target, key) = {} /\ Where(other, key) = {} => \E i : Where(t, key) = {i}

LEMMA MergedFacts ==
  ASSUME NEW target, NEW other, NEW charge, IsList(target)
  PROVE  Adds(Merged(target, other, charge), target, other, charge.name)
<1> DEFINE t == Merged(target, other, charge)
           key == charge.name
<1>1. /\ Len(target) \in Nat /\ DOMAIN target = 1 .. Len(target)
      /\ target = [i \in 1 .. Len(target) |-> target[i]]
  BY ListFacts
<1>2. (key \in Names(target) <=> Where(target, key) # {}) /\ (key \in Names(other) <=> Where(other, key) # {})
  BY DEF Names, Where
<1>3. CASE key \in Names(target)
  <2> DEFINE i == Find(target, key)
  <2>1. i \in DOMAIN target /\ target[i].name = key
    <3> DEFINE G == {n \in Nat : n \in 1 .. Len(target) => target[n].name # key}
    <3>1. CASE \E k \in 1 .. Len(target) : target[k].name = key /\ \A l \in 1 .. k - 1 : target[l].name # key
      <4>1. \E k \in DOMAIN target : target[k].name = key /\ \A l \in 1 .. k - 1 : target[l].name # key
        BY <1>1, <3>1
      <4> QED BY <4>1, Zenon DEF Find
    <3>2. CASE ~ \E k \in 1 .. Len(target) : target[k].name = key /\ \A l \in 1 .. k - 1 : target[l].name # key
      <4>1. ASSUME NEW n \in Nat, \A k \in Nat : k < n => k \in G
            PROVE  n \in G
        <5> SUFFICES ASSUME n \in 1 .. Len(target)
                     PROVE  target[n].name # key
          OBVIOUS
        <5>1. \A l \in 1 .. n - 1 : target[l].name # key
          <6> SUFFICES ASSUME NEW l \in 1 .. n - 1
                       PROVE  target[l].name # key
            OBVIOUS
          <6>1. l \in Nat /\ l < n /\ l \in 1 .. Len(target)
            BY <1>1
          <6> QED BY <4>1, <6>1
        <5> QED BY <3>2, <5>1
      <4>2. Nat \subseteq G
        <5> HIDE DEF G
        <5> QED BY <4>1, NaturalsBelow
      <4>3. PICK n \in 1 .. Len(target) : target[n].name = key
        BY <1>1, <1>3 DEF Names
      <4>4. n \in G
        BY <1>1, <4>2
      <4> QED BY <4>3, <4>4
    <3> QED BY <3>1, <3>2
  <2> DEFINE x == Charge(key, IfBlank(target[i].coefficient, charge.coefficient))
  <2>2. t = [target EXCEPT ![i] = x]
    BY <1>3 DEF Merged
  <2>3. x.name = key
    BY DEF Charge
  <2> HIDE DEF t, key, i, x
  <2>4. t = [k \in 1 .. Len(target) |-> IF k = i THEN x ELSE target[k]]
    BY <1>1, <2>1, <2>2
  <2>5. t \in Seq({t[k] : k \in 1 .. Len(target)}) /\ DOMAIN t = DOMAIN target
    BY <1>1, <2>4
  <2>6. IsList(t)
    BY <2>5, ListOf
  <2>7. \A k \in DOMAIN target : t[k].name = target[k].name
    BY <1>1, <2>1, <2>3, <2>4
  <2>8. \A name : Where(t, name) = Where(target, name)
    BY <2>5, <2>7 DEF Where
  <2> QED BY <1>2, <1>3, <2>6, <2>8 DEF t, key, Adds
<1>4. CASE key \notin Names(target) /\ key \in Names(other)
  <2>1. t = target
    BY <1>4 DEF Merged
  <2> QED BY <1>2, <1>4, <2>1 DEF Adds
<1>5. CASE key \notin Names(target) /\ key \notin Names(other)
  <2> DEFINE x == Charge(key, charge.coefficient)
  <2>1. t = Append(target, x)
    BY <1>5 DEF Merged
  <2>2. x.name = key
    BY DEF Charge
  <2> HIDE DEF t, key, x
  <2>3. /\ IsList(t) /\ Len(t) = Len(target) + 1
        /\ t[Len(target) + 1] = x
        /\ \A i \in 1 .. Len(target) : t[i] = target[i]
    BY <2>1, AppendFacts
  <2>4. DOMAIN t = 1 .. Len(target) + 1
    BY <2>3, ListFacts
  <2>5. \A name : name # key => Where(t, name) = Where(target, name)
    BY <1>1, <2>2, <2>3, <2>4 DEF Where
  <2>6. Where(target, key) = {}
    BY <1>2, <1>5
  <2>7. Where(t, key) = {Len(target) + 1}
    BY <1>1, <2>2, <2>3, <2>4, <2>6 DEF Where
  <2> QED BY <1>2, <1>5, <2>3, <2>5, <2>7 DEF t, key, Adds
<1> QED BY <1>3, <1>4, <1>5

\* A charge is in one list, once, and not in the one that the catalogue rules out; or in none.
Held(lists, name) ==
  \/ /\ \E i : Where(lists.rem, name) = {i}
     /\ Where(lists.non, name) = {} /\ Catalogue[name] # "nonRemunerative"
  \/ /\ \E i : Where(lists.non, name) = {i}
     /\ Where(lists.rem, name) = {} /\ Catalogue[name] # "remunerative"
Fresh(lists, name) == Where(lists.rem, name) = {} /\ Where(lists.non, name) = {}
AreLists(lists) == IsList(lists.rem) /\ IsList(lists.non)

\* What a charge does to the lists.
Advances(lists, with, charge) ==
  /\ AreLists(with)
  /\ \A name : /\ Held(lists, name) => Held(with, name)
               /\ Fresh(lists, name) /\ name # charge.name => Fresh(with, name)
               /\ Fresh(lists, name) /\ name = charge.name => name \in Iap \/ Held(with, name)

LEMMA WithChargeFacts ==
  ASSUME NEW lists, NEW charge, AreLists(lists)
  PROVE  Advances(lists, WithCharge(lists, charge), charge)
<1> DEFINE with == WithCharge(lists, charge)
           key == charge.name
<1>1. CASE key \in Iap
  BY <1>1 DEF WithCharge, Advances
<1>2. CASE key \notin Iap /\ KindOf(charge) = "remunerative"
  <2>1. with.rem = Merged(lists.rem, lists.non, charge) /\ with.non = lists.non
    BY <1>2 DEF WithCharge
  <2>2. Catalogue[key] # "nonRemunerative"
    BY <1>2 DEF KindOf
  <2> HIDE DEF with
  <2>3. Adds(with.rem, lists.rem, lists.non, key)
    BY <2>1, MergedFacts DEF AreLists
  <2>4. AreLists(with)
    BY <2>1, <2>3 DEF AreLists, Adds
  <2>5. ASSUME NEW name
        PROVE  /\ Held(lists, name) => Held(with, name)
               /\ Fresh(lists, name) /\ name # key => Fresh(with, name)
               /\ Fresh(lists, name) /\ name = key => Held(with, name)
    <3>1. CASE name = key
      <4>1. CASE Fresh(lists, name)
        BY <2>1, <2>2, <2>3, <3>1, <4>1 DEF Held, Fresh, Adds
      <4>2. CASE ~Fresh(lists, name)
        <5>1. Where(with.rem, name) = Where(lists.rem, name)
          BY <2>3, <3>1, <4>2 DEF Fresh, Adds
        <5> QED BY <2>1, <3>1, <4>2, <5>1 DEF Held
      <4> QED BY <4>1, <4>2
    <3>2. CASE name # key
      BY <2>1, <2>3, <3>2 DEF Held, Fresh, Adds
    <3> QED BY <3>1, <3>2
  <2> QED BY <2>4, <2>5 DEF Advances, with
<1>3. CASE key \notin Iap /\ KindOf(charge) # "remunerative"
  <2>1. with.non = Merged(lists.non, lists.rem, charge) /\ with.rem = lists.rem
    BY <1>3 DEF WithCharge
  <2>2. Catalogue[key] # "remunerative"
    BY <1>3 DEF KindOf
  <2> HIDE DEF with
  <2>3. Adds(with.non, lists.non, lists.rem, key)
    BY <2>1, MergedFacts DEF AreLists
  <2>4. AreLists(with)
    BY <2>1, <2>3 DEF AreLists, Adds
  <2>5. ASSUME NEW name
        PROVE  /\ Held(lists, name) => Held(with, name)
               /\ Fresh(lists, name) /\ name # key => Fresh(with, name)
               /\ Fresh(lists, name) /\ name = key => Held(with, name)
    <3>1. CASE name = key
      <4>1. CASE Fresh(lists, name)
        BY <2>1, <2>2, <2>3, <3>1, <4>1 DEF Held, Fresh, Adds
      <4>2. CASE ~Fresh(lists, name)
        <5>1. Where(with.non, name) = Where(lists.non, name)
          BY <2>3, <3>1, <4>2 DEF Fresh, Adds
        <5> QED BY <2>1, <3>1, <4>2, <5>1 DEF Held
      <4> QED BY <4>1, <4>2
    <3>2. CASE name # key
      BY <2>1, <2>3, <3>2 DEF Held, Fresh, Adds
    <3> QED BY <3>1, <3>2
  <2> QED BY <2>4, <2>5 DEF Advances, with
<1> QED BY <1>1, <1>2, <1>3

\* The charges are taken one after the other.
TakesCharges(after, lists, charges, m) ==
  after = [n \in 0 .. m |-> IF n = 0 THEN lists ELSE WithCharge(after[n - 1], charges[n])]

LEMMA WithChargesFacts ==
  ASSUME NEW lists, NEW charges, Len(charges) \in Nat
  PROVE  \E after : TakesCharges(after, lists, charges, Len(charges))
                    /\ WithCharges(lists, charges) = after[Len(charges)]
<1> DEFINE G == {m \in Nat : \E after : TakesCharges(after, lists, charges, m)}
<1>1. 0 \in G
  <2> DEFINE f == [n \in 0 .. 0 |-> lists]
  <2>1. TakesCharges(f, lists, charges, 0)
    BY DEF TakesCharges
  <2> HIDE DEF f
  <2> QED BY <2>1
<1>2. ASSUME NEW m \in Nat, m \in G
      PROVE  m + 1 \in G
  <2>1. PICK g : TakesCharges(g, lists, charges, m)
    BY <1>2
  <2> DEFINE f == [n \in 0 .. m + 1 |-> IF n = m + 1 THEN WithCharge(g[m], charges[m + 1]) ELSE g[n]]
  <2>2. ASSUME NEW n \in 0 .. m + 1
        PROVE  f[n] = IF n = 0 THEN lists ELSE WithCharge(f[n - 1], charges[n])
    <3>1. CASE n = m + 1
      <4>1. n # 0 /\ n - 1 = m /\ m \in 0 .. m + 1 /\ m # m + 1
        BY <3>1
      <4>2. f[m] = g[m]
        BY <4>1
      <4>3. f[n] = WithCharge(g[m], charges[n])
        BY <3>1
      <4> HIDE DEF f
      <4> QED BY <4>1, <4>2, <4>3
    <3>2. CASE n # m + 1
      <4>1. n \in 0 .. m /\ f[n] = g[n]
        BY <3>2
      <4>2. g[n] = IF n = 0 THEN lists ELSE WithCharge(g[n - 1], charges[n])
        BY <2>1, <4>1 DEF TakesCharges
      <4>3. n # 0 => n - 1 \in 0 .. m + 1 /\ n - 1 # m + 1
        BY <4>1
      <4>4. n # 0 => f[n - 1] = g[n - 1]
        BY <4>3
      <4> HIDE DEF f
      <4> QED BY <4>1, <4>2, <4>4
    <3> QED BY <3>1, <3>2
  <2>3. f = [n \in 0 .. m + 1 |-> f[n]]
    OBVIOUS
  <2> HIDE DEF f
  <2>4. f = [n \in 0 .. m + 1 |-> IF n = 0 THEN lists ELSE WithCharge(f[n - 1], charges[n])]
    BY <2>2, <2>3
  <2>5. TakesCharges(f, lists, charges, m + 1)
    BY <2>4 DEF TakesCharges
  <2> QED BY <2>5
<1>3. Nat \subseteq G
  <2> HIDE DEF G
  <2> QED BY <1>1, <1>2, NaturalsFrom
<1> DEFINE r == CHOOSE after : TakesCharges(after, lists, charges, Len(charges))
<1>4. TakesCharges(r, lists, charges, Len(charges))
  BY <1>3
<1>5. WithCharges(lists, charges) = r[Len(charges)]
  BY DEF WithCharges, TakesCharges
<1> QED BY <1>4, <1>5

LEMMA WithChargesHold ==
  ASSUME NEW lists, NEW charges, AreLists(lists), IsList(charges)
  PROVE  /\ AreLists(WithCharges(lists, charges))
         /\ \A name : Held(lists, name) => Held(WithCharges(lists, charges), name)
         /\ \A i \in DOMAIN charges : Fresh(lists, charges[i].name) /\ charges[i].name \notin Iap =>
              Held(WithCharges(lists, charges), charges[i].name)
<1>1. Len(charges) \in Nat /\ DOMAIN charges = 1 .. Len(charges)
  BY ListFacts
<1>2. PICK after : TakesCharges(after, lists, charges, Len(charges))
                   /\ WithCharges(lists, charges) = after[Len(charges)]
  BY <1>1, WithChargesFacts
<1>3. after[0] = lists /\ \A n \in 1 .. Len(charges) : after[n] = WithCharge(after[n - 1], charges[n])
  BY <1>1, <1>2 DEF TakesCharges
<1> DEFINE Good(n) == /\ AreLists(after[n])
                      /\ \A name : Held(lists, name) => Held(after[n], name)
                      /\ \A name : Fresh(lists, name) /\ name \notin Iap =>
                           \/ Held(after[n], name)
                           \/ Fresh(after[n], name) /\ \A i \in 1 .. n : charges[i].name # name
           G == {n \in Nat : n <= Len(charges) => Good(n)}
<1>4. 0 \in G
  BY <1>3
<1>5. ASSUME NEW n \in Nat, n \in G
      PROVE  n + 1 \in G
  <2> SUFFICES ASSUME n + 1 <= Len(charges)
               PROVE  Good(n + 1)
    OBVIOUS
  <2>1. n <= Len(charges) /\ n + 1 \in 1 .. Len(charges) /\ (n + 1) - 1 = n
    BY <1>1
  <2>2. Good(n)
    BY <1>5, <2>1
  <2>3. Advances(after[n], after[n + 1], charges[n + 1])
    BY <1>3, <2>1, <2>2, WithChargeFacts
  <2>4. ASSUME NEW name, Fresh(lists, name), name \notin Iap
        PROVE  \/ Held(after[n + 1], name)
               \/ Fresh(after[n + 1], name) /\ \A i \in 1 .. n + 1 : charges[i].name # name
    <3>1. CASE Held(after[n], name)
      BY <2>3, <3>1 DEF Advances
    <3>2. CASE Fresh(after[n], name) /\ \A i \in 1 .. n : charges[i].name # name
      <4>1. CASE name = charges[n + 1].name
        BY <2>3, <2>4, <3>2, <4>1 DEF Advances
      <4>2. CASE name # charges[n + 1].name
        <5>1. Fresh(after[n + 1], name)
          BY <2>3, <3>2, <4>2 DEF Advances
        <5>2. \A i \in 1 .. n + 1 : i \in 1 .. n \/ i = n + 1
          OBVIOUS
        <5> QED BY <3>2, <4>2, <5>1, <5>2
      <4> QED BY <4>1, <4>2
    <3> QED BY <2>2, <2>4, <3>1, <3>2
  <2>5. AreLists(after[n + 1]) /\ \A name : Held(lists, name) => Held(after[n + 1], name)
    BY <2>2, <2>3 DEF Advances
  <2> QED BY <2>4, <2>5
<1>6. Nat \subseteq G
  <2> HIDE DEF G
  <2> QED BY <1>4, <1>5, NaturalsFrom
<1>7. Good(Len(charges))
  BY <1>1, <1>6
<1> QED BY <1>1, <1>2, <1>7

-----------------------------------------------------------------------------
\* A document in flight that nobody has crossed is about to write every charge where it goes.
IsReading(r) ==
  /\ r.busy => r = [busy |-> TRUE, next |-> r.next, crossed |-> r.crossed, adds |-> r.adds]
  /\ r.busy => AreLists(r.next)
ReaderInv(k) ==
  /\ IsReading(reader[k])
  /\ reader[k].busy /\ ~undone /\ ~reader[k].crossed =>
       \A name \in placed \cup reader[k].adds : Held(reader[k].next, name)

SectionInv ==
  /\ AreLists(section)
  /\ ~undone => \A name \in placed : Held(section, name)

\* What was paid is what the engine makes of the section that is there.
PaidInv == paid.done => IsParsed(section) /\ paid = LabourResult

LabourInv ==
  /\ SectionInv /\ PaidInv
  /\ reader = [k \in Readers |-> reader[k]] /\ \A k \in Readers : ReaderInv(k)

LEMMA LabourStart == LabourInit => LabourInv
<1> SUFFICES ASSUME LabourInit
             PROVE  LabourInv
  OBVIOUS
<1>1. section.rem = << >> /\ section.non = << >> /\ placed = {} /\ ~paid.done
  BY DEF LabourInit, NoSection, NotPaid
<1>2. IsList(<< >>)
  <2>1. << >> \in Seq({})
    OBVIOUS
  <2> QED BY <2>1, ListOf
<1>3. reader = [k \in Readers |-> reader[k]] /\ \A k \in Readers : ~reader[k].busy
  BY DEF LabourInit, NotReading
<1> QED BY <1>1, <1>2, <1>3 DEF LabourInv, SectionInv, PaidInv, AreLists, ReaderInv, IsReading

\* Who is in flight while another one writes.
LEMMA OvertakesFacts ==
  ASSUME LabourInv, NEW k, Overtakes(k)
  PROVE  /\ reader' = [j \in Readers |-> reader'[j]]
         /\ \A j \in Readers : IsReading(reader'[j]) /\ (reader'[j].busy => reader'[j].crossed)
<1>1. reader' = [j \in Readers |-> reader'[j]]
  BY DEF Overtakes
<1>2. ASSUME NEW j \in Readers
      PROVE  IsReading(reader'[j]) /\ (reader'[j].busy => reader'[j].crossed)
  <2>1. IsReading(reader[j])
    BY DEF LabourInv, ReaderInv
  <2>2. CASE j = k
    <3>1. reader'[j] = NotReading
      BY <2>2 DEF Overtakes
    <3> QED BY <3>1 DEF NotReading, IsReading
  <2>3. CASE j # k /\ reader[j].busy
    <3>1. reader'[j] = [reader[j] EXCEPT !.crossed = TRUE]
      BY <2>3 DEF Overtakes
    <3>2. reader'[j] = [busy |-> TRUE, next |-> reader[j].next, crossed |-> TRUE, adds |-> reader[j].adds]
      BY <2>1, <2>3, <3>1 DEF IsReading
    <3> QED BY <2>1, <2>3, <3>2 DEF IsReading
  <2>4. CASE j # k /\ ~reader[j].busy
    <3>1. reader'[j] = reader[j]
      BY <2>4 DEF Overtakes
    <3> QED BY <2>1, <2>4, <3>1
  <2> QED BY <2>2, <2>3, <2>4
<1> QED BY <1>1, <1>2

\* A section that is written over, after which nobody in flight is uncrossed.
LEMMA OverwrittenKept ==
  ASSUME LabourInv, NEW k, Overtakes(k), paid' = NotPaid, SectionInv'
  PROVE  LabourInv'
<1>1. /\ reader' = [j \in Readers |-> reader'[j]]
      /\ \A j \in Readers : IsReading(reader'[j]) /\ (reader'[j].busy => reader'[j].crossed)
  BY OvertakesFacts
<1>2. ~paid'.done
  BY DEF NotPaid
<1> QED BY <1>1, <1>2 DEF LabourInv, ReaderInv, PaidInv

LEMMA SaveLabourKept ==
  ASSUME LabourInv, NEW form \in LabourForms, SaveLabour(form)
  PROVE  LabourInv'
<1>1. section' = form /\ placed' = {} /\ paid' = NotPaid /\ Overtakes("nobody")
  BY DEF SaveLabour
<1>2. AreLists(form)
  BY LabourAssumption DEF IsParsed, AreCharges, AreLists
<1>3. SectionInv'
  BY <1>1, <1>2 DEF SectionInv
<1> QED BY <1>1, <1>3, OverwrittenKept

LEMMA PopulatedHolds ==
  ASSUME NEW sec, NEW paper \in LabourPapers, AreLists(sec)
  PROVE  /\ AreLists(Populated(sec, paper))
         /\ \A name : Held(sec, name) => Held(Populated(sec, paper), name)
         /\ \A name \in {c.name : c \in ToSet(paper.charges)} \ (Names(sec.rem) \cup Names(sec.non) \cup Iap) :
              Held(Populated(sec, paper), name)
<1> DEFINE lists == [rem |-> sec.rem, non |-> sec.non]
           with == WithCharges(lists, paper.charges)
           next == Populated(sec, paper)
<1>1. next.rem = with.rem /\ next.non = with.non
  BY DEF Populated
<1>2. lists.rem = sec.rem /\ lists.non = sec.non
  OBVIOUS
<1>3. IsList(paper.charges)
  BY LabourAssumption
<1> HIDE DEF lists, next
<1>4. AreLists(lists)
  BY <1>2 DEF AreLists
<1>5. /\ AreLists(with)
      /\ \A name : Held(lists, name) => Held(with, name)
      /\ \A i \in DOMAIN paper.charges : Fresh(lists, paper.charges[i].name) /\ paper.charges[i].name \notin Iap =>
           Held(with, paper.charges[i].name)
  BY <1>3, <1>4, WithChargesHold
<1> HIDE DEF with
<1>6. AreLists(next) /\ \A name : Held(next, name) <=> Held(with, name)
  BY <1>1, <1>5 DEF AreLists, Held
<1>7. \A name : (Held(sec, name) => Held(lists, name)) /\ (Fresh(sec, name) <=> Fresh(lists, name))
  BY <1>2 DEF Held, Fresh
<1>8. ASSUME NEW name \in {c.name : c \in ToSet(paper.charges)} \ (Names(sec.rem) \cup Names(sec.non) \cup Iap)
      PROVE  Held(next, name)
  <2>1. PICK i \in DOMAIN paper.charges : paper.charges[i].name = name
    BY DEF ToSet
  <2>2. Fresh(sec, name) /\ name \notin Iap
    BY DEF Fresh, Where, Names
  <2> QED BY <1>5, <1>6, <1>7, <2>1, <2>2
<1> QED BY <1>5, <1>6, <1>7, <1>8 DEF next

LEMMA PopulateReadKept ==
  ASSUME LabourInv, NEW k \in Readers, NEW paper \in LabourPapers, PopulateRead(k, paper)
  PROVE  LabourInv'
<1> DEFINE adds == {c.name : c \in ToSet(paper.charges)} \ (Names(section.rem) \cup Names(section.non) \cup Iap)
           next == Populated(section, paper)
           work == [busy |-> TRUE, next |-> next, crossed |-> FALSE, adds |-> adds]
<1>1. reader' = [reader EXCEPT ![k] = work] /\ UNCHANGED <<section, placed, undone, paid>>
  BY DEF PopulateRead
<1>2. work.busy /\ work.next = next /\ work.adds = adds /\ work = [busy |-> TRUE, next |-> work.next, crossed |-> work.crossed, adds |-> work.adds]
  OBVIOUS
<1>3. AreLists(section)
  BY DEF LabourInv, SectionInv
<1>4. AreLists(next) /\ (\A name : Held(section, name) => Held(next, name)) /\ \A name \in adds : Held(next, name)
  BY <1>3, PopulatedHolds
<1> HIDE DEF adds, next, work
<1>5. reader'[k] = work /\ (\A j \in Readers \ {k} : reader'[j] = reader[j]) /\ reader' = [j \in Readers |-> reader'[j]]
  BY <1>1 DEF LabourInv
<1>6. ReaderInv(k)'
  BY <1>1, <1>2, <1>4, <1>5 DEF ReaderInv, IsReading, LabourInv, SectionInv
<1>7. \A j \in Readers \ {k} : ReaderInv(j)'
  BY <1>1, <1>5 DEF ReaderInv, LabourInv
<1>8. SectionInv' /\ PaidInv'
  BY <1>1 DEF LabourInv, SectionInv, PaidInv, LabourResult
<1> QED BY <1>5, <1>6, <1>7, <1>8 DEF LabourInv

LEMMA PopulateWriteKept ==
  ASSUME LabourInv, NEW k \in Readers, PopulateWrite(k)
  PROVE  LabourInv'
<1>1. /\ reader[k].busy /\ section' = reader[k].next /\ placed' = placed \cup reader[k].adds
      /\ undone' = (undone \/ reader[k].crossed) /\ paid' = NotPaid /\ Overtakes(k)
  BY DEF PopulateWrite
<1>2. ReaderInv(k)
  BY DEF LabourInv
<1>3. SectionInv'
  BY <1>1, <1>2 DEF SectionInv, ReaderInv, IsReading
<1> QED BY <1>1, <1>3, OverwrittenKept

LEMMA PopulateDiesKept ==
  ASSUME LabourInv, NEW k \in Readers, PopulateDies(k)
  PROVE  LabourInv'
<1>1. reader' = [reader EXCEPT ![k] = NotReading] /\ UNCHANGED <<section, placed, undone, paid>>
  BY DEF PopulateDies
<1>2. reader'[k] = NotReading /\ (\A j \in Readers \ {k} : reader'[j] = reader[j]) /\ reader' = [j \in Readers |-> reader'[j]]
  BY <1>1 DEF LabourInv
<1>3. ReaderInv(k)'
  BY <1>2 DEF ReaderInv, IsReading, NotReading
<1>4. \A j \in Readers \ {k} : ReaderInv(j)'
  BY <1>1, <1>2 DEF ReaderInv, LabourInv
<1>5. SectionInv' /\ PaidInv'
  BY <1>1 DEF LabourInv, SectionInv, PaidInv, LabourResult
<1> QED BY <1>2, <1>3, <1>4, <1>5 DEF LabourInv

LEMMA CalculateLabourKept ==
  ASSUME LabourInv, CalculateLabour
  PROVE  LabourInv'
<1>1. IsParsed(section) /\ paid' = LabourResult /\ UNCHANGED <<section, reader, placed, undone>>
  BY DEF CalculateLabour
<1>2. PaidInv'
  BY <1>1 DEF PaidInv, LabourResult
<1>3. SectionInv' /\ \A k \in Readers : ReaderInv(k)'
  BY <1>1 DEF LabourInv, SectionInv, ReaderInv
<1> QED BY <1>1, <1>2, <1>3 DEF LabourInv

LEMMA LabourStep == LabourInv /\ [LabourNext]_labourVars => LabourInv'
<1> SUFFICES ASSUME LabourInv, [LabourNext]_labourVars
             PROVE  LabourInv'
  OBVIOUS
<1>1. ASSUME NEW form \in LabourForms, SaveLabour(form)
      PROVE  LabourInv'
  BY <1>1, SaveLabourKept
<1>2. ASSUME NEW k \in Readers, NEW paper \in LabourPapers, PopulateRead(k, paper)
      PROVE  LabourInv'
  BY <1>2, PopulateReadKept
<1>3. ASSUME NEW k \in Readers, PopulateWrite(k) \/ PopulateDies(k)
      PROVE  LabourInv'
  BY <1>3, PopulateWriteKept, PopulateDiesKept
<1>4. CASE CalculateLabour
  BY <1>4, CalculateLabourKept
<1>5. CASE UNCHANGED labourVars
  <2>1. section' = section /\ reader' = reader /\ placed' = placed /\ undone' = undone /\ paid' = paid
    BY <1>5 DEF labourVars
  <2>2. SectionInv' /\ PaidInv' /\ \A k \in Readers : ReaderInv(k)'
    BY <2>1 DEF LabourInv, SectionInv, PaidInv, LabourResult, ReaderInv
  <2> QED BY <2>1, <2>2 DEF LabourInv
<1> QED BY <1>1, <1>2, <1>3, <1>4, <1>5 DEF LabourNext

LEMMA ChargesFollow ==
  ASSUME LabourInv
  PROVE  ChargesFollowTheCatalogue
<1> SUFFICES ASSUME ~undone, NEW name \in placed
             PROVE  LET in(list) == Cardinality({i \in DOMAIN list : list[i].name = name})
                    IN /\ in(section.rem) + in(section.non) = 1
                       /\ Catalogue[name] = "remunerative" => in(section.rem) = 1
                       /\ Catalogue[name] = "nonRemunerative" => in(section.non) = 1
  BY DEF ChargesFollowTheCatalogue
<1>1. Held(section, name)
  BY DEF LabourInv, SectionInv
<1>2. Cardinality({}) = 0 /\ \A i : Cardinality({i}) = 1
  BY FS_EmptySet, FS_Singleton
<1> DEFINE r == Cardinality(Where(section.rem, name))
           n == Cardinality(Where(section.non, name))
<1>3. \/ r = 1 /\ n = 0 /\ Catalogue[name] # "nonRemunerative"
      \/ r = 0 /\ n = 1 /\ Catalogue[name] # "remunerative"
  BY <1>1, <1>2 DEF Held
<1> HIDE DEF r, n
<1>4. /\ r + n = 1
      /\ Catalogue[name] = "remunerative" => r = 1
      /\ Catalogue[name] = "nonRemunerative" => n = 1
  BY <1>3
<1> QED BY <1>4 DEF r, n, Where

\* The charges follow the catalogue (populateDirectLabor): until a document undoes what
\* another writer did, every charge that documents alone brought is in one list, once,
\* and in that of the catalogue, whatever the order and the hints of the documents.
THEOREM ChargesAreSorted == LabourSpec => []ChargesFollowTheCatalogue
<1>1. LabourInit => LabourInv
  BY LabourStart
<1>2. LabourInv /\ [LabourNext]_labourVars => LabourInv'
  BY LabourStep
<1>3. LabourInv => ChargesFollowTheCatalogue
  BY ChargesFollow
<1> QED BY <1>1, <1>2, <1>3, PTL DEF LabourSpec


-----------------------------------------------------------------------------
(* Labour: what the paid hours bear.                                         *)

\* The least of two amounts, which can be taken from either.
LEMMA LowestFacts ==
  ASSUME NEW x, NEW y, IsAmount(x), IsAmount(y)
  PROVE  /\ IsAmount(Lowest(x, y)) /\ IsAmount(Minus(x, Lowest(x, y)))
         /\ IsAmount(Minus(y, Lowest(x, y)))
<1>1. PICK a, b \in Int, d \in Nat : d > 0 /\ At(x, a, d) /\ At(y, b, d)
  BY TwoBase DEF IsAmount
<1>2. d \in Int /\ d > 0 /\ a - a \in Int /\ b - a \in Int /\ a - b \in Int /\ b - b \in Int
  BY <1>1
<1>3. Less(y, x) <=> b < a
  BY <1>1, <1>2, OrderAt
<1>4. /\ At(Minus(x, x), a - a, d) /\ At(Minus(y, x), b - a, d)
      /\ At(Minus(x, y), a - b, d) /\ At(Minus(y, y), b - b, d)
  BY <1>1, <1>2, PlusAt
<1>5. ASSUME NEW z, NEW n \in Int, At(z, n, d), n >= 0
      PROVE  IsAmount(z)
  <2>1. IsNegative(z) <=> n < 0
    BY <1>2, <1>5, OrderAt
  <2> QED BY <1>5, <2>1 DEF IsAmount, At
<1>6. CASE AtMost(x, y)
  BY <1>2, <1>3, <1>4, <1>5, <1>6 DEF Lowest, AtMost
<1>7. CASE ~AtMost(x, y)
  BY <1>2, <1>3, <1>4, <1>5, <1>7 DEF Lowest, AtMost
<1> QED BY <1>6, <1>7

\* The shares of two parts make up that of both.
LEMMA SharesAdd ==
  ASSUME NEW t, NEW x, NEW y, NEW h, IsFraction(t), IsFraction(x), IsFraction(y), IsFraction(h), IsPositive(h)
  PROVE  Times(t, Over(Plus(x, y), h)) = Plus(Times(t, Over(x, h)), Times(t, Over(y, h)))
<1>1. PICK a, b, e \in Int, d \in Nat : d > 0 /\ At(x, a, d) /\ At(y, b, d) /\ At(h, e, d)
  BY ThreeBase
<1>2. d \in Int /\ d > 0 /\ a + b \in Int
  BY <1>1
<1>3. e > 0
  BY <1>1, <1>2, OrderAt
<1>4. At(Plus(x, y), a + b, d)
  BY <1>1, <1>2, PlusAt
<1>5. At(Over(x, h), a, e) /\ At(Over(y, h), b, e)
  BY <1>1, <1>2, <1>3, OverAt
<1>6. At(Over(Plus(x, y), h), a + b, e)
  BY <1>1, <1>2, <1>3, <1>4, OverAt
<1>7. At(Plus(Over(x, h), Over(y, h)), a + b, e)
  BY <1>3, <1>5, PlusAt
<1>8. Over(Plus(x, y), h) = Plus(Over(x, h), Over(y, h))
  BY <1>2, <1>3, <1>6, <1>7, SameAt
<1> QED BY <1>5, <1>8, Distributes DEF At

\* What is left after a share, over what is left of the whole, is the whole over the whole.
LEMMA HourKept ==
  ASSUME NEW t, NEW u, NEW c, IsAmount(t), IsAmount(u), IsAmount(c), IsPositive(c)
  PROVE  Over(Minus(t, Times(t, Over(u, Plus(u, c)))), c) = Over(t, Plus(u, c))
<1>1. PICK a, b, e \in Int, d \in Nat : d > 0 /\ At(u, a, d) /\ At(c, b, d) /\ At(t, e, d)
  BY ThreeBase DEF IsAmount
<1>2. d \in Int /\ d > 0 /\ a + b \in Int
  BY <1>1
<1>3. At(Plus(u, c), a + b, d)
  BY <1>1, <1>2, PlusAt
<1>4. b > 0 /\ a + b > 0
  <2>1. b > 0 /\ ~(a < 0)
    BY <1>1, <1>2, OrderAt DEF IsAmount
  <2> QED BY <2>1
<1> DEFINE x == Times(t, Over(u, Plus(u, c)))
<1>5. At(Over(u, Plus(u, c)), a, a + b) /\ At(Over(t, Plus(u, c)), e, a + b)
  BY <1>1, <1>2, <1>3, <1>4, OverAt
<1>6. At(x, e * a, d * (a + b)) /\ At(t, e * (a + b), d * (a + b)) /\ At(c, b * (a + b), d * (a + b))
  <2>1. At(x, e * a, d * (a + b))
    BY <1>1, <1>2, <1>4, <1>5, TimesAt
  <2> QED BY <2>1, <1>1, <1>2, ScaleAt
<1> HIDE DEF x
<1>7. PICK k, l, m, n \in Int : k = e * a /\ l = e * (a + b) /\ m = b * (a + b) /\ n = d * (a + b)
  BY <1>1, <1>2
<1>8. n > 0 /\ m > 0 /\ l - k \in Int /\ l - k = e * b /\ m = (a + b) * b
  <2>1. n > 0 /\ m > 0
    BY <1>2, <1>4, <1>7, ProductPositive
  <2>2. e * (a + b) - e * a = e * b /\ b * (a + b) = (a + b) * b
    BY <1>1
  <2> QED BY <2>1, <2>2, <1>7
<1>9. At(Minus(t, x), l - k, n)
  BY <1>6, <1>7, <1>8, PlusAt
<1>10. At(Over(Minus(t, x), c), l - k, m)
  BY <1>6, <1>7, <1>8, <1>9, OverAt
<1>11. At(Over(t, Plus(u, c)), l - k, m)
  <2>1. At(Over(t, Plus(u, c)), e * b, (a + b) * b)
    BY <1>1, <1>2, <1>5, ScaleAt
  <2> QED BY <1>8, <2>1
<1>12. Over(Minus(t, x), c) = Over(t, Plus(u, c))
  BY <1>7, <1>8, <1>10, <1>11, SameAt
<1> QED BY <1>12 DEF x

\* The index that the charges of a section make up.
LEMMA ItcsIsAmount ==
  ASSUME NEW sec, IsParsed(sec)
  PROVE  IsAmount(Itcs(sec))
<1>1. /\ IsFraction(sec.days.all) /\ IsFraction(sec.days.unpaid) /\ IsAmount(sec.days.paid)
      /\ IsAmount(sec.base) /\ IsAmount(sec.art) /\ AreCharges(sec.rem) /\ AreCharges(sec.non)
  BY DEF IsParsed
<1>2. IsAmount(Sac)
  <2>1. At(Sac, 1, 12)
    BY FractionAt, 1 \in Int, 12 \in Int, 12 # 0 DEF Sac
  <2>2. IsNegative(Sac) <=> 1 < 0
    BY <2>1, OrderAt, 1 \in Int, 12 \in Int, 12 > 0
  <2> QED BY <2>1, <2>2 DEF IsAmount, At
<1>3. IsAmount(IapOf(sec.days))
  <2>1. IsFraction(Worked(sec.days))
    BY <1>1, FractionOps DEF Worked, IsAmount
  <2>2. CASE IsPositive(Worked(sec.days))
    BY <1>1, <2>1, <2>2, PositiveFacts, AmountOps DEF IapOf
  <2>3. CASE ~IsPositive(Worked(sec.days))
    BY <2>3, ZeroAmount DEF IapOf
  <2> QED BY <2>2, <2>3
<1>4. ASSUME NEW list, NEW out, AreCharges(list)
      PROVE  IsAmount(SumOfCoefficients(list, out))
  <2> DEFINE f == [i \in DOMAIN list |-> IF list[i].name \in out THEN Zero ELSE list[i].coefficient]
  <2>1. Len(list) \in Nat /\ DOMAIN list = 1 .. Len(list)
    BY <1>4, ListFacts DEF AreCharges
  <2>2. IsFiniteSet(DOMAIN list)
    BY <2>1, FS_Interval
  <2>3. \A i \in DOMAIN list : IsAmount(f[i])
    BY <1>4, ZeroAmount DEF AreCharges
  <2> HIDE DEF f
  <2>4. IsAmount(SumOver(f, DOMAIN list))
    BY <2>2, <2>3, SumOfAmounts
  <2> QED BY <2>4 DEF SumOfCoefficients, f
<1> DEFINE certain == Plus(Plus(sec.base, sec.art), Plus(Sac, Times(sec.base, Sac)))
           uncertain == Plus(IapOf(sec.days), SumOfCoefficients(sec.rem, Iap))
           apart == SumOfCoefficients(sec.non, {})
<1>5. IsAmount(uncertain) /\ IsAmount(apart)
  BY <1>1, <1>3, <1>4, AmountOps
<1>6. IsAmount(Times(sec.base, Sac)) /\ IsAmount(Plus(sec.base, sec.art)) /\ IsAmount(Plus(sec.base, Sac))
  BY <1>1, <1>2, AmountOps
<1>7. IsAmount(certain)
  BY <1>2, <1>6, AmountOps
<1>8. IsAmount(Derived(sec))
  BY <1>6, AmountOps DEF Derived
<1>9. Itcs(sec) = Plus(Plus(certain, uncertain), Plus(apart, Times(uncertain, Derived(sec))))
  BY DEF Itcs
<1> HIDE DEF certain, uncertain, apart
<1>10. IsAmount(Plus(certain, uncertain)) /\ IsAmount(Times(uncertain, Derived(sec)))
  BY <1>5, <1>7, <1>8, AmountOps
<1>11. IsAmount(Plus(apart, Times(uncertain, Derived(sec))))
  BY <1>5, <1>10, AmountOps
<1> QED BY <1>9, <1>10, <1>11, AmountOps


\* The places of a list, counted.
LEMMA ListIsFinite ==
  ASSUME NEW list, IsList(list)
  PROVE  IsFiniteSet(DOMAIN list) /\ IsFiniteSet(1 .. Len(list))
<1>1. Len(list) \in Nat /\ DOMAIN list = 1 .. Len(list)
  BY ListFacts
<1>2. IsFiniteSet(1 .. Len(list))
  <2>1. 1 \in Int /\ Len(list) \in Int
    BY <1>1
  <2> QED BY <2>1, FS_Interval
<1> QED BY <1>1, <1>2

\* The sum of a list after one more.
LEMMA SumAppended ==
  ASSUME NEW list, IsList(list), AreFractions(list, DOMAIN list), NEW x, IsFraction(x)
  PROVE  /\ SumOver(Append(list, x), DOMAIN Append(list, x)) = Plus(SumOver(list, DOMAIN list), x)
         /\ AreFractions(Append(list, x), DOMAIN Append(list, x))
<1> DEFINE with == Append(list, x)
           m == Len(list)
           S == 1 .. m
<1>1. m \in Nat /\ DOMAIN list = S
  BY ListFacts
<1>2. /\ IsList(with) /\ Len(with) = m + 1 /\ with[m + 1] = x
      /\ \A i \in S : with[i] = list[i]
  BY AppendFacts
<1> HIDE DEF with, m
<1>3. DOMAIN with = S \cup {m + 1} /\ m + 1 \notin S /\ IsFiniteSet(S)
  <2>1. DOMAIN with = 1 .. m + 1
    BY <1>2, ListFacts
  <2>2. IsFiniteSet(S)
    BY ListIsFinite DEF m
  <2> QED BY <1>1, <2>1, <2>2
<1>4. AreFractions(with, S) /\ IsFraction(with[m + 1]) /\ AreFractions(list, S)
  BY <1>1, <1>2 DEF AreFractions
<1> HIDE DEF S
<1>5. SumOver(with, S \cup {m + 1}) = Plus(with[m + 1], SumOver(with, S))
  BY <1>3, <1>4, SumAdds
<1>6. SumOver(with, S) = SumOver(list, S)
  BY <1>2, <1>3, SumSame
<1>7. Plus(x, SumOver(list, S)) = Plus(SumOver(list, S), x)
  <2>1. IsFraction(SumOver(list, S))
    BY <1>3, <1>4, SumType
  <2> QED BY <2>1, PlusLaws
<1>8. AreFractions(with, DOMAIN with)
  BY <1>3, <1>4 DEF AreFractions
<1> QED BY <1>1, <1>2, <1>3, <1>5, <1>6, <1>7, <1>8 DEF with

\* The hours that have a reason, and those that are left, are all.
Explains(s, span) ==
  /\ IsAmount(s.left) /\ IsList(s.rows) /\ AreFractions(s.rows, DOMAIN s.rows)
  /\ Plus(SumOver(s.rows, DOMAIN s.rows), s.left) = span

LEMMA ExplainedFacts ==
  ASSUME NEW span, NEW s, Explains(s, span), NEW h, IsAmount(h)
  PROVE  Explains(Explained(s, h), span)
<1>1. CASE ~(IsPositive(s.left) /\ IsPositive(h))
  BY <1>1 DEF Explained
<1>2. CASE IsPositive(s.left) /\ IsPositive(h)
  <2> DEFINE z == Lowest(h, s.left)
             n == Explained(s, h)
  <2>1. n.left = Minus(s.left, z) /\ n.rows = Append(s.rows, z)
    BY <1>2 DEF Explained
  <2> HIDE DEF z, n
  <2>2. IsAmount(s.left) /\ IsList(s.rows) /\ AreFractions(s.rows, DOMAIN s.rows)
        /\ Plus(SumOver(s.rows, DOMAIN s.rows), s.left) = span
    BY DEF Explains
  <2>3. IsAmount(z) /\ IsAmount(Minus(s.left, z)) /\ IsFraction(z) /\ IsFraction(s.left)
    BY <2>2, LowestFacts DEF z, IsAmount
  <2>4. IsList(n.rows)
    BY <2>1, <2>2, AppendFacts
  <2>5. /\ SumOver(n.rows, DOMAIN n.rows) = Plus(SumOver(s.rows, DOMAIN s.rows), z)
        /\ AreFractions(n.rows, DOMAIN n.rows)
    BY <2>1, <2>2, <2>3, SumAppended
  <2>6. IsFraction(SumOver(s.rows, DOMAIN s.rows))
    <3>1. IsFiniteSet(DOMAIN s.rows)
      BY <2>2, ListIsFinite
    <3> QED BY <2>2, <3>1, SumType
  <2>7. Plus(Plus(SumOver(s.rows, DOMAIN s.rows), z), Minus(s.left, z)) = span
    <3>1. IsFraction(Minus(s.left, z)) /\ Plus(z, Minus(s.left, z)) = s.left
      BY <2>3, FractionOps, MinusPlus
    <3> QED BY <2>2, <2>3, <2>6, <3>1, PlusLaws
  <2> QED BY <2>1, <2>3, <2>4, <2>5, <2>7 DEF Explains, n
<1> QED BY <1>1, <1>2

\* The reasons are taken one after the other.
TakesReasons(cut, reasons, span, m) ==
  cut = [n \in 0 .. m |-> IF n = 0 THEN [left |-> span, rows |-> << >>] ELSE Explained(cut[n - 1], reasons[n])]

LEMMA LostTimeFacts ==
  ASSUME NEW reasons, NEW span, Len(reasons) \in Nat
  PROVE  \E cut, last :
           /\ TakesReasons(cut, reasons, span, Len(reasons)) /\ last = cut[Len(reasons)]
           /\ LostTime(reasons, span) = IF last.rows # << >> /\ IsPositive(last.left)
                                         THEN Append(last.rows, last.left) ELSE last.rows
<1> DEFINE G == {m \in Nat : \E cut : TakesReasons(cut, reasons, span, m)}
<1>1. 0 \in G
  <2> DEFINE f == [n \in 0 .. 0 |-> [left |-> span, rows |-> << >>]]
  <2>1. TakesReasons(f, reasons, span, 0)
    BY DEF TakesReasons
  <2> HIDE DEF f
  <2> QED BY <2>1
<1>2. ASSUME NEW m \in Nat, m \in G
      PROVE  m + 1 \in G
  <2>1. PICK g : TakesReasons(g, reasons, span, m)
    BY <1>2
  <2> DEFINE f == [n \in 0 .. m + 1 |-> IF n = m + 1 THEN Explained(g[m], reasons[m + 1]) ELSE g[n]]
             start == [left |-> span, rows |-> << >>]
  <2>2. ASSUME NEW n \in 0 .. m + 1
        PROVE  f[n] = IF n = 0 THEN start ELSE Explained(f[n - 1], reasons[n])
    <3>1. CASE n = m + 1
      <4>1. n # 0 /\ n - 1 = m /\ m \in 0 .. m + 1 /\ m # m + 1
        BY <3>1
      <4>2. f[m] = g[m]
        BY <4>1
      <4>3. f[n] = Explained(g[m], reasons[m + 1])
        BY <3>1
      <4> HIDE DEF f
      <4> QED BY <3>1, <4>1, <4>2, <4>3
    <3>2. CASE n # m + 1
      <4>1. n \in 0 .. m /\ f[n] = g[n]
        BY <3>2
      <4>2. g[n] = IF n = 0 THEN start ELSE Explained(g[n - 1], reasons[n])
        BY <2>1, <4>1 DEF TakesReasons
      <4>3. n # 0 => n - 1 \in 0 .. m + 1 /\ n - 1 # m + 1
        BY <4>1
      <4>4. n # 0 => f[n - 1] = g[n - 1]
        BY <4>3
      <4> HIDE DEF f
      <4> QED BY <4>1, <4>2, <4>4
    <3> QED BY <3>1, <3>2
  <2>3. f = [n \in 0 .. m + 1 |-> f[n]]
    OBVIOUS
  <2> HIDE DEF f
  <2>4. f = [n \in 0 .. m + 1 |-> IF n = 0 THEN start ELSE Explained(f[n - 1], reasons[n])]
    BY <2>2, <2>3
  <2>5. TakesReasons(f, reasons, span, m + 1)
    BY <2>4 DEF TakesReasons
  <2> QED BY <2>5
<1>3. Nat \subseteq G
  <2> HIDE DEF G
  <2> QED BY <1>1, <1>2, NaturalsFrom
<1> DEFINE r == CHOOSE cut : TakesReasons(cut, reasons, span, Len(reasons))
           last == r[Len(reasons)]
<1>4. TakesReasons(r, reasons, span, Len(reasons))
  BY <1>3
<1>5. LostTime(reasons, span) = IF last.rows # << >> /\ IsPositive(last.left)
                                 THEN Append(last.rows, last.left) ELSE last.rows
  BY DEF LostTime, TakesReasons
<1> QED BY <1>4, <1>5

\* The rows of the reasons sum to the hours.
LEMMA ReasonsSum ==
  ASSUME NEW reasons, IsList(reasons), \A i \in DOMAIN reasons : IsAmount(reasons[i]), NEW span, IsAmount(span),
         LostTime(reasons, span) # << >>
  PROVE  SumOver(LostTime(reasons, span), DOMAIN LostTime(reasons, span)) = span
<1>1. Len(reasons) \in Nat /\ DOMAIN reasons = 1 .. Len(reasons)
  BY ListFacts
<1>2. PICK cut, last :
        /\ TakesReasons(cut, reasons, span, Len(reasons)) /\ last = cut[Len(reasons)]
        /\ LostTime(reasons, span) = IF last.rows # << >> /\ IsPositive(last.left)
                                      THEN Append(last.rows, last.left) ELSE last.rows
  BY <1>1, LostTimeFacts
<1>3. cut[0] = [left |-> span, rows |-> << >>]
      /\ \A n \in 1 .. Len(reasons) : cut[n] = Explained(cut[n - 1], reasons[n])
  BY <1>1, <1>2 DEF TakesReasons
<1> DEFINE G == {n \in Nat : n <= Len(reasons) => Explains(cut[n], span)}
<1>4. 0 \in G
  <2>1. cut[0].left = span /\ cut[0].rows = << >>
    BY <1>3
  <2>2. IsList(<< >>) /\ DOMAIN << >> = {}
    <3>1. << >> \in Seq({}) /\ DOMAIN << >> = {}
      OBVIOUS
    <3> QED BY <3>1, ListOf
  <2>3. SumOver(<< >>, {}) = Zero /\ Plus(Zero, span) = span
    BY SumEmpty, PlusZero DEF IsAmount
  <2>4. Explains(cut[0], span)
    BY <2>1, <2>2, <2>3 DEF Explains, AreFractions
  <2> QED BY <2>4
<1>5. ASSUME NEW n \in Nat, n \in G
      PROVE  n + 1 \in G
  <2> SUFFICES ASSUME n + 1 <= Len(reasons)
               PROVE  Explains(cut[n + 1], span)
    OBVIOUS
  <2>1. n <= Len(reasons) /\ n + 1 \in 1 .. Len(reasons) /\ (n + 1) - 1 = n
    BY <1>1
  <2>2. Explains(cut[n], span) /\ IsAmount(reasons[n + 1]) /\ cut[n + 1] = Explained(cut[n], reasons[n + 1])
    BY <1>1, <1>3, <1>5, <2>1
  <2> QED BY <2>2, ExplainedFacts
<1>6. Nat \subseteq G
  <2> HIDE DEF G
  <2> QED BY <1>4, <1>5, NaturalsFrom
<1>7. Explains(last, span)
  BY <1>1, <1>2, <1>6
<1>8. IsAmount(last.left) /\ IsList(last.rows) /\ AreFractions(last.rows, DOMAIN last.rows)
      /\ Plus(SumOver(last.rows, DOMAIN last.rows), last.left) = span
  BY <1>7 DEF Explains
<1>9. CASE IsPositive(last.left)
  <2>1. LostTime(reasons, span) = Append(last.rows, last.left)
    BY <1>2, <1>9
  <2> QED BY <1>8, <2>1, SumAppended DEF IsAmount
<1>10. CASE ~IsPositive(last.left)
  <2>1. LostTime(reasons, span) = last.rows
    BY <1>2, <1>10
  <2>2. last.left = Zero
    BY <1>8, <1>10, AmountIsPositive
  <2>3. IsFraction(SumOver(last.rows, DOMAIN last.rows))
    <3>1. IsFiniteSet(DOMAIN last.rows)
      BY <1>8, ListIsFinite
    <3> QED BY <1>8, <3>1, SumType
  <2> QED BY <1>8, <2>1, <2>2, <2>3, PlusZero
<1> QED BY <1>9, <1>10

\* What a department was paid, and where it goes.
Borne(r, s, index) ==
  /\ Plus(r.applicable, Plus(r.informedCost, r.hiddenCost)) = Plus(s.basic, Times(s.basic, index))
  /\ ~IsNegative(r.applicable) /\ ~IsNegative(r.informedCost) /\ ~IsNegative(r.hiddenCost)
  /\ r.reasons # << >> => SumOver(r.reasons, DOMAIN r.reasons) = r.informed
  /\ IsPositive(r.chargeable) => r.rate = Over(r.total, s.hours)

LEMMA DeptIsBorne ==
  ASSUME NEW d, IsWage(d), NEW index, IsAmount(index)
  PROVE  Borne(DeptOf(d, index), d, index)
<1> DEFINE total      == Plus(d.basic, Times(d.basic, index))
           productive == IF Given(d.productive) THEN Lowest(d.productive, d.hours) ELSE d.hours
           informed   == Minus(d.hours, productive)
           hidden     == IF Given(d.standard) THEN Minus(productive, Lowest(d.standard, productive)) ELSE Zero
           both       == Plus(informed, hidden)
           idle       == IdleCost(d, total, both)
           chargeable == Minus(Minus(d.hours, informed), hidden)
           applicable == Minus(total, idle)
           first      == IdleCost(d, total, informed)
           r          == DeptOf(d, index)
<1>1. /\ r.total = total /\ r.informed = informed /\ r.informedCost = first
      /\ r.hiddenCost = Minus(idle, first) /\ r.applicable = applicable
      /\ r.chargeable = chargeable /\ r.reasons = LostTime(d.lost, informed)
      /\ r.rate = IF IsPositive(chargeable) THEN Over(applicable, chargeable) ELSE Zero
  BY DEF DeptOf
<1>2. IsAmount(d.basic) /\ IsAmount(d.hours) /\ IsOptional(d.productive) /\ IsOptional(d.standard)
      /\ IsList(d.lost) /\ \A j \in DOMAIN d.lost : IsAmount(d.lost[j])
  BY DEF IsWage
<1>3. IsAmount(total)
  BY <1>2, AmountOps
<1>4. IsAmount(productive) /\ IsAmount(informed) /\ Minus(d.hours, informed) = productive
  <2>1. IsAmount(productive) /\ IsAmount(informed)
    <3>1. CASE Given(d.productive)
      <4>1. IsAmount(d.productive)
        BY <1>2, <3>1, ZeroAmount, DefaultFacts
      <4> QED BY <1>2, <3>1, <4>1, LowestFacts
    <3>2. CASE ~Given(d.productive)
      <4>1. Minus(d.hours, d.hours) = Zero
        BY <1>2, MinusChain DEF IsAmount
      <4> QED BY <1>2, <3>2, <4>1, ZeroAmount
    <3> QED BY <3>1, <3>2
  <2> HIDE DEF productive
  <2>2. Plus(informed, productive) = d.hours /\ Minus(Plus(informed, productive), informed) = productive
    BY <1>2, <2>1, MinusPlus DEF IsAmount
  <2> QED BY <2>1, <2>2
<1> HIDE DEF total, productive, informed, r
<1>5. IsAmount(hidden) /\ IsAmount(Minus(productive, hidden))
  <2>1. CASE Given(d.standard)
    <3> DEFINE z == Lowest(d.standard, productive)
    <3>1. IsAmount(d.standard)
      BY <1>2, <2>1, ZeroAmount, DefaultFacts
    <3>2. IsAmount(z) /\ IsAmount(Minus(productive, z))
      BY <1>4, <3>1, LowestFacts
    <3>3. hidden = Minus(productive, z)
      BY <2>1
    <3> HIDE DEF z, hidden
    <3>4. Plus(Minus(productive, z), z) = productive /\ Minus(Plus(Minus(productive, z), z), Minus(productive, z)) = z
      BY <1>4, <3>2, MinusPlus DEF IsAmount
    <3> QED BY <3>2, <3>3, <3>4
  <2>2. CASE ~Given(d.standard)
    <3>1. Minus(productive, Zero) = productive
      BY <1>4, MinusPlus DEF IsAmount
    <3> QED BY <1>4, <2>2, <3>1, ZeroAmount
  <2> QED BY <2>1, <2>2
<1> HIDE DEF hidden
<1>6. chargeable = Minus(productive, hidden) /\ IsAmount(chargeable)
  BY <1>4, <1>5
<1> HIDE DEF chargeable
<1>7. IsAmount(both) /\ Plus(both, chargeable) = d.hours
  <2>1. Plus(hidden, chargeable) = productive /\ Plus(informed, productive) = d.hours
    <3>1. Plus(hidden, Minus(productive, hidden)) = productive
      BY <1>4, <1>5, MinusPlus DEF IsAmount
    <3>2. Plus(Minus(d.hours, productive), productive) = d.hours
      BY <1>2, <1>4, MinusPlus DEF IsAmount
    <3> QED BY <1>6, <3>1, <3>2 DEF informed
  <2>2. Plus(informed, Plus(hidden, chargeable)) = Plus(Plus(informed, hidden), chargeable)
    BY <1>4, <1>5, <1>6, PlusLaws DEF IsAmount
  <2> QED BY <1>4, <1>5, <2>1, <2>2, AmountOps
<1>8. /\ IsAmount(first) /\ IsAmount(Minus(idle, first)) /\ IsAmount(idle) /\ IsAmount(applicable)
      /\ IsPositive(chargeable) => Over(applicable, chargeable) = Over(total, d.hours)
  <2>1. CASE IsPositive(d.hours)
    <3>1. idle = Times(total, Over(both, d.hours)) /\ first = Times(total, Over(informed, d.hours))
      BY <2>1 DEF IdleCost
    <3> DEFINE second == Times(total, Over(hidden, d.hours))
    <3>2. IsAmount(first) /\ IsAmount(second)
      BY <1>2, <1>3, <1>4, <1>5, <2>1, <3>1, AmountOps
    <3>3. idle = Plus(first, second)
      BY <1>2, <1>3, <1>4, <1>5, <2>1, <3>1, SharesAdd DEF IsAmount
    <3> HIDE DEF both, idle, first, second, applicable
    <3>4. Minus(idle, first) = second
      BY <3>2, <3>3, MinusPlus DEF IsAmount
    <3>5. IsAmount(idle) /\ IsAmount(applicable)
      <4>1. IsPositive(Plus(both, chargeable))
        BY <1>7, <2>1
      <4>2. IsAmount(Times(total, Over(both, Plus(both, chargeable))))
            /\ IsAmount(Minus(total, Times(total, Over(both, Plus(both, chargeable)))))
        BY <1>3, <1>6, <1>7, <4>1, PartOfAmount
      <4> QED BY <1>7, <3>1, <4>2 DEF applicable
    <3>6. ASSUME IsPositive(chargeable)
          PROVE  Over(applicable, chargeable) = Over(total, d.hours)
      <4>1. Over(Minus(total, Times(total, Over(both, Plus(both, chargeable)))), chargeable)
              = Over(total, Plus(both, chargeable))
        BY <1>3, <1>6, <1>7, <3>6, HourKept
      <4> QED BY <1>7, <3>1, <4>1 DEF applicable
    <3> QED BY <3>2, <3>4, <3>5, <3>6
  <2>2. CASE ~IsPositive(d.hours)
    <3>1. idle = Zero /\ first = Zero
      BY <2>2 DEF IdleCost
    <3>2. Minus(Zero, Zero) = Zero /\ Minus(total, Zero) = total
      BY <1>3, ZeroAmount, MinusPlus DEF IsAmount
    <3>3. ~IsPositive(chargeable)
      BY <1>6, <1>7, <2>2, PositiveSum
    <3> QED BY <1>3, <3>1, <3>2, <3>3, ZeroAmount
  <2> QED BY <2>1, <2>2
<1> HIDE DEF both, idle, first
<1>9. Plus(applicable, Plus(first, Minus(idle, first))) = total
  <2>1. Plus(first, Minus(idle, first)) = idle /\ Plus(Minus(total, idle), idle) = total
    BY <1>3, <1>8, MinusPlus DEF IsAmount
  <2> QED BY <2>1
<1> HIDE DEF applicable
<1>10. LostTime(d.lost, informed) # << >> =>
         SumOver(LostTime(d.lost, informed), DOMAIN LostTime(d.lost, informed)) = informed
  BY <1>2, <1>4, ReasonsSum
<1>11. Borne(r, d, index)
  BY <1>1, <1>8, <1>9, <1>10 DEF Borne, IsAmount, total
<1> QED BY <1>11 DEF r

LEMMA PaidFollows ==
  ASSUME PaidInv
  PROVE  PaidLabourIsBorne
<1> SUFFICES ASSUME paid.done, NEW i \in DOMAIN paid.depts
             PROVE  Borne(paid.depts[i], section.depts[i], paid.itcs)
  BY DEF PaidLabourIsBorne, Borne
<1>1. IsParsed(section) /\ paid = LabourResult
  BY DEF PaidInv
<1> DEFINE index == Itcs(section)
<1>2. IsAmount(index)
  BY <1>1, ItcsIsAmount
<1>3. paid.itcs = index /\ paid.depts = [j \in DOMAIN section.depts |-> DeptOf(section.depts[j], index)]
  BY <1>1 DEF LabourResult
<1> HIDE DEF index
<1>4. i \in DOMAIN section.depts /\ paid.depts[i] = DeptOf(section.depts[i], index)
  BY <1>3
<1>5. IsWage(section.depts[i])
  BY <1>1, <1>4 DEF IsParsed
<1> QED BY <1>2, <1>3, <1>4, <1>5, DeptIsBorne

\* A paid hour is borne (calculateDirectLabor): whatever was written to the section
\* before, the pay of every department with its charges is its productive hours and the
\* idle ones, informed or hidden, none of them negative, the reasons written down make up
\* the informed hours, and the rate of the chargeable hours is over those hours.
THEOREM PaidLabourIsAllBorne == LabourSpec => []PaidLabourIsBorne
<1>1. LabourInit => LabourInv
  BY LabourStart
<1>2. LabourInv /\ [LabourNext]_labourVars => LabourInv'
  BY LabourStep
<1>3. LabourInv => PaidLabourIsBorne
  BY PaidFollows DEF LabourInv
<1> QED BY <1>1, <1>2, <1>3, PTL DEF LabourSpec

-----------------------------------------------------------------------------
(* Overheads: what the accounts say is what the centres get.                 *)

\* A sum of nothings.
LEMMA SumOfZeros ==
  ASSUME NEW f, NEW S, IsFiniteSet(S), \A i \in S : f[i] = Zero
  PROVE  SumOver(f, S) = Zero
<1>1. AreFractions(f, S)
  BY ZeroAmount DEF AreFractions
<1>2. SumOver(f, S) = SumOver(f, {})
  <2>1. {} \subseteq S /\ \A x \in S : x \notin {} => f[x] = Zero
    OBVIOUS
  <2> QED BY <1>1, <2>1, SumExtended
<1> QED BY <1>2, SumEmpty

\* A sum over two sets that have nothing in common.
LEMMA SumOfParts ==
  ASSUME NEW f, NEW S, NEW T, IsFiniteSet(S), IsFiniteSet(T), S \cap T = {},
         AreFractions(f, S), AreFractions(f, T)
  PROVE  SumOver(f, S \cup T) = Plus(SumOver(f, S), SumOver(f, T))
<1> DEFINE G == {s \in SUBSET T : SumOver(f, S \cup s) = Plus(SumOver(f, S), SumOver(f, s))}
<1>1. IsFraction(SumOver(f, S))
  BY SumType
<1>2. {} \in G
  <2>1. S \cup {} = S
    OBVIOUS
  <2> QED BY <1>1, <2>1, SumEmpty, PlusZero
<1>3. ASSUME NEW s \in SUBSET T, NEW x \in T, s \in G, x \notin s
      PROVE  s \cup {x} \in G
  <2>1. /\ IsFiniteSet(s) /\ IsFiniteSet(S \cup s) /\ x \notin S \cup s
        /\ AreFractions(f, s) /\ AreFractions(f, S \cup s) /\ IsFraction(f[x])
        /\ S \cup (s \cup {x}) = (S \cup s) \cup {x}
    BY <1>3, FS_Subset, FS_Union DEF AreFractions
  <2>2. /\ SumOver(f, (S \cup s) \cup {x}) = Plus(f[x], SumOver(f, S \cup s))
        /\ SumOver(f, s \cup {x}) = Plus(f[x], SumOver(f, s))
        /\ IsFraction(SumOver(f, s))
    BY <1>3, <2>1, SumAdds, SumType
  <2>3. SumOver(f, S \cup s) = Plus(SumOver(f, S), SumOver(f, s))
    BY <1>3
  <2>4. Plus(f[x], Plus(SumOver(f, S), SumOver(f, s))) = Plus(SumOver(f, S), Plus(f[x], SumOver(f, s)))
    BY <1>1, <2>1, <2>2, PlusLaws
  <2>5. SumOver(f, S \cup (s \cup {x})) = Plus(SumOver(f, S), SumOver(f, s \cup {x}))
    BY <2>1, <2>2, <2>3, <2>4
  <2> QED BY <2>5
<1>4. T \in G
  <2> HIDE DEF G
  <2> QED BY <1>2, <1>3, FiniteFrom
<1> QED BY <1>4

\* The two orders of a double sum.
SumsOf(f, S, T, g, h) ==
  /\ \A x \in S, i \in T : IsFraction(f[x][i])
  /\ \A x \in S : g[x] = SumOver(f[x], T)
  /\ \A i \in T : h[i] = SumOver([x \in S |-> f[x][i]], S)

LEMMA SumSwaps ==
  ASSUME NEW S, NEW T, IsFiniteSet(S), IsFiniteSet(T), NEW f, NEW g, NEW h, SumsOf(f, S, T, g, h)
  PROVE  SumOver(g, S) = SumOver(h, T)
<1> DEFINE across(i) == [x \in S |-> f[x][i]]
           row(s) == [i \in T |-> SumOver(across(i), s)]
           G == {s \in SUBSET S : SumOver(g, s) = SumOver(row(s), T)}
<1>1. /\ \A x \in S, i \in T : IsFraction(f[x][i]) /\ across(i)[x] = f[x][i]
      /\ \A x \in S : g[x] = SumOver(f[x], T)
      /\ \A i \in T : h[i] = SumOver(across(i), S)
  BY DEF SumsOf
<1>2. \A i \in T, s \in SUBSET S : AreFractions(across(i), s)
  BY <1>1 DEF AreFractions
<1>3. \A s \in SUBSET S : IsFiniteSet(s)
  BY FS_Subset
<1> HIDE DEF across
<1>4. \A s \in SUBSET S : AreFractions(row(s), T)
  <2> SUFFICES ASSUME NEW s \in SUBSET S, NEW i \in T
               PROVE  IsFraction(row(s)[i])
    BY DEF AreFractions
  <2>1. row(s)[i] = SumOver(across(i), s)
    OBVIOUS
  <2> HIDE DEF row
  <2> QED BY <1>2, <1>3, <2>1, SumType
<1>5. \A x \in S : AreFractions(f[x], T) /\ IsFraction(g[x])
  <2> SUFFICES ASSUME NEW x \in S
               PROVE  AreFractions(f[x], T) /\ IsFraction(g[x])
    OBVIOUS
  <2>1. AreFractions(f[x], T)
    BY <1>1 DEF AreFractions
  <2> QED BY <1>1, <2>1, SumType
<1>6. {} \in G
  <2>1. \A i \in T : row({})[i] = Zero
    BY SumEmpty
  <2>2. SumOver(row({}), T) = Zero
    <3> HIDE DEF row
    <3> QED BY <2>1, SumOfZeros
  <2> QED BY <2>2, SumEmpty
<1>7. ASSUME NEW s \in SUBSET S, NEW x \in S, s \in G, x \notin s
      PROVE  s \cup {x} \in G
  <2>1. s \cup {x} \in SUBSET S /\ IsFiniteSet(s) /\ AreFractions(g, s)
    BY <1>3, <1>5 DEF AreFractions
  <2>2. SumOver(g, s \cup {x}) = Plus(g[x], SumOver(g, s))
    BY <1>5, <1>7, <2>1, SumAdds
  <2>3. \A i \in T : row(s \cup {x})[i] = Plus(f[x][i], row(s)[i])
    <3> SUFFICES ASSUME NEW i \in T
                 PROVE  SumOver(across(i), s \cup {x}) = Plus(f[x][i], SumOver(across(i), s))
      OBVIOUS
    <3>1. AreFractions(across(i), s) /\ IsFraction(across(i)[x]) /\ across(i)[x] = f[x][i]
      BY <1>1, <1>2
    <3> HIDE DEF row
    <3> QED BY <1>7, <2>1, <3>1, SumAdds
  <2>4. SumOver(g, s) = SumOver(row(s), T)
    BY <1>7
  <2> HIDE DEF row
  <2>5. SumOver(row(s \cup {x}), T) = Plus(SumOver(f[x], T), SumOver(row(s), T))
    <3>1. AreFractions(f[x], T) /\ AreFractions(row(s), T) /\ IsFiniteSet(T)
      BY <1>4, <1>5
    <3> DEFINE e == f[x]
               old == row(s)
               new == row(s \cup {x})
    <3>2. AreFractions(e, T) /\ AreFractions(old, T) /\ \A i \in T : new[i] = Plus(e[i], old[i])
      BY <2>3, <3>1
    <3> HIDE DEF e, old, new
    <3>3. SumOver(new, T) = Plus(SumOver(e, T), SumOver(old, T))
      BY <3>1, <3>2, SumPlus
    <3> QED BY <3>3 DEF e, old, new
  <2>6. SumOver(g, s \cup {x}) = SumOver(row(s \cup {x}), T)
    BY <1>1, <2>2, <2>4, <2>5
  <2> QED BY <2>1, <2>6
<1>8. S \in G
  <2> HIDE DEF G
  <2> QED BY <1>6, <1>7, FiniteFrom
<1>9. SumOver(g, S) = SumOver(row(S), T)
  BY <1>8
<1>10. \A i \in T : row(S)[i] = h[i]
  BY <1>1
<1> HIDE DEF row, G
<1> QED BY <1>9, <1>10, SumSame

\* What is left of a share that is not all is not negative, and all of it is the amount.
LEMMA ShareFacts ==
  ASSUME NEW c, NEW f, NEW v, IsAmount(c), IsAmount(f), IsAmount(v), Plus(f, v) # Zero
  PROVE  /\ IsPositive(Plus(f, v)) /\ IsAmount(Times(c, Over(f, Plus(f, v))))
         /\ IsAmount(Minus(c, Times(c, Over(f, Plus(f, v)))))
<1>1. IsAmount(Plus(f, v))
  BY AmountOps
<1>2. IsPositive(Plus(f, v))
  BY <1>1, AmountIsPositive
<1> QED BY <1>2, PartOfAmount

LEMMA TotalIs ==
  ASSUME NEW amount, IsPair(amount)
  PROVE  /\ IsAmount(amount["fixed"]) /\ IsAmount(amount["variable"]) /\ IsAmount(Total(amount))
         /\ Total(amount) = Plus(amount["fixed"], amount["variable"])
         /\ Minus(Total(amount), amount["fixed"]) = amount["variable"]
         /\ Total(amount) = Zero => amount["fixed"] = Zero
<1>1. IsAmount(amount["fixed"]) /\ IsAmount(amount["variable"])
  BY DEF IsPair, Sides
<1>2. IsFraction(amount["fixed"]) /\ IsFraction(amount["variable"])
  BY <1>1 DEF IsAmount
<1>3. Total(amount) = Plus(amount["fixed"], amount["variable"])
  <2>1. "fixed" # "variable"
    OBVIOUS
  <2> QED BY <1>2, <2>1, SumTwo DEF Total, Sides
<1>4. IsAmount(Total(amount)) /\ Minus(Total(amount), amount["fixed"]) = amount["variable"]
  BY <1>1, <1>2, <1>3, AmountOps, MinusPlus
<1>5. amount["fixed"] # Zero => Total(amount) # Zero
  BY <1>1, <1>3, AmountIsPositive, PositiveSum, PositiveFacts, AmountOps DEF IsAmount
<1> QED BY <1>1, <1>3, <1>4, <1>5

\* One concept among the centres: each side of it, whole and nowhere negative.
DirectOf(k, side) == [x \in DOMAIN k.share |-> DirectSide(k, x, side)]

LEMMA DirectSplits ==
  ASSUME NEW k, IsConcept(k), Whose(k.share) = Total(k.amount), NEW side \in Sides
  PROVE  /\ \A x \in DOMAIN k.share : IsAmount(DirectSide(k, x, side))
         /\ SumOver(DirectOf(k, side), DOMAIN k.share) = k.amount[side]
<1> DEFINE D == DOMAIN k.share
           T == Total(k.amount)
           f == k.amount["fixed"]
           fixed == DirectOf(k, "fixed")
           rest == DirectOf(k, "variable")
<1>1. IsPair(k.amount) /\ IsFiniteSet(D) /\ \A x \in D : IsAmount(k.share[x]) /\ IsFraction(k.share[x])
  BY DEF IsConcept, IsKeyed, IsAmount
<1>2. /\ IsAmount(f) /\ IsAmount(k.amount["variable"]) /\ IsAmount(T)
      /\ T = Plus(f, k.amount["variable"]) /\ Minus(T, f) = k.amount["variable"] /\ (T = Zero => f = Zero)
  BY <1>1, TotalIs
<1>3. AreFractions(k.share, D) /\ SumOver(k.share, D) = T
  BY <1>1 DEF AreFractions, Whose
<1>4. \A x \in D : fixed[x] = IF T = Zero THEN Zero ELSE Times(k.share[x], Over(f, T))
  BY DEF DirectOf, DirectSide
<1>5. \A x \in D : rest[x] = Minus(k.share[x], fixed[x])
  BY <1>4 DEF DirectOf, DirectSide
<1>6. \A x \in D : fixed[x] = DirectSide(k, x, "fixed") /\ rest[x] = DirectSide(k, x, "variable")
  BY DEF DirectOf
<1> HIDE DEF fixed, rest, T, f, D
<1>7. \A x \in D : IsAmount(fixed[x]) /\ IsAmount(rest[x]) /\ IsFraction(fixed[x]) /\ IsFraction(rest[x])
  <2> SUFFICES ASSUME NEW x \in D
               PROVE  IsAmount(fixed[x]) /\ IsAmount(rest[x])
    BY DEF IsAmount
  <2>1. CASE T = Zero
    BY <1>1, <1>4, <1>5, <2>1, ZeroAmount, MinusPlus
  <2>2. CASE T # Zero
    <3>1. IsAmount(Times(k.share[x], Over(f, T))) /\ IsAmount(Minus(k.share[x], Times(k.share[x], Over(f, T))))
      BY <1>1, <1>2, <2>2, ShareFacts
    <3> QED BY <1>4, <1>5, <2>2, <3>1
  <2> QED BY <2>1, <2>2
<1>8. AreFractions(fixed, D) /\ AreFractions(rest, D)
  BY <1>7 DEF AreFractions
<1>9. SumOver(fixed, D) = f
  <2>1. CASE T = Zero
    BY <1>1, <1>2, <1>4, <2>1, SumOfZeros
  <2>2. CASE T # Zero
    <3>1. IsFraction(f) /\ IsFraction(T) /\ IsFraction(Over(f, T))
      BY <1>2, <2>2, FractionOps DEF IsAmount
    <3>2. \A x \in D : fixed[x] = Times(Over(f, T), k.share[x])
      BY <1>1, <1>4, <2>2, <3>1, TimesSwaps
    <3>3. SumOver(fixed, D) = Times(Over(f, T), T)
      <4>1. SumOver(fixed, D) = Times(Over(f, T), SumOver(k.share, D))
        BY <1>1, <1>3, <3>1, <3>2, SumTimes
      <4> QED BY <1>3, <4>1
    <3> QED BY <2>2, <3>1, <3>3, OverTimes
  <2> QED BY <2>1, <2>2
<1>10. SumOver(rest, D) = k.amount["variable"]
  <2>1. SumOver(rest, D) = Minus(SumOver(k.share, D), SumOver(fixed, D))
    BY <1>1, <1>3, <1>5, <1>8, SumMinus
  <2> QED BY <1>2, <1>3, <1>9, <2>1
<1>11. side = "fixed" \/ side = "variable"
  BY DEF Sides
<1> QED BY <1>6, <1>7, <1>9, <1>10, <1>11 DEF f, fixed, rest, D

\* An amount shared by weights that are not all nothing.
LEMMA WeightsShare ==
  ASSUME NEW w, NEW S, IsFiniteSet(S), \A x \in S : IsAmount(w[x]), SumOver(w, S) # Zero,
         NEW cost, IsAmount(cost), NEW g, \A x \in S : g[x] = Times(cost, Over(w[x], SumOver(w, S)))
  PROVE  (\A x \in S : IsAmount(g[x])) /\ SumOver(g, S) = cost
<1> DEFINE W == SumOver(w, S)
<1>1. IsAmount(W) /\ IsPositive(W) /\ IsFraction(W) /\ W # Zero /\ IsFraction(cost)
  BY SumOfAmounts, AmountIsPositive DEF IsAmount
<1>2. AreFractions(w, S) /\ \A x \in S : IsFraction(w[x])
  BY DEF AreFractions, IsAmount
<1>3. \A x \in S : g[x] = Times(cost, Over(w[x], W))
  OBVIOUS
<1>4. SumOver(w, S) = W
  OBVIOUS
<1> HIDE DEF W
<1>5. \A x \in S : IsAmount(g[x])
  BY <1>1, <1>3, AmountOps
<1>6. IsFraction(Over(cost, W))
  BY <1>1, FractionOps
<1>7. \A x \in S : g[x] = Times(Over(cost, W), w[x])
  <2> SUFFICES ASSUME NEW x \in S
               PROVE  Times(cost, Over(w[x], W)) = Times(Over(cost, W), w[x])
    BY <1>3
  <2>1. IsFraction(Over(w[x], W))
    BY <1>1, <1>2, FractionOps
  <2>2. Times(cost, Over(w[x], W)) = Times(Over(w[x], W), cost)
    BY <1>1, <2>1, TimesSwaps
  <2> QED BY <1>1, <1>2, <2>2, OverSwaps
<1>8. SumOver(g, S) = Times(Over(cost, W), W)
  BY <1>2, <1>4, <1>6, <1>7, SumTimes
<1> QED BY <1>1, <1>5, <1>8, OverTimes

LEMMA CentersFinite == IsFiniteSet(Productive) /\ IsFiniteSet(Service) /\ IsFiniteSet(Centers)
BY OverheadsAssumption, FS_Union DEF Centers

LEMMA BookFacts ==
  ASSUME NEW b, IsBook(b)
  PROVE  /\ IsList(b.concepts) /\ IsFiniteSet(DOMAIN b.concepts)
         /\ IsList(b.dist) /\ IsFiniteSet(DOMAIN b.dist) /\ IsList(b.order)
         /\ \A i \in DOMAIN b.concepts : IsConcept(b.concepts[i])
         /\ \A i \in DOMAIN b.dist : IsDistribution(b.dist[i])
<1>1. IsList(b.concepts) /\ IsList(b.dist) /\ IsList(b.order)
  BY DEF IsBook, IsList
<1> QED BY <1>1, ListIsFinite DEF IsBook

LEMMA ShareOfConcept ==
  ASSUME NEW k, IsConcept(k), ~Misallocated(k), NEW side \in Sides
  PROVE  /\ \A x \in Centers : IsAmount(Share(k, x, side))
         /\ SumOver([x \in Centers |-> Share(k, x, side)], Centers) = k.amount[side]
<1> DEFINE D == DOMAIN k.share
           s == [x \in Centers |-> Share(k, x, side)]
<1>1. /\ IsPair(k.amount) /\ IsFiniteSet(D) /\ \A x \in D : IsAmount(k.share[x])
      /\ D \subseteq Centers /\ IsAmount(k.amount[side])
  BY DEF IsConcept, IsKeyed, Misallocated, IsPair
<1>2. (\A x \in D : IsAmount(s[x])) /\ SumOver(s, D) = k.amount[side]
  <2>1. CASE k.mode = "direct"
    <3>1. /\ \A x \in D : IsAmount(DirectSide(k, x, side))
          /\ SumOver(DirectOf(k, side), D) = k.amount[side]
      BY <2>1, DirectSplits DEF Misallocated
    <3>2. \A x \in D : s[x] = DirectSide(k, x, side) /\ DirectOf(k, side)[x] = s[x]
      BY <1>1, <2>1 DEF Share, DirectOf
    <3> HIDE DEF s, D
    <3>3. SumOver(DirectOf(k, side), D) = SumOver(s, D)
      BY <1>1, <3>2, SumSame
    <3> QED BY <3>1, <3>2, <3>3
  <2>2. CASE k.mode # "direct"
    <3>1. SumOver(k.share, D) # Zero
      BY <2>2 DEF Misallocated, Whose
    <3>2. \A x \in D : s[x] = Times(k.amount[side], Over(k.share[x], SumOver(k.share, D)))
      BY <1>1, <2>2 DEF Share, Whose
    <3> HIDE DEF s, D
    <3> QED BY <1>1, <3>1, <3>2, WeightsShare
  <2> QED BY <2>1, <2>2
<1>3. \A x \in Centers : s[x] = Share(k, x, side) /\ (x \notin D => s[x] = Zero)
  BY DEF Share
<1> HIDE DEF s, D
<1>4. \A x \in Centers : IsAmount(s[x])
  BY <1>2, <1>3, ZeroAmount
<1>5. AreFractions(s, Centers)
  BY <1>4 DEF AreFractions, IsAmount
<1>6. SumOver(s, Centers) = SumOver(s, D)
  BY <1>1, <1>3, <1>5, CentersFinite, SumExtended
<1> QED BY <1>2, <1>3, <1>4, <1>6 DEF s

\* primaryProration: every centre gets an amount of each side, and together the accounts.
Spent(b, side) == SumOver([i \in DOMAIN b.concepts |-> b.concepts[i].amount[side]], DOMAIN b.concepts)
SideOf(share, S, side) == SumOver([x \in S |-> share[x][side]], S)
ArePairs(share, S) == \A x \in S, side \in Sides : IsAmount(share[x][side]) /\ IsFraction(share[x][side])

LEMMA PrimaryFacts ==
  ASSUME NEW b, IsBook(b), \A i \in DOMAIN b.concepts : ~Misallocated(b.concepts[i])
  PROVE  /\ ArePairs(Primary(b), Centers)
         /\ \A side \in Sides : SideOf(Primary(b), Centers, side) = Spent(b, side)
<1> DEFINE I == DOMAIN b.concepts
<1>1. IsFiniteSet(I) /\ \A i \in I : IsConcept(b.concepts[i])
  BY BookFacts
<1> SUFFICES ASSUME NEW side \in Sides
             PROVE  /\ \A x \in Centers : IsAmount(Primary(b)[x][side])
                    /\ SideOf(Primary(b), Centers, side) = Spent(b, side)
  BY DEF ArePairs, IsAmount
<1> DEFINE f == [x \in Centers |-> [i \in I |-> Share(b.concepts[i], x, side)]]
           g == [x \in Centers |-> Primary(b)[x][side]]
           h == [i \in I |-> b.concepts[i].amount[side]]
<1>2. \A i \in I : (\A x \in Centers : IsAmount(Share(b.concepts[i], x, side)))
                /\ SumOver([x \in Centers |-> Share(b.concepts[i], x, side)], Centers) = b.concepts[i].amount[side]
  BY <1>1, ShareOfConcept
<1>3. \A x \in Centers : g[x] = SumOver(f[x], I) /\ g[x] = Primary(b)[x][side]
  BY DEF Primary
<1>4. \A x \in Centers, i \in I : f[x][i] = Share(b.concepts[i], x, side) /\ IsAmount(f[x][i])
  BY <1>2
<1>5. \A i \in I : h[i] = SumOver([x \in Centers |-> f[x][i]], Centers)
  <2> SUFFICES ASSUME NEW i \in I
               PROVE  b.concepts[i].amount[side] = SumOver([x \in Centers |-> f[x][i]], Centers)
    OBVIOUS
  <2>1. [x \in Centers |-> f[x][i]] = [x \in Centers |-> Share(b.concepts[i], x, side)]
    OBVIOUS
  <2> HIDE DEF f
  <2> QED BY <1>2, <2>1
<1>6. SideOf(Primary(b), Centers, side) = SumOver(g, Centers) /\ Spent(b, side) = SumOver(h, I)
  BY DEF SideOf, Spent
<1> HIDE DEF f, g, h, I
<1>7. SumsOf(f, Centers, I, g, h)
  BY <1>3, <1>4, <1>5 DEF SumsOf, IsAmount
<1>8. SumOver(g, Centers) = SumOver(h, I)
  BY <1>1, <1>7, CentersFinite, SumSwaps
<1>9. \A x \in Centers : IsAmount(g[x])
  BY <1>1, <1>3, <1>4, SumOfAmounts
<1> QED BY <1>3, <1>6, <1>8, <1>9

\* What a distribution gives of a cost: all of it, to its targets.
LEMMA GetsFacts ==
  ASSUME NEW d, IsDistribution(d), NEW cost, NEW side \in Sides, IsAmount(cost[side]), NEW R, IsFiniteSet(R),
         Targets(d, side) \subseteq R
  PROVE  /\ \A x : IsAmount(Gets(d, cost, x, side)) /\ IsFraction(Gets(d, cost, x, side))
         /\ SumOver([x \in R |-> Gets(d, cost, x, side)], R)
              = IF Targets(d, side) = {} THEN Zero ELSE cost[side]
<1> DEFINE T == Targets(d, side)
           w == [x \in T |-> d.to[x][side]]
           g == [x \in R |-> Gets(d, cost, x, side)]
<1>1. \A x \in T : x \in DOMAIN d.to /\ IsPositive(d.to[x][side]) /\ IsAmount(d.to[x][side])
  BY DEF Targets, IsDistribution, IsPair
<1>2. IsFiniteSet(T)
  BY FS_Subset
<1>3. SumOver(w, T) = Base(d, side)
  BY DEF Base, SumOfCenters
<1>4. \A x \in T : w[x] = d.to[x][side]
  OBVIOUS
<1>5. \A x : Gets(d, cost, x, side) = IF x \in T THEN Times(cost[side], Over(w[x], SumOver(w, T))) ELSE Zero
  BY <1>3 DEF Gets
<1>6. \A x \in R : g[x] = Gets(d, cost, x, side)
  OBVIOUS
<1> HIDE DEF w, g, T
<1>7. CASE T = {}
  <2>1. \A x : Gets(d, cost, x, side) = Zero
    BY <1>5, <1>7
  <2>2. SumOver(g, R) = Zero
    BY <1>6, <2>1, SumOfZeros
  <2> QED BY <1>7, <2>1, <2>2, ZeroAmount DEF g, T
<1>8. CASE T # {}
  <2>1. PICK y \in T : TRUE
    BY <1>8
  <2>2. SumOver(w, T) # Zero
    <3>1. IsPositive(SumOver(w, T))
      BY <1>1, <1>2, <1>4, <2>1, SumIsPositive
    <3>2. IsFraction(SumOver(w, T))
      BY <1>1, <1>2, <1>4, SumOfAmounts DEF IsAmount
    <3> QED BY <3>1, <3>2, PositiveFacts
  <2>3. \A x \in T : x \in R /\ g[x] = Times(cost[side], Over(w[x], SumOver(w, T)))
    BY <1>5, <1>6 DEF T
  <2>4. (\A x \in T : IsAmount(g[x])) /\ SumOver(g, T) = cost[side]
    BY <1>1, <1>2, <1>4, <2>2, <2>3, WeightsShare
  <2>5. \A x : IsAmount(Gets(d, cost, x, side))
    BY <1>5, <1>6, <2>3, <2>4, ZeroAmount
  <2>6. AreFractions(g, R) /\ (\A x \in R : x \notin T => g[x] = Zero) /\ T \subseteq R
    BY <1>5, <1>6, <2>5 DEF AreFractions, IsAmount, T
  <2>7. SumOver(g, R) = SumOver(g, T)
    BY <2>6, SumExtended
  <2> QED BY <1>8, <2>4, <2>5, <2>7 DEF g, T, IsAmount
<1> QED BY <1>7, <1>8

\* Two sums that are no less than two others are no less together, and no more only if
\* each of them is the same.
LEMMA ApartFacts ==
  ASSUME NEW x, NEW y, NEW z, NEW t, IsFraction(x), IsFraction(y), IsFraction(z), IsFraction(t),
         IsAmount(Minus(x, z)), IsAmount(Minus(y, t))
  PROVE  /\ IsAmount(Minus(Plus(x, y), Plus(z, t)))
         /\ Plus(x, y) = Plus(z, t) => x = z /\ y = t
<1>1. PICK a, b, c, e \in Int, d \in Nat : d > 0 /\ At(x, a, d) /\ At(y, b, d) /\ At(z, c, d) /\ At(t, e, d)
  BY FourBase DEF FourOver
<1>2. d \in Int /\ d > 0 /\ a + b \in Int /\ c + e \in Int /\ a - c \in Int /\ b - e \in Int
      /\ (a + b) - (c + e) \in Int
  BY <1>1
<1>3. /\ At(Minus(x, z), a - c, d) /\ At(Minus(y, t), b - e, d)
      /\ At(Plus(x, y), a + b, d) /\ At(Plus(z, t), c + e, d)
  BY <1>1, <1>2, PlusAt
<1>4. At(Minus(Plus(x, y), Plus(z, t)), (a + b) - (c + e), d)
  BY <1>2, <1>3, PlusAt
<1>5. a - c >= 0 /\ b - e >= 0
  <2>1. ~IsNegative(Minus(x, z)) /\ ~IsNegative(Minus(y, t))
    BY DEF IsAmount
  <2>2. (IsNegative(Minus(x, z)) <=> a - c < 0) /\ (IsNegative(Minus(y, t)) <=> b - e < 0)
    BY <1>2, <1>3, OrderAt
  <2> QED BY <1>2, <2>1, <2>2
<1>6. IsAmount(Minus(Plus(x, y), Plus(z, t)))
  <2>1. IsNegative(Minus(Plus(x, y), Plus(z, t))) <=> (a + b) - (c + e) < 0
    BY <1>2, <1>4, OrderAt
  <2>2. (a + b) - (c + e) >= 0
    BY <1>1, <1>5
  <2> QED BY <1>2, <1>4, <2>1, <2>2 DEF IsAmount, At
<1>7. ASSUME Plus(x, y) = Plus(z, t)
      PROVE  x = z /\ y = t
  <2>1. a + b = c + e
    BY <1>2, <1>3, <1>7, NumeratorAt
  <2>2. a = c /\ b = e
    BY <1>1, <1>5, <2>1
  <2> QED BY <1>1, <1>2, <2>2, SameAt
<1> QED BY <1>6, <1>7

\* What is given away, by whoever has it and maybe more than once, is no less than what they have.
LEMMA GivenCovers ==
  ASSUME NEW I, NEW R, IsFiniteSet(I), IsFiniteSet(R), NEW g, NEW p, NEW of,
         \A i \in I : IsAmount(g[i]), \A c \in R : IsAmount(p[c]),
         \A c \in R : p[c] # Zero => \E i \in I : of[i] = c /\ g[i] = p[c]
  PROVE  IsAmount(Minus(SumOver(g, I), SumOver(p, R)))
<1> DEFINE held(s) == {i \in I : of[i] \in s}
           sum(s) == SumOver(g, held(s))
           G == {s \in SUBSET R : IsAmount(Minus(sum(s), SumOver(p, s)))}
<1>1. /\ \A s : IsFiniteSet(held(s)) /\ AreFractions(g, held(s)) /\ held(s) \subseteq I
      /\ \A s \in SUBSET R : IsFiniteSet(s) /\ AreFractions(p, s)
  BY FS_Subset DEF AreFractions, IsAmount
<1>2. /\ \A s : IsAmount(sum(s)) /\ IsFraction(sum(s))
      /\ \A s \in SUBSET R : IsAmount(SumOver(p, s)) /\ IsFraction(SumOver(p, s))
  BY <1>1, SumOfAmounts DEF IsAmount
<1>3. {} \in G
  <2>1. SumOver(p, {}) = Zero
    BY SumEmpty
  <2>2. Minus(sum({}), Zero) = sum({})
    BY <1>2, ZeroAmount, MinusPlus
  <2> QED BY <1>2, <2>1, <2>2
<1>4. ASSUME NEW s \in SUBSET R, NEW x \in R, s \in G, x \notin s
      PROVE  s \cup {x} \in G
  <2>1. /\ held(s \cup {x}) = held(s) \cup held({x}) /\ held(s) \cap held({x}) = {}
        /\ s \cup {x} \in SUBSET R
    BY <1>4
  <2>2. SumOver(p, s \cup {x}) = Plus(p[x], SumOver(p, s)) /\ IsFraction(p[x])
    BY <1>1, <1>4, SumAdds DEF IsAmount
  <2>3. IsAmount(Minus(sum({x}), p[x]))
    <3>1. CASE p[x] = Zero
      <4>1. IsFraction(sum({x})) /\ IsAmount(sum({x}))
        BY <1>2
      <4> HIDE DEF sum
      <4>2. Minus(sum({x}), Zero) = sum({x})
        BY <4>1, ZeroAmount, MinusPlus
      <4> QED BY <3>1, <4>1, <4>2
    <3>2. CASE p[x] # Zero
      <4>1. PICK i \in I : of[i] = x /\ g[i] = p[x]
        BY <3>2
      <4>2. i \in held({x}) /\ IsFraction(g[i])
        BY <4>1 DEF IsAmount
      <4>3. sum({x}) = Plus(g[i], SumOver(g, held({x}) \ {i}))
        <5> DEFINE H == held({x})
        <5>1. IsFiniteSet(H) /\ AreFractions(g, H) /\ i \in H
          BY <1>1, <4>2
        <5>2. sum({x}) = SumOver(g, H)
          OBVIOUS
        <5> HIDE DEF H, sum
        <5>3. SumOver(g, H) = Plus(g[i], SumOver(g, H \ {i}))
          BY <5>1, SumLess
        <5> QED BY <5>2, <5>3 DEF H
      <4>4. IsAmount(SumOver(g, held({x}) \ {i})) /\ IsFraction(SumOver(g, held({x}) \ {i}))
        <5>1. IsFiniteSet(held({x}) \ {i}) /\ \A j \in held({x}) \ {i} : IsAmount(g[j])
          BY <1>1, FS_Subset
        <5> QED BY <5>1, SumOfAmounts DEF IsAmount
      <4>5. Minus(Plus(g[i], SumOver(g, held({x}) \ {i})), g[i]) = SumOver(g, held({x}) \ {i})
        BY <4>2, <4>4, MinusPlus
      <4> QED BY <4>1, <4>3, <4>4, <4>5
    <3> QED BY <3>1, <3>2
  <2>4. sum(s \cup {x}) = Plus(sum({x}), sum(s))
    <3>1. sum(s \cup {x}) = Plus(sum(s), sum({x}))
      <4>1. SumOver(g, held(s) \cup held({x})) = Plus(SumOver(g, held(s)), SumOver(g, held({x})))
        <5> DEFINE H == held(s)
                   J == held({x})
        <5>1. IsFiniteSet(H) /\ AreFractions(g, H) /\ IsFiniteSet(J) /\ AreFractions(g, J) /\ H \cap J = {}
          BY <1>1, <2>1
        <5> HIDE DEF H, J
        <5>2. SumOver(g, H \cup J) = Plus(SumOver(g, H), SumOver(g, J))
          BY <5>1, SumOfParts
        <5> QED BY <5>2 DEF H, J
      <4> QED BY <2>1, <4>1
    <3> QED BY <1>2, <3>1, PlusLaws
  <2>5. IsAmount(Minus(sum(s), SumOver(p, s)))
    BY <1>4
  <2> HIDE DEF sum
  <2>6. IsAmount(Minus(Plus(sum({x}), sum(s)), Plus(p[x], SumOver(p, s))))
    BY <1>2, <2>2, <2>3, <2>5, ApartFacts
  <2> QED BY <2>1, <2>2, <2>4, <2>6
<1>5. R \in G
  <2> HIDE DEF G
  <2> QED BY <1>3, <1>4, FiniteFrom
<1> DEFINE left == I \ held(R)
<1>6. /\ IsFiniteSet(left) /\ AreFractions(g, left) /\ held(R) \cap left = {} /\ I = held(R) \cup left
      /\ \A i \in left : IsAmount(g[i])
  BY FS_Subset DEF AreFractions, IsAmount
<1>7. SumOver(g, I) = Plus(sum(R), SumOver(g, left))
  <2>1. SumOver(g, held(R) \cup left) = Plus(SumOver(g, held(R)), SumOver(g, left))
    BY <1>1, <1>6, SumOfParts
  <2> QED BY <1>6, <2>1
<1>8. IsAmount(SumOver(g, left)) /\ IsFraction(SumOver(g, left))
  BY <1>6, SumOfAmounts DEF IsAmount
<1>9. IsAmount(Minus(sum(R), SumOver(p, R))) /\ R \in SUBSET R
  BY <1>5
<1> HIDE DEF sum, left, held
<1>10. IsAmount(Minus(SumOver(g, left), Zero))
  BY <1>8, MinusPlus, ZeroAmount
<1>11. IsAmount(Minus(Plus(sum(R), SumOver(g, left)), Plus(SumOver(p, R), Zero)))
  BY <1>2, <1>8, <1>9, <1>10, ZeroAmount, ApartFacts
<1> QED BY <1>2, <1>7, <1>9, <1>11, PlusZero

\* What the distributions of one side give away, one by one.
GivenBy(b, p, side) == [i \in DOMAIN b.dist |->
  IF Targets(b.dist[i], side) = {} THEN Zero ELSE p[b.dist[i].of][side]]

LEMMA DirectFacts ==
  ASSUME NEW b, IsBook(b), ~DirectRefused(b), NEW p, ArePairs(p, Centers), NEW side \in Sides
  PROVE  /\ \A x \in Productive : IsAmount(Direct(b, p)[x][side])
         /\ SideOf(Direct(b, p), Productive, side)
              = Plus(SideOf(p, Productive, side), SumOver(GivenBy(b, p, side), DOMAIN b.dist))
         /\ \A i \in DOMAIN b.dist : IsAmount(GivenBy(b, p, side)[i])
<1> DEFINE I == DOMAIN b.dist
           of(i) == b.dist[i].of
           f == [x \in Productive |-> [i \in I |-> Gets(b.dist[i], p[of(i)], x, side)]]
           g == [x \in Productive |-> SumOver(f[x], I)]
           h == GivenBy(b, p, side)
           old == [x \in Productive |-> p[x][side]]
           new == [x \in Productive |-> Direct(b, p)[x][side]]
<1>1. /\ IsFiniteSet(I) /\ \A i \in I : IsDistribution(b.dist[i])
      /\ \A i \in I : of(i) \in Centers /\ Targets(b.dist[i], side) \subseteq Productive
  BY BookFacts DEF DirectRefused, AllTargets, Sides
<1>2. \A x \in Centers : IsAmount(p[x][side]) /\ IsFraction(p[x][side])
  BY DEF ArePairs
<1>3. \A i \in I : /\ \A x : IsAmount(Gets(b.dist[i], p[of(i)], x, side)) /\ IsFraction(Gets(b.dist[i], p[of(i)], x, side))
                   /\ SumOver([x \in Productive |-> Gets(b.dist[i], p[of(i)], x, side)], Productive)
                        = IF Targets(b.dist[i], side) = {} THEN Zero ELSE p[of(i)][side]
  <2> SUFFICES ASSUME NEW i \in I
               PROVE  /\ \A x : IsAmount(Gets(b.dist[i], p[of(i)], x, side)) /\ IsFraction(Gets(b.dist[i], p[of(i)], x, side))
                      /\ SumOver([x \in Productive |-> Gets(b.dist[i], p[of(i)], x, side)], Productive)
                           = IF Targets(b.dist[i], side) = {} THEN Zero ELSE p[of(i)][side]
    OBVIOUS
  <2> DEFINE d == b.dist[i]
             cost == p[of(i)]
  <2>1. IsDistribution(d) /\ IsAmount(cost[side]) /\ Targets(d, side) \subseteq Productive
    BY <1>1, <1>2
  <2> HIDE DEF d, cost
  <2>2. /\ \A x : IsAmount(Gets(d, cost, x, side)) /\ IsFraction(Gets(d, cost, x, side))
        /\ SumOver([x \in Productive |-> Gets(d, cost, x, side)], Productive)
             = IF Targets(d, side) = {} THEN Zero ELSE cost[side]
    BY <2>1, CentersFinite, GetsFacts
  <2> QED BY <2>2 DEF d, cost
<1>4. \A i \in I : h[i] = (IF Targets(b.dist[i], side) = {} THEN Zero ELSE p[of(i)][side]) /\ IsAmount(h[i])
  BY <1>1, <1>2, ZeroAmount DEF GivenBy
<1>5. \A i \in I : h[i] = SumOver([x \in Productive |-> f[x][i]], Productive)
  <2> SUFFICES ASSUME NEW i \in I
               PROVE  h[i] = SumOver([x \in Productive |-> f[x][i]], Productive)
    OBVIOUS
  <2>1. [x \in Productive |-> f[x][i]] = [x \in Productive |-> Gets(b.dist[i], p[of(i)], x, side)]
    OBVIOUS
  <2> HIDE DEF f, h
  <2> QED BY <1>3, <1>4, <2>1
<1>6. \A x \in Productive, i \in I : f[x][i] = Gets(b.dist[i], p[of(i)], x, side)
  OBVIOUS
<1>7. \A x \in Productive : new[x] = Plus(p[x][side], SumOver(f[x], I)) /\ new[x] = Direct(b, p)[x][side]
  BY DEF Direct
<1>8. \A x \in Productive : old[x] = p[x][side] /\ x \in Centers
  BY DEF Centers
<1>9. \A x \in Productive : g[x] = SumOver(f[x], I)
  OBVIOUS
<1>10. SideOf(Direct(b, p), Productive, side) = SumOver(new, Productive)
       /\ SideOf(p, Productive, side) = SumOver(old, Productive)
  BY DEF SideOf
<1> HIDE DEF f, g, h, new, old, I, of
<1>11. SumsOf(f, Productive, I, g, h)
  BY <1>3, <1>5, <1>6, <1>9 DEF SumsOf
<1>12. SumOver(g, Productive) = SumOver(h, I)
  BY <1>1, <1>11, CentersFinite, SumSwaps
<1>13. \A x \in Productive : IsAmount(g[x]) /\ IsFraction(g[x])
  <2> SUFFICES ASSUME NEW x \in Productive
               PROVE  IsAmount(SumOver(f[x], I))
    BY <1>9 DEF IsAmount
  <2>1. \A i \in I : IsAmount(f[x][i])
    BY <1>3, <1>6
  <2> QED BY <1>1, <2>1, SumOfAmounts
<1>14. AreFractions(g, Productive) /\ AreFractions(old, Productive)
       /\ \A x \in Productive : new[x] = Plus(old[x], g[x])
  BY <1>2, <1>7, <1>8, <1>9, <1>13 DEF AreFractions
<1>15. SumOver(new, Productive) = Plus(SumOver(old, Productive), SumOver(g, Productive))
  BY <1>14, CentersFinite, SumPlus
<1>16. \A x \in Productive : IsAmount(new[x])
  BY <1>2, <1>8, <1>13, <1>14, AmountOps
<1> QED BY <1>4, <1>7, <1>10, <1>12, <1>15, <1>16 DEF h, I

\* The sides of all the centres add to their totals.
TotalsOf(share, S) == SumOver([x \in S |-> Total(share[x])], S)

LEMMA TotalsSplit ==
  ASSUME NEW S, IsFiniteSet(S), NEW share, ArePairs(share, S)
  PROVE  /\ TotalsOf(share, S) = Plus(SideOf(share, S, "fixed"), SideOf(share, S, "variable"))
         /\ \A side \in Sides : IsAmount(SideOf(share, S, side)) /\ IsFraction(SideOf(share, S, side))
<1> DEFINE f == [x \in S |-> share[x]["fixed"]]
           v == [x \in S |-> share[x]["variable"]]
           t == [x \in S |-> Total(share[x])]
<1>1. "fixed" \in Sides /\ "variable" \in Sides /\ \A side \in Sides : side = "fixed" \/ side = "variable"
  BY DEF Sides
<1>2. \A x \in S : IsPair(share[x])
  BY DEF ArePairs, IsPair
<1>3. \A x \in S : t[x] = Plus(f[x], v[x]) /\ IsAmount(f[x]) /\ IsAmount(v[x])
  BY <1>2, TotalIs
<1>4. /\ SideOf(share, S, "fixed") = SumOver(f, S) /\ SideOf(share, S, "variable") = SumOver(v, S)
      /\ TotalsOf(share, S) = SumOver(t, S)
  BY DEF SideOf, TotalsOf
<1> HIDE DEF f, v, t
<1>5. AreFractions(f, S) /\ AreFractions(v, S)
  BY <1>3 DEF AreFractions, IsAmount
<1>6. SumOver(t, S) = Plus(SumOver(f, S), SumOver(v, S))
  BY <1>3, <1>5, SumPlus
<1>7. IsAmount(SumOver(f, S)) /\ IsAmount(SumOver(v, S))
  BY <1>3, SumOfAmounts
<1> QED BY <1>1, <1>4, <1>6, <1>7 DEF IsAmount

Rest == Centers \ Productive
LEMMA RestCentersFacts ==
  ASSUME NEW p, ArePairs(p, Centers), NEW side \in Sides
  PROVE  /\ SideOf(p, Centers, side) = Plus(SideOf(p, Productive, side), SideOf(p, Rest, side))
         /\ IsFiniteSet(Rest) /\ ArePairs(p, Productive) /\ ArePairs(p, Rest)
<1> DEFINE f == [x \in Centers |-> p[x][side]]
           m == [x \in Productive |-> p[x][side]]
           r == [x \in Rest |-> p[x][side]]
<1>1. /\ IsFiniteSet(Rest) /\ IsFiniteSet(Productive) /\ Productive \cap Rest = {}
      /\ Centers = Productive \cup Rest
  BY CentersFinite, FS_Subset DEF Rest, Centers
<1>2. ArePairs(p, Productive) /\ ArePairs(p, Rest)
  BY <1>1 DEF ArePairs
<1>3. SideOf(p, Centers, side) = SumOver(f, Centers) /\ SideOf(p, Productive, side) = SumOver(m, Productive)
      /\ SideOf(p, Rest, side) = SumOver(r, Rest)
  BY DEF SideOf
<1>4. /\ \A x \in Centers : f[x] = p[x][side] /\ IsFraction(f[x])
      /\ \A x \in Productive : m[x] = f[x]
      /\ \A x \in Rest : r[x] = f[x]
  BY <1>1 DEF ArePairs
<1> HIDE DEF f, m, r
<1>5. SumOver(m, Productive) = SumOver(f, Productive) /\ SumOver(r, Rest) = SumOver(f, Rest)
  BY <1>1, <1>4, SumSame
<1>6. AreFractions(f, Productive) /\ AreFractions(f, Rest)
  BY <1>1, <1>4 DEF AreFractions
<1>7. SumOver(f, Productive \cup Rest) = Plus(SumOver(f, Productive), SumOver(f, Rest))
  BY <1>1, <1>6, SumOfParts
<1> QED BY <1>1, <1>2, <1>3, <1>5, <1>7

\* Where the totals agree and no side is less, each side agrees.
LEMMA SidesAgree ==
  ASSUME NEW p, ArePairs(p, Centers), NEW q, ArePairs(q, Productive),
         TotalsOf(p, Centers) = TotalsOf(q, Productive),
         \/ \A side \in Sides : IsAmount(Minus(SideOf(q, Productive, side), SideOf(p, Centers, side)))
         \/ \A side \in Sides : IsAmount(Minus(SideOf(p, Centers, side), SideOf(q, Productive, side)))
  PROVE  \A side \in Sides : SideOf(q, Productive, side) = SideOf(p, Centers, side)
<1> DEFINE pf == SideOf(p, Centers, "fixed")
           pv == SideOf(p, Centers, "variable")
           qf == SideOf(q, Productive, "fixed")
           qv == SideOf(q, Productive, "variable")
<1>1. "fixed" \in Sides /\ "variable" \in Sides /\ \A side \in Sides : side = "fixed" \/ side = "variable"
  BY DEF Sides
<1>2. IsFraction(pf) /\ IsFraction(pv) /\ IsFraction(qf) /\ IsFraction(qv) /\ Plus(pf, pv) = Plus(qf, qv)
  BY <1>1, CentersFinite, TotalsSplit
<1>3. \/ IsAmount(Minus(qf, pf)) /\ IsAmount(Minus(qv, pv))
      \/ IsAmount(Minus(pf, qf)) /\ IsAmount(Minus(pv, qv))
  BY <1>1
<1> HIDE DEF pf, pv, qf, qv
<1>4. pf = qf /\ pv = qv
  BY <1>2, <1>3, ApartFacts
<1> QED BY <1>1, <1>4 DEF pf, pv, qf, qv

\* The direct proration that the checks let through.
LEMMA DirectKeeps ==
  ASSUME NEW b, IsBook(b), b.order = << >>, ~DirectRefused(b), NEW p, ArePairs(p, Centers),
         ~Incomplete(b, p), ~LosesCost(p, Direct(b, p))
  PROVE  /\ ArePairs(Direct(b, p), Productive)
         /\ \A side \in Sides : SideOf(Direct(b, p), Productive, side) = SideOf(p, Centers, side)
<1> DEFINE q == Direct(b, p)
           I == DOMAIN b.dist
<1>1. ArePairs(q, Productive)
  BY DirectFacts DEF ArePairs, IsAmount
<1>2. TotalsOf(p, Centers) = TotalsOf(q, Productive)
  BY DEF LosesCost, TotalsOf
<1>3. ASSUME NEW side \in Sides
      PROVE  IsAmount(Minus(SideOf(q, Productive, side), SideOf(p, Centers, side)))
  <2> DEFINE g == GivenBy(b, p, side)
             mine == SideOf(p, Productive, side)
             r == [x \in Rest |-> p[x][side]]
             of == [i \in I |-> b.dist[i].of]
  <2>1. /\ SideOf(q, Productive, side) = Plus(mine, SumOver(g, I))
        /\ \A i \in I : IsAmount(g[i])
    BY DirectFacts
  <2>2. /\ SideOf(p, Centers, side) = Plus(mine, SideOf(p, Rest, side)) /\ IsFiniteSet(Rest)
        /\ ArePairs(p, Productive) /\ ArePairs(p, Rest)
    BY RestCentersFacts
  <2>3. SideOf(p, Rest, side) = SumOver(r, Rest)
    BY DEF SideOf
  <2>4. \A c \in Rest : IsAmount(r[c])
    BY <2>2 DEF ArePairs
  <2>5. \A c \in Rest : r[c] # Zero => \E i \in I : of[i] = c /\ g[i] = r[c]
    <3> SUFFICES ASSUME NEW c \in Rest, p[c][side] # Zero
                 PROVE  \E i \in I : of[i] = c /\ g[i] = p[c][side]
      OBVIOUS
    <3>1. c \in Service
      BY DEF Rest, Centers
    <3>2. c \in Gives(b, side)
      BY <3>1 DEF Incomplete
    <3>3. PICK i \in I : Targets(b.dist[i], side) # {} /\ b.dist[i].of = c
      BY <3>2 DEF Gives
    <3> QED BY <3>3 DEF GivenBy
  <2>6. IsFiniteSet(I)
    BY BookFacts
  <2>7. IsFraction(mine) /\ IsFraction(SideOf(p, Rest, side))
    BY <2>2, CentersFinite, TotalsSplit
  <2>8. IsFraction(SumOver(g, I))
    BY <2>1, <2>6, SumOfAmounts DEF IsAmount
  <2> HIDE DEF g, r, mine, q, I, of
  <2>9. IsAmount(Minus(SumOver(g, I), SumOver(r, Rest)))
    BY <2>1, <2>2, <2>4, <2>5, <2>6, GivenCovers
  <2>10. Minus(mine, mine) = Zero
    BY <2>7, MinusChain
  <2>11. IsAmount(Minus(Plus(mine, SumOver(g, I)), Plus(mine, SumOver(r, Rest))))
    BY <2>3, <2>7, <2>8, <2>9, <2>10, ZeroAmount, ApartFacts
  <2> QED BY <2>1, <2>2, <2>3, <2>11
<1> HIDE DEF q
<1>4. \A side \in Sides : IsAmount(Minus(SideOf(q, Productive, side), SideOf(p, Centers, side)))
  BY <1>3
<1>5. \A side \in Sides : SideOf(q, Productive, side) = SideOf(p, Centers, side)
  BY <1>1, <1>2, <1>4, SidesAgree
<1> QED BY <1>1, <1>5 DEF q

\* One closing moves what the centre had, and nothing else.
Moves(old, new) ==
  /\ ArePairs(new, Centers)
  /\ \A side \in Sides : SideOf(new, Centers, side) = SideOf(old, Centers, side)

LEMMA ClosingMoves ==
  ASSUME NEW acc, ArePairs(acc, Centers), NEW c, NEW d, IsDistribution(d), NEW closed,
         ~StepRefused(acc, c, d, closed)
  PROVE  Moves(acc, Closing(acc, c, d))
<1> DEFINE new == Closing(acc, c, d)
<1>1. c \in Centers /\ AllTargets(d) \subseteq Centers \ {c}
      /\ \A side \in Sides : acc[c][side] # Zero => Targets(d, side) # {}
  BY DEF StepRefused
<1> SUFFICES ASSUME NEW side \in Sides
             PROVE  /\ \A x \in Centers : IsAmount(new[x][side])
                    /\ SideOf(new, Centers, side) = SideOf(acc, Centers, side)
  BY DEF Moves, ArePairs, IsAmount
<1> DEFINE R == Centers \ {c}
           cost == acc[c]
           f == [x \in Centers |-> acc[x][side]]
           g == [x \in R |-> Gets(d, cost, x, side)]
           h == [x \in Centers |-> new[x][side]]
<1>2. /\ IsFiniteSet(R) /\ IsFiniteSet(Centers) /\ Centers = R \cup {c} /\ c \notin R
      /\ Targets(d, side) \subseteq R
  <2>1. Targets(d, side) \subseteq AllTargets(d)
    BY DEF AllTargets, Sides
  <2> QED BY <1>1, <2>1, CentersFinite, FS_Subset
<1>3. \A x \in Centers : IsAmount(acc[x][side]) /\ IsFraction(acc[x][side]) /\ f[x] = acc[x][side]
  BY DEF ArePairs
<1>4. IsAmount(cost[side]) /\ f[c] = cost[side]
  BY <1>1, <1>3
<1>5. /\ \A x \in Centers : h[x] = new[x][side]
      /\ \A x \in R : h[x] = Plus(acc[x][side], Gets(d, cost, x, side))
      /\ h[c] = Zero
  BY <1>1 DEF Closing, Nothing
<1>6. SideOf(new, Centers, side) = SumOver(h, Centers) /\ SideOf(acc, Centers, side) = SumOver(f, Centers)
  BY DEF SideOf
<1>7. \A x \in R : g[x] = Gets(d, cost, x, side)
  OBVIOUS
<1>8. Targets(d, side) = {} => cost[side] = Zero
  BY <1>1
<1> HIDE DEF new, R, f, h, cost
<1>9. /\ \A x : IsAmount(Gets(d, cost, x, side)) /\ IsFraction(Gets(d, cost, x, side))
      /\ SumOver(g, R) = cost[side]
  BY <1>2, <1>4, <1>8, GetsFacts
<1> HIDE DEF g
<1>10. AreFractions(f, R) /\ AreFractions(g, R) /\ \A x \in R : h[x] = Plus(f[x], g[x]) /\ IsAmount(h[x])
  BY <1>2, <1>3, <1>5, <1>7, <1>9, AmountOps DEF AreFractions
<1>11. SumOver(h, R) = Plus(SumOver(f, R), SumOver(g, R))
  BY <1>2, <1>10, SumPlus
<1>12. IsFraction(SumOver(f, R)) /\ IsFraction(SumOver(g, R))
  BY <1>2, <1>10, SumType
<1>13. SumOver(h, Centers) = Plus(h[c], SumOver(h, R))
  <2>1. AreFractions(h, R) /\ IsFraction(h[c])
    BY <1>5, <1>10, ZeroAmount DEF AreFractions, IsAmount
  <2> QED BY <1>2, <2>1, SumAdds
<1>14. SumOver(f, Centers) = Plus(f[c], SumOver(f, R))
  BY <1>2, <1>3, <1>10, SumAdds
<1>15. SumOver(h, Centers) = SumOver(f, Centers)
  <2>1. SumOver(h, Centers) = SumOver(h, R)
    BY <1>5, <1>11, <1>12, <1>13, FractionOps, PlusZero
  <2> QED BY <1>4, <1>9, <1>11, <1>12, <1>14, <2>1, PlusLaws
<1>16. \A x \in Centers : IsAmount(h[x])
  BY <1>2, <1>5, <1>10, ZeroAmount
<1> QED BY <1>5, <1>6, <1>15, <1>16

\* The centres close one after the other.
Start(p) == [acc |-> p, closed |-> {}, refused |-> FALSE]
TakesSteps(after, b, p, m) ==
  after = [n \in 0 .. m |-> IF n = 0 THEN Start(p) ELSE StepAfter(b, after[n - 1], b.order[n])]

LEMMA StepwiseFacts ==
  ASSUME NEW b, NEW p, Len(b.order) \in Nat
  PROVE  \E after : TakesSteps(after, b, p, Len(b.order))
                    /\ Stepwise(b, p) = after[Len(b.order)]
<1> DEFINE G == {m \in Nat : \E after : TakesSteps(after, b, p, m)}
<1>1. 0 \in G
  <2> DEFINE f == [n \in 0 .. 0 |-> Start(p)]
  <2>1. TakesSteps(f, b, p, 0)
    BY DEF TakesSteps
  <2> HIDE DEF f
  <2> QED BY <2>1
<1>2. ASSUME NEW m \in Nat, m \in G
      PROVE  m + 1 \in G
  <2>1. PICK g : TakesSteps(g, b, p, m)
    BY <1>2
  <2> DEFINE f == [n \in 0 .. m + 1 |-> IF n = m + 1 THEN StepAfter(b, g[m], b.order[m + 1]) ELSE g[n]]
  <2>2. ASSUME NEW n \in 0 .. m + 1
        PROVE  f[n] = IF n = 0 THEN Start(p) ELSE StepAfter(b, f[n - 1], b.order[n])
    <3>1. CASE n = m + 1
      <4>1. n # 0 /\ n - 1 = m /\ m \in 0 .. m + 1 /\ m # m + 1
        BY <3>1
      <4>2. f[m] = g[m]
        BY <4>1
      <4>3. f[n] = StepAfter(b, g[m], b.order[n])
        BY <3>1
      <4> HIDE DEF f
      <4> QED BY <4>1, <4>2, <4>3
    <3>2. CASE n # m + 1
      <4>1. n \in 0 .. m /\ f[n] = g[n]
        BY <3>2
      <4>2. g[n] = IF n = 0 THEN Start(p) ELSE StepAfter(b, g[n - 1], b.order[n])
        BY <2>1, <4>1 DEF TakesSteps
      <4>3. n # 0 => n - 1 \in 0 .. m + 1 /\ n - 1 # m + 1
        BY <4>1
      <4>4. n # 0 => f[n - 1] = g[n - 1]
        BY <4>3
      <4> HIDE DEF f
      <4> QED BY <4>1, <4>2, <4>4
    <3> QED BY <3>1, <3>2
  <2>3. f = [n \in 0 .. m + 1 |-> f[n]]
    OBVIOUS
  <2> HIDE DEF f
  <2>4. f = [n \in 0 .. m + 1 |-> IF n = 0 THEN Start(p) ELSE StepAfter(b, f[n - 1], b.order[n])]
    BY <2>2, <2>3
  <2>5. TakesSteps(f, b, p, m + 1)
    BY <2>4 DEF TakesSteps
  <2> QED BY <2>5
<1>3. Nat \subseteq G
  <2> HIDE DEF G
  <2> QED BY <1>1, <1>2, NaturalsFrom
<1> DEFINE r == CHOOSE after : TakesSteps(after, b, p, Len(b.order))
<1>4. TakesSteps(r, b, p, Len(b.order))
  BY <1>3
<1>5. Stepwise(b, p) = r[Len(b.order)]
  BY DEF Stepwise, Start, TakesSteps
<1> QED BY <1>4, <1>5

LEMMA LastOfSome ==
  ASSUME NEW n \in Nat, NEW S \in SUBSET (1 .. n), S # {}
  PROVE  \E m \in S : \A k \in S : k <= m
<1> DEFINE G == {m \in Nat : \A T \in SUBSET (1 .. m) : T # {} => \E l \in T : \A k \in T : k <= l}
<1>1. 0 \in G
  <2>1. 1 .. 0 = {}
    OBVIOUS
  <2> QED BY <2>1
<1>2. ASSUME NEW m \in Nat, m \in G
      PROVE  m + 1 \in G
  <2> SUFFICES ASSUME NEW T \in SUBSET (1 .. m + 1), T # {}
               PROVE  \E l \in T : \A k \in T : k <= l
    OBVIOUS
  <2>1. CASE m + 1 \in T
    <3>1. \A k \in T : k <= m + 1
      OBVIOUS
    <3> QED BY <2>1, <3>1
  <2>2. CASE m + 1 \notin T
    <3>1. T \in SUBSET (1 .. m)
      BY <2>2
    <3> QED BY <1>2, <3>1
  <2> QED BY <2>1, <2>2
<1>3. n \in G
  <2> HIDE DEF G
  <2> QED BY <1>1, <1>2, NaturalsFrom
<1> QED BY <1>3

LEMMA StepwiseKeeps ==
  ASSUME NEW b, IsBook(b), NEW p, ArePairs(p, Centers), \A i \in DOMAIN b.order : HasDist(b, b.order[i]),
         ~Stepwise(b, p).refused
  PROVE  Moves(p, Stepwise(b, p).acc)
<1>1. IsList(b.order)
  BY DEF IsBook, IsList
<1>2. Len(b.order) \in Nat /\ DOMAIN b.order = 1 .. Len(b.order)
  BY <1>1, ListFacts
<1>3. PICK after : TakesSteps(after, b, p, Len(b.order)) /\ Stepwise(b, p) = after[Len(b.order)]
  BY <1>2, StepwiseFacts
<1>4. after[0] = Start(p) /\ \A n \in 1 .. Len(b.order) : after[n] = StepAfter(b, after[n - 1], b.order[n])
  BY <1>2, <1>3 DEF TakesSteps
<1>5. \A i \in DOMAIN b.order : IsDistribution(DistOf(b, b.order[i]))
  <2> SUFFICES ASSUME NEW i \in DOMAIN b.order
               PROVE  IsDistribution(DistOf(b, b.order[i]))
    OBVIOUS
  <2> DEFINE c == b.order[i]
             S == {j \in DOMAIN b.dist : b.dist[j].of = c}
  <2>1. /\ Len(b.dist) \in Nat /\ DOMAIN b.dist = 1 .. Len(b.dist)
        /\ \A j \in DOMAIN b.dist : IsDistribution(b.dist[j])
    BY BookFacts, ListFacts
  <2>2. S \in SUBSET (1 .. Len(b.dist)) /\ S # {}
    BY <2>1 DEF HasDist
  <2>3. PICK j \in S : \A k \in S : k <= j
    BY <2>1, <2>2, LastOfSome
  <2>4. \E k \in DOMAIN b.dist : b.dist[k].of = c /\ \A l \in DOMAIN b.dist : b.dist[l].of = c => l <= k
    BY <2>3
  <2> QED BY <2>1, <2>4 DEF DistOf
<1> DEFINE G == {n \in Nat : n <= Len(b.order) => after[n].refused \/ Moves(p, after[n].acc)}
<1>6. 0 \in G
  <2>1. after[0].acc = p
    BY <1>4 DEF Start
  <2> QED BY <2>1 DEF Moves
<1>7. ASSUME NEW n \in Nat, n \in G
      PROVE  n + 1 \in G
  <2> SUFFICES ASSUME n + 1 <= Len(b.order), ~after[n + 1].refused
               PROVE  Moves(p, after[n + 1].acc)
    OBVIOUS
  <2> DEFINE s == after[n]
             c == b.order[n + 1]
             d == DistOf(b, c)
  <2>1. n + 1 \in 1 .. Len(b.order) /\ (n + 1) - 1 = n /\ n <= Len(b.order)
    BY <1>2
  <2>2. after[n + 1] = StepAfter(b, s, c) /\ IsDistribution(d)
    BY <1>2, <1>4, <1>5, <2>1
  <2>3. ~s.refused => Moves(p, s.acc)
    BY <1>7, <2>1
  <2> HIDE DEF s, c, d
  <2>4. ~s.refused /\ ~StepRefused(s.acc, c, d, s.closed) /\ after[n + 1].acc = Closing(s.acc, c, d)
    BY <2>2 DEF StepAfter, d
  <2>5. ArePairs(s.acc, Centers) /\ Moves(p, s.acc)
    BY <2>3, <2>4 DEF Moves
  <2>6. Moves(s.acc, Closing(s.acc, c, d))
    BY <2>2, <2>4, <2>5, ClosingMoves
  <2> QED BY <2>4, <2>5, <2>6 DEF Moves
<1>8. Nat \subseteq G
  <2> HIDE DEF G
  <2> QED BY <1>6, <1>7, NaturalsFrom
<1> QED BY <1>2, <1>3, <1>8

\* resolveProductiveCip: what the checks let through has every cost in a centre of the product.
LEMMA ProrationKeeps ==
  ASSUME NEW b, IsBook(b), ~Proration(b).refused
  PROVE  /\ ArePairs(Proration(b).cip, Productive)
         /\ \A side \in Sides : SideOf(Proration(b).cip, Productive, side) = Spent(b, side)
<1> DEFINE p == Primary(b)
           s == Secondary(b, p)
<1>1. Proration(b) = IF ProrationRefused(b, p, s) THEN [refused |-> TRUE] ELSE s
  BY DEF Proration, ProrationOf
<1> HIDE DEF p, s
<1>2. ~ProrationRefused(b, p, s) /\ Proration(b) = s
  BY <1>1
<1>3. /\ \A i \in DOMAIN b.concepts : ~Misallocated(b.concepts[i])
      /\ \A i \in DOMAIN b.order : HasDist(b, b.order[i])
      /\ ~Incomplete(b, p) /\ ~s.refused /\ ~LosesCost(p, s.cip)
  BY <1>2 DEF ProrationRefused
<1>4. ArePairs(p, Centers) /\ \A side \in Sides : SideOf(p, Centers, side) = Spent(b, side)
  BY <1>3, PrimaryFacts DEF p
<1>5. ArePairs(s.cip, Productive)
      /\ \A side \in Sides : SideOf(s.cip, Productive, side) = SideOf(p, Centers, side)
  <2>1. CASE b.order = << >>
    <3>1. s.cip = Direct(b, p) /\ ~DirectRefused(b)
      BY <1>3, <2>1 DEF s, Secondary
    <3> QED BY <1>3, <1>4, <2>1, <3>1, DirectKeeps
  <2>2. CASE b.order # << >>
    <3> DEFINE t == Stepwise(b, p)
               acc == t.acc
    <3>1. s = [refused |-> t.refused, cip |-> [x \in Productive |-> acc[x]]]
      BY <2>2 DEF s, Secondary, OfProductive
    <3>2. ~t.refused /\ \A x \in Productive : s.cip[x] = acc[x]
      BY <1>3, <3>1
    <3>3. Moves(p, acc)
      BY <1>3, <1>4, <3>2, StepwiseKeeps
    <3> HIDE DEF t, acc
    <3>4. ArePairs(acc, Centers) /\ \A side \in Sides : SideOf(acc, Centers, side) = SideOf(p, Centers, side)
      BY <3>3 DEF Moves
    <3>5. ArePairs(s.cip, Productive)
      BY <3>2, <3>4 DEF ArePairs, Centers
    <3>6. \A side \in Sides : SideOf(s.cip, Productive, side) = SideOf(acc, Productive, side)
      <4> SUFFICES ASSUME NEW side \in Sides
                   PROVE  [x \in Productive |-> s.cip[x][side]] = [x \in Productive |-> acc[x][side]]
        BY DEF SideOf
      <4> QED BY <3>2
    <3>7. TotalsOf(p, Centers) = TotalsOf(s.cip, Productive)
      BY <1>3 DEF LosesCost, TotalsOf
    <3>8. ASSUME NEW side \in Sides
          PROVE  IsAmount(Minus(SideOf(p, Centers, side), SideOf(s.cip, Productive, side)))
      <4> DEFINE mine == SideOf(acc, Productive, side)
                 rest == SideOf(acc, Rest, side)
      <4>1. SideOf(p, Centers, side) = Plus(mine, rest) /\ SideOf(s.cip, Productive, side) = mine
        BY <3>4, <3>6, RestCentersFacts
      <4>2. ArePairs(acc, Productive) /\ ArePairs(acc, Rest) /\ IsFiniteSet(Rest)
        BY <3>4, RestCentersFacts
      <4>3. IsAmount(rest) /\ IsFraction(mine) /\ IsFraction(rest)
        BY <4>2, CentersFinite, TotalsSplit
      <4> HIDE DEF mine, rest
      <4>4. Minus(Plus(mine, rest), mine) = rest
        BY <4>3, MinusPlus
      <4> QED BY <4>1, <4>3, <4>4
    <3>9. \A side \in Sides : IsAmount(Minus(SideOf(p, Centers, side), SideOf(s.cip, Productive, side)))
      BY <3>8
    <3>10. \A side \in Sides : SideOf(s.cip, Productive, side) = SideOf(p, Centers, side)
      BY <1>4, <3>5, <3>7, <3>9, SidesAgree
    <3> QED BY <3>5, <3>10
  <2> QED BY <2>1, <2>2
<1> QED BY <1>2, <1>4, <1>5

-----------------------------------------------------------------------------
(* CostSheet: what was spent is in what was sold, kept or lost.              *)

\* What is applied and the variance of the budget are the cost of the centre, less the
\* quota of the capacity it did not use.
LEMMA VarianceFacts ==
  ASSUME NEW f, NEW v, NEW n, NEW a, NEW c, IsFraction(f), IsFraction(v), IsFraction(n), IsFraction(a),
         IsFraction(c), n # Zero
  PROVE  Plus(Times(Plus(Over(f, n), Over(v, n)), a), Minus(c, Plus(f, Times(Over(v, n), a))))
           = Minus(c, Times(Over(f, n), Minus(n, a)))
<1> DEFINE q == Over(f, n)
           r == Over(v, n)
<1>1. IsFraction(q) /\ IsFraction(r) /\ Times(q, n) = f
  BY FractionOps, OverTimes
<1> HIDE DEF q, r
<1>2. IsFraction(Plus(q, r)) /\ Times(Plus(q, r), a) = Times(a, Plus(q, r))
      /\ Times(a, Plus(q, r)) = Plus(Times(a, q), Times(a, r))
      /\ Times(a, q) = Times(q, a) /\ Times(a, r) = Times(r, a)
  BY <1>1, FractionOps, Distributes
<1>3. Times(q, Minus(n, a)) = Minus(f, Times(q, a))
  BY <1>1, Distributes
<1> DEFINE x == Times(q, a)
           y == Times(r, a)
<1>4. IsFraction(x) /\ IsFraction(y)
  BY <1>1, FractionOps
<1> HIDE DEF x, y
<1>5. Plus(Plus(x, y), Minus(c, Plus(f, y))) = Minus(c, Minus(f, x))
  <2>1. PICK p, s, t, u \in Int, d \in Nat : d > 0 /\ At(x, p, d) /\ At(y, s, d) /\ At(c, t, d) /\ At(f, u, d)
    BY <1>4, FourBase DEF FourOver
  <2>2. d \in Int /\ d > 0 /\ p + s \in Int /\ u + s \in Int /\ t - (u + s) \in Int /\ u - p \in Int
        /\ (p + s) + (t - (u + s)) \in Int /\ t - (u - p) \in Int
    BY <2>1
  <2>3. At(Plus(x, y), p + s, d) /\ At(Plus(f, y), u + s, d) /\ At(Minus(f, x), u - p, d)
    BY <2>1, <2>2, PlusAt
  <2>4. At(Minus(c, Plus(f, y)), t - (u + s), d) /\ At(Minus(c, Minus(f, x)), t - (u - p), d)
    BY <2>1, <2>2, <2>3, PlusAt
  <2>5. At(Plus(Plus(x, y), Minus(c, Plus(f, y))), (p + s) + (t - (u + s)), d)
    BY <2>2, <2>3, <2>4, PlusAt
  <2>6. (p + s) + (t - (u + s)) = t - (u - p)
    BY <2>1
  <2> QED BY <2>2, <2>4, <2>5, <2>6, SameAt
<1>6. Times(Plus(q, r), a) = Plus(x, y) /\ Times(q, Minus(n, a)) = Minus(f, x)
  BY <1>2, <1>3 DEF x, y
<1> QED BY <1>5, <1>6 DEF q, r, x, y

\* A centre puts into the product what the product is said to bear of it.
LEMMA CentreIsBorne ==
  ASSUME NEW s, IsSetting(s), NEW planned, IsPair(planned), ~Applied(s, planned).refused
  PROVE  LET r == Applied(s, planned)
         IN /\ Plus(r.applied, r.budgetVariance) = Bears(s, planned, r)
            /\ IsFraction(r.applied) /\ IsFraction(r.budgetVariance)
<1> DEFINE r == Applied(s, planned)
           f == planned["fixed"]
           v == planned["variable"]
           n == s.bp
           a == s.actual
<1>1. /\ IsAmount(n) /\ IsAmount(a) /\ IsAmount(s.cip) /\ IsAmount(f) /\ IsAmount(v)
      /\ IsFraction(n) /\ IsFraction(a) /\ IsFraction(s.cip) /\ IsFraction(f) /\ IsFraction(v)
      /\ Total(planned) = Plus(f, v)
  BY TotalIs DEF IsSetting, IsAmount
<1>2. r.refused = (~Pending(s) /\ n = Zero)
  BY DEF Applied
<1>3. Pending(s) \/ n # Zero
  BY <1>2
<1>4. CASE n = Zero
  <2>1. r.applied = Times(Plus(Zero, Zero), IF IsPositive(a) THEN a ELSE n) /\ r.budgetVariance = Zero
    BY <1>3, <1>4 DEF Applied, Quota
  <2>2. Plus(Zero, Zero) = Zero /\ Plus(Zero, Zero) = Zero
    BY ZeroAmount, PlusZero
  <2>3. r.applied = Zero
    BY <1>1, <2>1, <2>2, TimesLaws
  <2>4. Bears(s, planned, r) = Zero
    BY <1>3, <1>4, <2>3 DEF Bears
  <2> QED BY <2>1, <2>2, <2>3, <2>4, ZeroAmount
<1>5. CASE n # Zero
  <2> DEFINE rate == Plus(Over(f, n), Over(v, n))
             level == IF IsPositive(a) THEN a ELSE n
  <2>1. IsFraction(Over(f, n)) /\ IsFraction(Over(v, n)) /\ IsFraction(rate) /\ IsFraction(level)
    BY <1>1, <1>5, FractionOps
  <2>2. r.applied = Times(rate, level)
    BY <1>5 DEF Applied, Quota
  <2>3. IsFraction(r.applied)
    BY <2>1, <2>2, FractionOps
  <2>4. CASE Pending(s)
    <3>1. r.budgetVariance = Zero
      BY <2>4 DEF Applied
    <3>2. Plus(r.applied, Zero) = r.applied
      BY <2>3, PlusZero
    <3>3. ~IsPositive(a) => r.applied = Total(planned)
      <4> SUFFICES ASSUME ~IsPositive(a)
                   PROVE  Times(rate, n) = Plus(f, v)
        BY <1>1, <2>2
      <4>1. Times(Over(f, n), n) = f /\ Times(Over(v, n), n) = v
        BY <1>1, <1>5, OverTimes
      <4>2. Times(n, rate) = Plus(Times(n, Over(f, n)), Times(n, Over(v, n)))
            /\ Times(n, Over(f, n)) = Times(Over(f, n), n) /\ Times(n, Over(v, n)) = Times(Over(v, n), n)
            /\ Times(n, rate) = Times(rate, n)
        BY <1>1, <2>1, Distributes
      <4> QED BY <4>1, <4>2
    <3>4. Bears(s, planned, r) = r.applied
      BY <1>5, <2>4, <3>3 DEF Bears
    <3> QED BY <2>3, <3>1, <3>2, <3>4, ZeroAmount
  <2>5. CASE ~Pending(s)
    <3>1. IsPositive(a) /\ level = a
      BY <2>5 DEF Pending
    <3>2. /\ r.budgetVariance = Minus(s.cip, Plus(f, Times(Over(v, n), a)))
          /\ r.volumeVariance = Times(Over(f, n), Minus(n, a))
      BY <1>5, <2>5 DEF Applied, Quota
    <3>3. Bears(s, planned, r) = Minus(s.cip, Times(Over(f, n), Minus(n, a)))
      BY <2>5, <3>2 DEF Bears
    <3>4. IsFraction(r.budgetVariance)
      BY <1>1, <2>1, <3>2, FractionOps
    <3>5. Plus(Times(rate, a), Minus(s.cip, Plus(f, Times(Over(v, n), a)))) = Minus(s.cip, Times(Over(f, n), Minus(n, a)))
      BY <1>1, <1>5, VarianceFacts
    <3> QED BY <2>2, <2>3, <3>1, <3>2, <3>3, <3>4, <3>5
  <2> QED BY <2>4, <2>5
<1> QED BY <1>4, <1>5

\* Twelve fractions over one denominator.
Twelve(raw, stock, labour, applied, apart, variance, back, loss, w0, w1, g0, g1) ==
  \E a1, a2, a3, a4, a5, a6, a7, a8, b1, b2, b3, b4 \in Int, d \in Nat :
    /\ d > 0 /\ At(raw, a1, d) /\ At(stock, a2, d) /\ At(labour, a3, d) /\ At(applied, a4, d)
    /\ At(apart, a5, d) /\ At(variance, a6, d) /\ At(back, a7, d) /\ At(loss, a8, d)
    /\ At(w0, b1, d) /\ At(w1, b2, d) /\ At(g0, b3, d) /\ At(g1, b4, d)

LEMMA TwelveBase ==
  ASSUME NEW raw, NEW stock, NEW labour, NEW applied, NEW apart, NEW variance, NEW back, NEW loss,
         NEW w0, NEW w1, NEW g0, NEW g1, Eight(raw, stock, labour, applied, apart, variance, back, loss),
         IsFraction(w0), IsFraction(w1), IsFraction(g0), IsFraction(g1)
  PROVE  Twelve(raw, stock, labour, applied, apart, variance, back, loss, w0, w1, g0, g1)
<1>1. PICK p1, p2, p3, p4, p5, p6, p7, p8 \in Int, q \in Nat :
           /\ q > 0 /\ At(raw, p1, q) /\ At(stock, p2, q) /\ At(labour, p3, q) /\ At(applied, p4, q)
           /\ At(apart, p5, q) /\ At(variance, p6, q) /\ At(back, p7, q) /\ At(loss, p8, q)
  BY EightBase
<1>2. PICK r1, r2, r3, r4 \in Int, s \in Nat :
           s > 0 /\ At(w0, r1, s) /\ At(w1, r2, s) /\ At(g0, r3, s) /\ At(g1, r4, s)
  BY FourBase DEF FourOver
<1>3. q \in Int /\ s \in Int
  BY <1>1, <1>2
<1>4. PICK a1, a2, a3, a4, a5, a6, a7, a8 \in Int :
        /\ a1 = p1 * s /\ a2 = p2 * s /\ a3 = p3 * s /\ a4 = p4 * s
        /\ a5 = p5 * s /\ a6 = p6 * s /\ a7 = p7 * s /\ a8 = p8 * s
  BY <1>3
<1>5. PICK b1, b2, b3, b4 \in Int : b1 = r1 * q /\ b2 = r2 * q /\ b3 = r3 * q /\ b4 = r4 * q
  BY <1>3
<1>6. PICK d \in Int : d = q * s /\ d = s * q
  BY <1>3
<1>7. d > 0 /\ d \in Nat
  BY <1>1, <1>2, <1>3, <1>6, ProductPositive
<1>8. /\ At(raw, a1, d) /\ At(stock, a2, d) /\ At(labour, a3, d) /\ At(applied, a4, d)
      /\ At(apart, a5, d) /\ At(variance, a6, d) /\ At(back, a7, d) /\ At(loss, a8, d)
  <2>1. At(raw, p1 * s, q * s) /\ At(stock, p2 * s, q * s)
    BY <1>1, <1>2, <1>3, ScaleAt
  <2>2. At(labour, p3 * s, q * s) /\ At(applied, p4 * s, q * s)
    BY <1>1, <1>2, <1>3, ScaleAt
  <2>3. At(apart, p5 * s, q * s) /\ At(variance, p6 * s, q * s)
    BY <1>1, <1>2, <1>3, ScaleAt
  <2>4. At(back, p7 * s, q * s) /\ At(loss, p8 * s, q * s)
    BY <1>1, <1>2, <1>3, ScaleAt
  <2> QED BY <1>4, <1>6, <2>1, <2>2, <2>3, <2>4
<1>9. At(w0, b1, d) /\ At(w1, b2, d) /\ At(g0, b3, d) /\ At(g1, b4, d)
  <2>1. At(w0, r1 * q, s * q) /\ At(w1, r2 * q, s * q)
    BY <1>1, <1>2, <1>3, ScaleAt
  <2>2. At(g0, r3 * q, s * q) /\ At(g1, r4 * q, s * q)
    BY <1>1, <1>2, <1>3, ScaleAt
  <2> QED BY <1>5, <1>6, <2>1, <2>2
<1> QED BY <1>7, <1>8, <1>9 DEF Twelve

\* calcCostStatement: what came in is what went out.
LEMMA StatementBalances ==
  ASSUME NEW raw, NEW stock, NEW labour, NEW applied, NEW apart, NEW variance, NEW back, NEW loss,
         NEW w0, NEW w1, NEW g0, NEW g1,
         Twelve(raw, stock, labour, applied, apart, variance, back, loss, w0, w1, g0, g1)
  PROVE  LET normal   == Plus(Minus(raw, stock), Plus(labour, applied))
             real     == Plus(normal, Plus(apart, variance))
             net      == Minus(Minus(real, back), loss)
             finished == Minus(Plus(net, w0), w1)
             sold     == Minus(Plus(finished, g0), g1)
         IN Plus(sold, Plus(Plus(stock, Plus(w1, g1)), Plus(back, loss)))
              = Plus(Plus(raw, Plus(Plus(labour, apart), Plus(w0, g0))), Plus(applied, variance))
<1>1. PICK a1, a2, a3, a4, a5, a6, a7, a8, b1, b2, b3, b4 \in Int, d \in Nat :
        /\ d > 0 /\ At(raw, a1, d) /\ At(stock, a2, d) /\ At(labour, a3, d) /\ At(applied, a4, d)
        /\ At(apart, a5, d) /\ At(variance, a6, d) /\ At(back, a7, d) /\ At(loss, a8, d)
        /\ At(w0, b1, d) /\ At(w1, b2, d) /\ At(g0, b3, d) /\ At(g1, b4, d)
  BY DEF Twelve
<1> DEFINE normal   == Plus(Minus(raw, stock), Plus(labour, applied))
           real     == Plus(normal, Plus(apart, variance))
           net      == Minus(Minus(real, back), loss)
           finished == Minus(Plus(net, w0), w1)
           sold     == Minus(Plus(finished, g0), g1)
           n1 == (a1 - a2) + (a3 + a4)
           n2 == n1 + (a5 + a6)
           n3 == (n2 - a7) - a8
           n4 == (n3 + b1) - b2
           n5 == (n4 + b3) - b4
<1>2. d \in Int /\ d > 0
  BY <1>1
<1>3. At(Minus(raw, stock), a1 - a2, d) /\ At(Plus(labour, applied), a3 + a4, d)
      /\ At(Plus(apart, variance), a5 + a6, d)
  BY <1>1, <1>2, PlusAt
<1>4. n1 \in Int /\ a1 - a2 \in Int /\ a3 + a4 \in Int /\ a5 + a6 \in Int
  BY <1>1
<1>5. At(normal, n1, d)
  BY <1>2, <1>3, <1>4, PlusAt
<1>6. n2 \in Int
  BY <1>4
<1> HIDE DEF normal, n1
<1>7. At(real, n2, d)
  BY <1>2, <1>3, <1>4, <1>5, PlusAt
<1>8. n3 \in Int /\ n2 - a7 \in Int
  BY <1>1, <1>6
<1> HIDE DEF real, n2
<1>9. At(net, n3, d)
  <2>1. At(Minus(real, back), n2 - a7, d)
    BY <1>1, <1>2, <1>6, <1>7, PlusAt
  <2> QED BY <1>1, <1>2, <1>8, <2>1, PlusAt
<1>10. n4 \in Int /\ n3 + b1 \in Int
  BY <1>1, <1>8
<1> HIDE DEF net, n3
<1>11. At(finished, n4, d)
  <2>1. At(Plus(net, w0), n3 + b1, d)
    BY <1>1, <1>2, <1>8, <1>9, PlusAt
  <2> QED BY <1>1, <1>2, <1>10, <2>1, PlusAt
<1>12. n5 \in Int /\ n4 + b3 \in Int
  BY <1>1, <1>10
<1> HIDE DEF finished, n4
<1>13. At(sold, n5, d)
  <2>1. At(Plus(finished, g0), n4 + b3, d)
    BY <1>1, <1>2, <1>10, <1>11, PlusAt
  <2> QED BY <1>1, <1>2, <1>12, <2>1, PlusAt
<1> HIDE DEF sold, n5
<1> DEFINE k1 == a2 + (b2 + b4)
           k2 == a7 + a8
           out == n5 + (k1 + k2)
           m1 == (a3 + a5) + (b1 + b3)
           in == (a1 + m1) + (a4 + a6)
<1>14. b2 + b4 \in Int /\ k1 \in Int /\ k2 \in Int /\ k1 + k2 \in Int /\ out \in Int
       /\ a3 + a5 \in Int /\ b1 + b3 \in Int /\ m1 \in Int /\ a1 + m1 \in Int /\ a4 + a6 \in Int /\ in \in Int
  BY <1>1, <1>12
<1>15. At(Plus(w1, g1), b2 + b4, d) /\ At(Plus(back, loss), k2, d) /\ At(Plus(labour, apart), a3 + a5, d)
       /\ At(Plus(w0, g0), b1 + b3, d) /\ At(Plus(applied, variance), a4 + a6, d)
  BY <1>1, <1>2, PlusAt
<1>16. At(Plus(stock, Plus(w1, g1)), k1, d) /\ At(Plus(Plus(labour, apart), Plus(w0, g0)), m1, d)
  BY <1>1, <1>2, <1>14, <1>15, PlusAt
<1>17. out = in
  BY <1>1 DEF n5, n4, n3, n2, n1
<1> HIDE DEF k1, k2, m1
<1>18. /\ At(Plus(Plus(stock, Plus(w1, g1)), Plus(back, loss)), k1 + k2, d)
       /\ At(Plus(raw, Plus(Plus(labour, apart), Plus(w0, g0))), a1 + m1, d)
  BY <1>1, <1>2, <1>14, <1>15, <1>16, PlusAt
<1>19. At(Plus(sold, Plus(Plus(stock, Plus(w1, g1)), Plus(back, loss))), out, d)
  BY <1>2, <1>12, <1>13, <1>14, <1>18, PlusAt
<1>20. At(Plus(Plus(raw, Plus(Plus(labour, apart), Plus(w0, g0))), Plus(applied, variance)), in, d)
  BY <1>1, <1>2, <1>14, <1>15, <1>18, PlusAt
<1> HIDE DEF out, in
<1>21. Plus(sold, Plus(Plus(stock, Plus(w1, g1)), Plus(back, loss)))
         = Plus(Plus(raw, Plus(Plus(labour, apart), Plus(w0, g0))), Plus(applied, variance))
  BY <1>2, <1>14, <1>17, <1>19, <1>20, SameAt
<1> QED BY <1>21 DEF sold, finished, net, real, normal

\* The movements are booked one after the other.
TakesMoves(after, l, m) ==
  after = [n \in 0 .. m |-> IF n = 0 THEN LedgerStart(l) ELSE StockAfter(after[n - 1], l.movements[n])]

LEMMA LedgerOfFacts ==
  ASSUME NEW l, Len(l.movements) \in Nat
  PROVE  \E after : TakesMoves(after, l, Len(l.movements))
                    /\ LedgerOf(l) = after[Len(l.movements)]
<1> DEFINE G == {m \in Nat : \E after : TakesMoves(after, l, m)}
<1>1. 0 \in G
  <2> DEFINE f == [n \in 0 .. 0 |-> LedgerStart(l)]
  <2>1. TakesMoves(f, l, 0)
    BY DEF TakesMoves
  <2> HIDE DEF f
  <2> QED BY <2>1
<1>2. ASSUME NEW m \in Nat, m \in G
      PROVE  m + 1 \in G
  <2>1. PICK g : TakesMoves(g, l, m)
    BY <1>2
  <2> DEFINE f == [n \in 0 .. m + 1 |-> IF n = m + 1 THEN StockAfter(g[m], l.movements[m + 1]) ELSE g[n]]
  <2>2. ASSUME NEW n \in 0 .. m + 1
        PROVE  f[n] = IF n = 0 THEN LedgerStart(l) ELSE StockAfter(f[n - 1], l.movements[n])
    <3>1. CASE n = m + 1
      <4>1. n # 0 /\ n - 1 = m /\ m \in 0 .. m + 1 /\ m # m + 1
        BY <3>1
      <4>2. f[m] = g[m]
        BY <4>1
      <4>3. f[n] = StockAfter(g[m], l.movements[n])
        BY <3>1
      <4> HIDE DEF f
      <4> QED BY <4>1, <4>2, <4>3
    <3>2. CASE n # m + 1
      <4>1. n \in 0 .. m /\ f[n] = g[n]
        BY <3>2
      <4>2. g[n] = IF n = 0 THEN LedgerStart(l) ELSE StockAfter(g[n - 1], l.movements[n])
        BY <2>1, <4>1 DEF TakesMoves
      <4>3. n # 0 => n - 1 \in 0 .. m + 1 /\ n - 1 # m + 1
        BY <4>1
      <4>4. n # 0 => f[n - 1] = g[n - 1]
        BY <4>3
      <4> HIDE DEF f
      <4> QED BY <4>1, <4>2, <4>4
    <3> QED BY <3>1, <3>2
  <2>3. f = [n \in 0 .. m + 1 |-> f[n]]
    OBVIOUS
  <2> HIDE DEF f
  <2>4. f = [n \in 0 .. m + 1 |-> IF n = 0 THEN LedgerStart(l) ELSE StockAfter(f[n - 1], l.movements[n])]
    BY <2>2, <2>3
  <2>5. TakesMoves(f, l, m + 1)
    BY <2>4 DEF TakesMoves
  <2> QED BY <2>5
<1>3. Nat \subseteq G
  <2> HIDE DEF G
  <2> QED BY <1>1, <1>2, NaturalsFrom
<1> DEFINE r == CHOOSE after : TakesMoves(after, l, Len(l.movements))
<1>4. TakesMoves(r, l, Len(l.movements))
  BY <1>3
<1>5. LedgerOf(l) = r[Len(l.movements)]
  BY DEF LedgerOf, TakesMoves
<1> QED BY <1>4, <1>5


\* What is in stock and what was consumed are what there was and what was bought.
Bought(l) ==
  [i \in DOMAIN l.movements |-> IF l.movements[i].type = "purchase"
     THEN Times(Default(l.movements[i].unitCost, Zero), l.movements[i].qty) ELSE Zero]
Booked(s, l, n) ==
  \/ s.refused
  \/ /\ IsFraction(s.qty) /\ IsFraction(s.price) /\ IsFraction(s.value) /\ IsFraction(s.consumed)
     /\ Plus(s.value, s.consumed) = Plus(Times(l.unitCost, l.quantity), SumOver(Bought(l), 1 .. n))

LEMMA LedgerFacts ==
  ASSUME NEW l, IsLedger(l)
  PROVE  /\ Len(l.movements) \in Nat /\ DOMAIN l.movements = 1 .. Len(l.movements)
         /\ IsFiniteSet(DOMAIN l.movements) /\ AreFractions(Bought(l), DOMAIN l.movements)
         /\ IsFraction(l.quantity) /\ IsFraction(l.unitCost) /\ IsFraction(Times(l.unitCost, l.quantity))
<1>1. IsList(l.movements)
  BY DEF IsLedger, IsList
<1>2. IsFraction(l.quantity) /\ IsFraction(l.unitCost)
  BY DEF IsLedger, IsAmount
<1>3. AreFractions(Bought(l), DOMAIN l.movements)
  <2> SUFFICES ASSUME NEW i \in DOMAIN l.movements
               PROVE  IsFraction(Bought(l)[i])
    BY DEF AreFractions
  <2>1. IsMovement(l.movements[i])
    BY DEF IsLedger
  <2>2. IsFraction(Default(l.movements[i].unitCost, Zero)) /\ IsFraction(l.movements[i].qty)
    BY <2>1, ZeroAmount, DefaultFacts DEF IsMovement, IsAmount
  <2>3. IsFraction(Times(Default(l.movements[i].unitCost, Zero), l.movements[i].qty))
    BY <2>2, FractionOps
  <2> QED BY <2>3, ZeroAmount DEF Bought
<1> QED BY <1>1, <1>2, <1>3, ListFacts, ListIsFinite, FractionOps

\* One movement more.
LEMMA MoveIsBooked ==
  ASSUME NEW l, IsLedger(l), NEW s, NEW n \in Nat, n < Len(l.movements), Booked(s, l, n)
  PROVE  Booked(StockAfter(s, l.movements[n + 1]), l, n + 1)
<1> DEFINE m == l.movements[n + 1]
           t == StockAfter(s, m)
           opening == Times(l.unitCost, l.quantity)
           before == SumOver(Bought(l), 1 .. n)
           new == Bought(l)[n + 1]
<1>1. /\ Len(l.movements) \in Nat /\ n + 1 \in DOMAIN l.movements /\ 1 .. n \subseteq DOMAIN l.movements
      /\ 1 .. n + 1 = (1 .. n) \cup {n + 1} /\ n + 1 \notin 1 .. n
  BY LedgerFacts
<1>2. IsMovement(m) /\ IsFraction(m.qty)
  BY <1>1 DEF IsLedger, IsMovement
<1>3. IsFiniteSet(1 .. n) /\ AreFractions(Bought(l), 1 .. n) /\ IsFraction(new) /\ IsFraction(opening)
  BY <1>1, LedgerFacts, FS_Subset DEF AreFractions
<1>4. IsFraction(before)
  BY <1>3, SumType
<1>5. SumOver(Bought(l), 1 .. n + 1) = Plus(new, before)
  BY <1>1, <1>3, SumAdds
<1>6. new = IF m.type = "purchase" THEN Times(Default(m.unitCost, Zero), m.qty) ELSE Zero
  BY <1>1 DEF Bought
<1>7. CASE s.refused \/ Refuses(s, m)
  BY <1>7 DEF Booked, StockAfter
<1>8. CASE ~s.refused /\ ~Refuses(s, m)
  <2>1. /\ IsFraction(s.qty) /\ IsFraction(s.price) /\ IsFraction(s.value) /\ IsFraction(s.consumed)
        /\ Plus(s.value, s.consumed) = Plus(opening, before)
    BY <1>8 DEF Booked
  <2> SUFFICES /\ IsFraction(t.qty) /\ IsFraction(t.price) /\ IsFraction(t.value) /\ IsFraction(t.consumed)
               /\ Plus(t.value, t.consumed) = Plus(opening, Plus(new, before))
    BY <1>5 DEF Booked
  <2>2. CASE m.type = "purchase"
    <3>1. Given(m.unitCost)
      BY <1>8, <2>2 DEF Refuses
    <3>2. IsFraction(m.unitCost) /\ Default(m.unitCost, Zero) = m.unitCost
      BY <1>2, <3>1, ZeroAmount, DefaultFacts DEF IsMovement, IsAmount
    <3>3. t = Purchase(s, m)
      BY <1>8, <2>2 DEF StockAfter
    <3>4. new = Times(m.unitCost, m.qty)
      BY <1>6, <2>2, <3>2
    <3>5. /\ t.qty = Plus(s.qty, m.qty) /\ t.value = Plus(s.value, new) /\ t.consumed = s.consumed
          /\ t.price = IF t.qty = Zero THEN Zero ELSE Over(t.value, t.qty)
      BY <3>3, <3>4 DEF Purchase
    <3> HIDE DEF t, m, new, opening, before
    <3>6. IsFraction(t.qty) /\ IsFraction(t.value)
      BY <1>2, <1>3, <2>1, <3>5, FractionOps
    <3>7. IsFraction(t.price)
      BY <3>5, <3>6, ZeroAmount, FractionOps
    <3>8. Plus(Plus(s.value, new), s.consumed) = Plus(new, Plus(opening, before))
      <4>1. Plus(s.value, new) = Plus(new, s.value)
            /\ Plus(new, Plus(s.value, s.consumed)) = Plus(Plus(new, s.value), s.consumed)
        BY <1>3, <2>1, PlusLaws
      <4> QED BY <2>1, <4>1
    <3>9. Plus(new, Plus(opening, before)) = Plus(opening, Plus(new, before))
      BY <1>3, <1>4, PlusLaws
    <3> QED BY <2>1, <3>5, <3>6, <3>7, <3>8, <3>9
  <2>3. CASE m.type # "purchase"
    <3> DEFINE cost == Times(s.price, m.qty)
    <3>1. t = Consumption(s, m)
      BY <1>8, <2>3 DEF StockAfter
    <3>2. /\ t.qty = Minus(s.qty, m.qty) /\ t.value = Minus(s.value, cost) /\ t.consumed = Plus(s.consumed, cost)
          /\ t.price = s.price /\ new = Zero
      BY <1>6, <2>3, <3>1 DEF Consumption
    <3>3. IsFraction(cost)
      BY <1>2, <2>1, FractionOps
    <3> HIDE DEF t, m, new, opening, before, cost
    <3>4. IsFraction(t.qty) /\ IsFraction(t.value) /\ IsFraction(t.consumed)
      BY <1>2, <2>1, <3>2, <3>3, FractionOps
    <3>5. Plus(Minus(s.value, cost), Plus(s.consumed, cost)) = Plus(s.value, s.consumed)
      <4>1. Plus(s.consumed, cost) = Plus(cost, s.consumed)
            /\ Plus(t.value, Plus(cost, s.consumed)) = Plus(Plus(t.value, cost), s.consumed)
        BY <2>1, <3>3, <3>4, PlusLaws
      <4>2. Plus(Minus(s.value, cost), cost) = s.value
        BY <2>1, <3>3, MinusPlus
      <4> QED BY <3>2, <4>1, <4>2
    <3>6. Plus(new, before) = before
      BY <1>4, <3>2, PlusZero
    <3> QED BY <2>1, <3>2, <3>4, <3>5, <3>6
  <2> QED BY <2>2, <2>3
<1> QED BY <1>7, <1>8

LEMMA LedgerIsBooked ==
  ASSUME NEW l, IsLedger(l), ~LedgerOf(l).refused
  PROVE  LET s == LedgerOf(l)
             had == Plus(Times(l.unitCost, l.quantity), Purchases(l))
         IN /\ IsFraction(s.value) /\ IsFraction(s.consumed)
            /\ s.consumed = Minus(had, s.value) /\ IsFraction(had)
<1> DEFINE N == Len(l.movements)
           opening == Times(l.unitCost, l.quantity)
<1>1. N \in Nat /\ DOMAIN l.movements = 1 .. N /\ IsFraction(opening) /\ IsFraction(l.quantity)
      /\ IsFraction(l.unitCost) /\ IsFiniteSet(1 .. N) /\ AreFractions(Bought(l), 1 .. N)
  BY LedgerFacts
<1>2. PICK after : TakesMoves(after, l, N) /\ LedgerOf(l) = after[N]
  BY <1>1, LedgerOfFacts
<1>3. \A n \in 0 .. N : after[n] = IF n = 0 THEN LedgerStart(l) ELSE StockAfter(after[n - 1], l.movements[n])
  BY <1>2 DEF TakesMoves
<1> DEFINE G == {n \in Nat : n <= N => Booked(after[n], l, n)}
<1>4. 0 \in G
  <2>1. after[0] = LedgerStart(l)
    BY <1>1, <1>3
  <2>2. 1 .. 0 = {}
    OBVIOUS
  <2>3. SumOver(Bought(l), 1 .. 0) = Zero
    BY <2>2, SumEmpty
  <2> DEFINE s == LedgerStart(l)
  <2>4. s.qty = l.quantity /\ s.price = l.unitCost /\ s.value = opening /\ s.consumed = Zero
    BY DEF LedgerStart
  <2> HIDE DEF s, opening
  <2>5. Booked(s, l, 0)
    BY <1>1, <2>3, <2>4, ZeroAmount DEF Booked, opening
  <2> QED BY <2>1, <2>5 DEF s
<1>5. ASSUME NEW n \in Nat, n \in G
      PROVE  n + 1 \in G
  <2> SUFFICES ASSUME n + 1 <= N
               PROVE  Booked(after[n + 1], l, n + 1)
    OBVIOUS
  <2>1. n + 1 \in 0 .. N /\ n + 1 # 0 /\ n < N /\ (n + 1) - 1 = n
    BY <1>1
  <2>2. Booked(after[n], l, n)
    BY <1>5, <2>1
  <2>3. after[n + 1] = StockAfter(after[n], l.movements[n + 1])
    BY <1>3, <2>1
  <2> QED BY <2>1, <2>2, <2>3, MoveIsBooked
<1>6. N \in G
  <2> HIDE DEF G
  <2> QED BY <1>1, <1>4, <1>5, NaturalsFrom
<1> DEFINE s == LedgerOf(l)
           bought == SumOver(Bought(l), 1 .. N)
<1>7. Booked(s, l, N)
  BY <1>1, <1>2, <1>6
<1>8. Purchases(l) = bought
  BY <1>1 DEF Purchases, Bought
<1>9. IsFraction(bought)
  BY <1>1, SumType
<1>10. IsFraction(s.value) /\ IsFraction(s.consumed) /\ Plus(s.value, s.consumed) = Plus(opening, bought)
  BY <1>7 DEF Booked
<1> HIDE DEF s, bought, opening
<1>11. s.consumed = Minus(Plus(opening, bought), s.value)
  BY <1>10, MinusPlus
<1>12. IsFraction(Plus(opening, bought))
  BY <1>1, <1>9, FractionOps
<1> QED BY <1>8, <1>10, <1>11, <1>12 DEF s, opening

\* The waste of the month, in fractions.
LEMMA WasteFacts ==
  ASSUME NEW ws, IsFiniteSet(ws), \A w \in ws : IsWaste(w)
  PROVE  IsFraction(WasteRecovery(ws)) /\ IsFraction(ExtraordinaryCost(ws))
<1> DEFINE f == [w \in ws |-> IF w.nature = "normal" THEN w.recovered ELSE Zero]
           g == [w \in ws |-> IF w.nature = "extraordinaria" THEN Minus(w.value, w.recovered) ELSE Zero]
<1>1. AreFractions(f, ws) /\ AreFractions(g, ws)
  <2> SUFFICES ASSUME NEW w \in ws
               PROVE  IsFraction(f[w]) /\ IsFraction(g[w])
    BY DEF AreFractions
  <2>1. IsFraction(w.recovered) /\ IsFraction(Minus(w.value, w.recovered))
    BY FractionOps DEF IsWaste
  <2> QED BY <2>1, ZeroAmount
<1>2. WasteRecovery(ws) = SumOver(f, ws) /\ ExtraordinaryCost(ws) = SumOver(g, ws)
  BY DEF WasteRecovery, ExtraordinaryCost
<1> HIDE DEF f, g
<1> QED BY <1>1, <1>2, SumType

\* What the centres put into the product is what the product is said to bear of them.
BorneOf(pr) ==
  [c \in DOMAIN cfg.settings |->
     Bears(cfg.settings[c], IF c \in Productive THEN pr.cip[c] ELSE cfg.settings[c].budget, PerCentre(pr)[c])]
LEMMA CentresAreBorne ==
  ASSUME IsBook(cfg), NEW pr, ArePairs(pr.cip, Productive),
         NEW per, per = PerCentre(pr), \A c \in DOMAIN per : ~per[c].refused
  PROVE  LET applied  == SumOver([c \in DOMAIN per |-> per[c].applied], DOMAIN per)
             variance == SumOver([c \in DOMAIN per |-> per[c].budgetVariance], DOMAIN per)
         IN /\ IsFraction(applied) /\ IsFraction(variance)
            /\ SumOver(BorneOf(pr), DOMAIN cfg.settings) = Plus(applied, variance)
<1> DEFINE D == DOMAIN cfg.settings
           f == [c \in D |-> per[c].applied]
           e == [c \in D |-> per[c].budgetVariance]
           h == BorneOf(pr)
<1>1. IsFiniteSet(D) /\ \A c \in D : IsSetting(cfg.settings[c])
  BY DEF IsBook, IsKeyed
<1>2. DOMAIN per = D /\ \A c \in D : per[c] = Applied(cfg.settings[c], BudgetOf(cfg, pr, c))
  BY DEF PerCentre
<1>3. ASSUME NEW c \in D
      PROVE  IsFraction(f[c]) /\ IsFraction(e[c]) /\ h[c] = Plus(f[c], e[c])
  <2> DEFINE s == cfg.settings[c]
             planned == BudgetOf(cfg, pr, c)
             r == Applied(s, planned)
  <2>1. IsSetting(s)
    BY <1>1
  <2>2. IsPair(planned)
    BY <2>1 DEF BudgetOf, ArePairs, IsSetting, IsPair
  <2>3. per[c] = r /\ ~r.refused
    BY <1>2
  <2>4. h[c] = Bears(s, planned, r)
    <3>1. h[c] = Bears(s, IF c \in Productive THEN pr.cip[c] ELSE s.budget, per[c])
      BY DEF BorneOf
    <3> QED BY <2>3, <3>1 DEF BudgetOf
  <2>5. f[c] = r.applied /\ e[c] = r.budgetVariance
    BY <2>3
  <2> HIDE DEF s, planned, h, f, e
  <2>6. Plus(r.applied, r.budgetVariance) = Bears(s, planned, r)
        /\ IsFraction(r.applied) /\ IsFraction(r.budgetVariance)
    BY <2>1, <2>2, <2>3, CentreIsBorne
  <2> QED BY <2>4, <2>5, <2>6
<1>4. AreFractions(f, D) /\ AreFractions(e, D) /\ \A c \in D : h[c] = Plus(f[c], e[c])
  BY <1>3 DEF AreFractions
<1> HIDE DEF f, e, h, D
<1>5. SumOver(h, D) = Plus(SumOver(f, D), SumOver(e, D)) /\ IsFraction(SumOver(f, D)) /\ IsFraction(SumOver(e, D))
  BY <1>1, <1>4, SumPlus, SumType
<1> QED BY <1>2, <1>5 DEF f, e, h, D

\* The sections of the book are what their schemas let through, the budgets written over
\* them included, and the result is that of this very book.
BookInv ==
  /\ IsBook(cfg) /\ IsLedger(ledger)
  /\ IsFiniteSet(wastes) /\ \A w \in wastes : IsWaste(w)
  /\ result = NoResult \/ result = Output

LEMMA BookStarts == CostSheetInit => BookInv
<1> SUFFICES ASSUME CostSheetInit
             PROVE  BookInv
  OBVIOUS
<1>1. << >> \in Seq(ToSet(<< >>)) /\ DOMAIN << >> = {} /\ IsFiniteSet({})
  BY FS_EmptySet
<1>2. /\ cfg.concepts = << >> /\ cfg.dist = << >> /\ cfg.order = << >> /\ cfg.settings = << >>
      /\ ledger.quantity = Zero /\ ledger.unitCost = Zero /\ ledger.movements = << >>
      /\ wastes = {} /\ result = NoResult
  BY DEF CostSheetInit, NoBook, NoLedger
<1>3. IsBook(cfg)
  BY <1>1, <1>2 DEF IsBook, IsKeyed
<1>4. IsLedger(ledger)
  BY <1>1, <1>2, ZeroAmount DEF IsLedger
<1> QED BY <1>1, <1>2, <1>3, <1>4 DEF BookInv

LEMMA BudgetsAreABook ==
  ASSUME NEW form, IsBook(form)
  PROVE  IsBook(WithBudgets(form, Proration(form)))
<1> DEFINE pr == Proration(form)
           b == WithBudgets(form, pr)
<1>1. CASE pr.refused
  BY <1>1 DEF WithBudgets
<1>2. CASE ~pr.refused
  <2>1. ArePairs(pr.cip, Productive)
    BY <1>2, ProrationKeeps
  <2> HIDE DEF pr
  <2>2. /\ b.concepts = form.concepts /\ b.dist = form.dist /\ b.order = form.order
        /\ b.settings = [c \in DOMAIN form.settings |->
             IF c \in Productive THEN Setting(form.settings[c], pr.cip[c]) ELSE form.settings[c]]
    BY <1>2 DEF WithBudgets
  <2> HIDE DEF b
  <2>3. DOMAIN b.settings = DOMAIN form.settings /\ \A c \in DOMAIN form.settings : IsSetting(form.settings[c])
    BY <2>2 DEF IsBook
  <2>4. ASSUME NEW c \in DOMAIN form.settings
        PROVE  IsSetting(b.settings[c])
    <3>1. IsSetting(form.settings[c])
      BY <2>3
    <3>2. CASE c \in Productive
      <4>1. IsPair(pr.cip[c])
        BY <2>1, <3>2 DEF ArePairs, IsPair
      <4>2. b.settings[c] = Setting(form.settings[c], pr.cip[c])
        BY <2>2, <3>2
      <4> QED BY <3>1, <4>1, <4>2 DEF Setting, IsSetting
    <3>3. CASE c \notin Productive
      BY <2>2, <3>1, <3>3
    <3> QED BY <3>2, <3>3
  <2>5. IsKeyed(b.settings)
    BY <2>3 DEF IsBook, IsKeyed
  <2>6. IsBook(b)
    BY <2>2, <2>3, <2>4, <2>5 DEF IsBook
  <2> QED BY <2>6 DEF b, pr
<1> QED BY <1>1, <1>2

LEMMA BookKeeps == BookInv /\ [CostSheetNext]_bookVars => BookInv'
<1> SUFFICES ASSUME BookInv, [CostSheetNext]_bookVars
             PROVE  BookInv'
  OBVIOUS
<1>1. IsBook(cfg) /\ IsLedger(ledger) /\ IsFiniteSet(wastes) /\ (\A w \in wastes : IsWaste(w))
      /\ (result = NoResult \/ result = Output)
  BY DEF BookInv
<1>2. NoResult' = NoResult
  BY DEF NoResult
<1>3. ASSUME NEW form \in OverheadForms, SaveOverheads(form)
      PROVE  BookInv'
  <2>1. cfg' = WithBudgets(form, Proration(form)) /\ result' = NoResult /\ ledger' = ledger /\ wastes' = wastes
    BY <1>3 DEF SaveOverheads
  <2>2. IsBook(cfg')
    BY <2>1, CostSheetAssumption, BudgetsAreABook
  <2> QED BY <1>1, <1>2, <2>1, <2>2 DEF BookInv
<1>4. ASSUME NEW c \in Productive, PopulateSetting(c)
      PROVE  BookInv'
  <2> DEFINE e == [bp |-> Zero, actual |-> Zero, cip |-> Zero, budget |-> Nothing]
             D == DOMAIN cfg.settings
  <2>1. /\ cfg'.concepts = cfg.concepts /\ cfg'.dist = cfg.dist /\ cfg'.order = cfg.order
        /\ cfg'.settings = [x \in D \cup {c} |-> IF x = c THEN e ELSE cfg.settings[x]]
        /\ result' = NoResult /\ ledger' = ledger /\ wastes' = wastes
    BY <1>4 DEF PopulateSetting
  <2>2. IsSetting(e)
    <3>1. e.bp = Zero /\ e.actual = Zero /\ e.cip = Zero /\ e.budget = Nothing
      OBVIOUS
    <3>2. \A side \in Sides : Nothing[side] = Zero
      BY DEF Nothing
    <3> HIDE DEF e
    <3> QED BY <3>1, <3>2, ZeroAmount DEF IsSetting, IsPair
  <2>3. IsFiniteSet(D) /\ \A x \in D : IsSetting(cfg.settings[x])
    BY <1>1 DEF IsBook, IsKeyed
  <2> HIDE DEF e, D
  <2>4. DOMAIN cfg'.settings = D \cup {c} /\ \A x \in D \cup {c} : IsSetting(cfg'.settings[x])
    BY <2>1, <2>2, <2>3
  <2>5. IsFiniteSet(D \cup {c})
    BY <2>3, FS_AddElement
  <2>6. IsBook(cfg')
    BY <1>1, <2>1, <2>4, <2>5 DEF IsBook, IsKeyed
  <2> QED BY <1>1, <1>2, <2>1, <2>6 DEF BookInv
<1>5. ASSUME NEW l \in Ledgers, SaveMaterials(l)
      PROVE  BookInv'
  BY <1>1, <1>2, <1>5, CostSheetAssumption DEF BookInv, SaveMaterials
<1>6. ASSUME NEW w \in Wastes, RecordWaste(w)
      PROVE  BookInv'
  <2>1. cfg' = cfg /\ ledger' = ledger /\ wastes' = wastes \cup {w} /\ result' = NoResult
    BY <1>6 DEF RecordWaste
  <2>2. IsFiniteSet(wastes \cup {w}) /\ IsWaste(w)
    BY <1>1, FS_AddElement, CostSheetAssumption
  <2> QED BY <1>1, <1>2, <2>1, <2>2 DEF BookInv
<1>7. cfg' = cfg /\ ledger' = ledger /\ wastes' = wastes => Output' = Output
  BY DEF Output, OutputWith, OutputOf, PerCentre, NoResult
<1>8. ASSUME CalculateBook
      PROVE  BookInv'
  BY <1>1, <1>7, <1>8 DEF BookInv, CalculateBook
<1>9. ASSUME UNCHANGED bookVars
      PROVE  BookInv'
  BY <1>1, <1>2, <1>7, <1>9 DEF BookInv, bookVars
<1> QED BY <1>3, <1>4, <1>5, <1>6, <1>8, <1>9 DEF CostSheetNext

\* The output of a book of the schemas.
LEMMA BookIsAccountedFor == BookInv => CostIsAccountedFor
<1> SUFFICES ASSUME BookInv, result.done
             PROVE  CostIsAccountedFor
  BY DEF CostIsAccountedFor, OverheadReachesProducts, EverythingIsBorne
<1> DEFINE pr == Proration(cfg)
           stock == LedgerOf(ledger)
           per == PerCentre(pr)
           had == Plus(Times(ledger.unitCost, ledger.quantity), Purchases(ledger))
           st == Statement(Minus(had, stock.value), per, wastes)
<1>1. IsBook(cfg) /\ IsLedger(ledger) /\ IsFiniteSet(wastes) /\ (\A w \in wastes : IsWaste(w))
  BY DEF BookInv
<1>2. ~NoResult.done
  BY DEF NoResult
<1>3. result = Output /\ result # NoResult
  BY <1>2 DEF BookInv
<1>4. result = OutputOf(pr, stock, per)
  BY <1>3 DEF Output, OutputWith
<1> HIDE DEF pr, stock, per
<1>5. ~pr.refused /\ ~stock.refused /\ \A c \in DOMAIN per : ~per[c].refused
  BY <1>3, <1>4 DEF OutputOf
<1>6. result = [done |-> TRUE, cip |-> pr.cip, perCentre |-> per,
                consumed |-> stock.consumed, stock |-> stock.value, statement |-> st]
  BY <1>4, <1>5 DEF OutputOf
<1> HIDE DEF st
<1>7. /\ result.cip = pr.cip /\ result.perCentre = per /\ result.consumed = stock.consumed
      /\ result.stock = stock.value /\ result.statement = st
  BY <1>6
<1>8. /\ ArePairs(pr.cip, Productive)
      /\ \A side \in Sides : SideOf(pr.cip, Productive, side) = Spent(cfg, side)
  BY <1>1, <1>5, ProrationKeeps DEF pr
<1>9. OverheadReachesProducts
  BY <1>7, <1>8 DEF OverheadReachesProducts, SideOf, Spent
<1>10. /\ IsFraction(stock.value) /\ IsFraction(stock.consumed)
       /\ stock.consumed = Minus(had, stock.value) /\ IsFraction(had)
  BY <1>1, <1>5, LedgerIsBooked DEF stock
<1> DEFINE applied  == SumOver([c \in DOMAIN per |-> per[c].applied], DOMAIN per)
           variance == SumOver([c \in DOMAIN per |-> per[c].budgetVariance], DOMAIN per)
           back == WasteRecovery(wastes)
           loss == ExtraordinaryCost(wastes)
           normal   == Plus(Minus(had, stock.value), Plus(Labour, applied))
           real     == Plus(normal, Plus(Apart, variance))
           net      == Minus(Minus(real, back), loss)
           finished == Minus(Plus(net, Stocks.wip0), Stocks.wip1)
           sold     == Minus(Plus(finished, Stocks.goods0), Stocks.goods1)
           borne    == SumOver(BorneOf(pr), DOMAIN cfg.settings)
<1>11. IsFraction(applied) /\ IsFraction(variance) /\ borne = Plus(applied, variance)
  BY <1>1, <1>5, <1>8, CentresAreBorne DEF per
<1>12. IsFraction(back) /\ IsFraction(loss)
  BY <1>1, WasteFacts
<1>13. st.sold = sold
  BY DEF st, Statement
<1>14. Plus(sold, Plus(Plus(stock.value, Plus(Stocks.wip1, Stocks.goods1)), Plus(back, loss)))
         = Plus(Plus(had, Plus(Plus(Labour, Apart), Plus(Stocks.wip0, Stocks.goods0))), Plus(applied, variance))
  <2> HIDE DEF had, applied, variance, back, loss
  <2>1. Eight(had, stock.value, Labour, applied, Apart, variance, back, loss)
    BY <1>10, <1>11, <1>12, CostSheetAssumption DEF Eight
  <2>2. Twelve(had, stock.value, Labour, applied, Apart, variance, back, loss,
               Stocks.wip0, Stocks.wip1, Stocks.goods0, Stocks.goods1)
    BY <2>1, TwelveBase, CostSheetAssumption
  <2> QED BY <2>2, StatementBalances
<1>15. SumOver([c \in DOMAIN cfg.settings |->
                  Bears(cfg.settings[c], IF c \in Productive THEN result.cip[c] ELSE cfg.settings[c].budget,
                        result.perCentre[c])], DOMAIN cfg.settings) = borne
  BY <1>7 DEF BorneOf, per
<1> HIDE DEF borne, sold, applied, variance, back, loss, had
<1>16. EverythingIsBorne
  BY <1>7, <1>10, <1>11, <1>13, <1>14, <1>15 DEF EverythingIsBorne, had, back, loss
<1> QED BY <1>9, <1>16 DEF CostIsAccountedFor

\* The cost of a structure is accounted for from the accounts to the statement: whatever
\* overheads, materials and wastes are saved and in whatever order, a run that does not throw
\* leaves the accounts, side by side, in the centres that make the product (runCalculation,
\* resolveProductiveCip), and what was spent in what was sold, is kept or was lost.
THEOREM CostIsKept == CostSheetSpec => []CostIsAccountedFor
<1>1. BookInv /\ [CostSheetNext]_bookVars => BookInv'
  BY BookKeeps
<1>2. CostSheetInit => BookInv
  BY BookStarts
<1>3. BookInv => CostIsAccountedFor
  BY BookIsAccountedFor
<1> QED BY <1>1, <1>2, <1>3, PTL DEF CostSheetSpec
=============================================================================
