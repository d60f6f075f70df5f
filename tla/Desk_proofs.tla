--------------------------- MODULE Desk_proofs ---------------------------
(***************************************************************************)
(* Proofs about what people decide around the cost sheet, for any number   *)
(* of requests, documents and bills.  Margin: a level that nobody crossed  *)
(* answers with one row, and no sequence of edits leaves a concept that    *)
(* varies by anything but the volume; the break-even point agrees with the *)
(* result of the month, and the zone holds every point that may come.      *)
(* Classifier: no doubt is silent, and what a person corrected is asked    *)
(* again.  Ledger: the line of a bill follows the condition of its         *)
(* company, and a document that contradicts it is heard.  Anomalies: no    *)
(* finding depends on how much a month cost.  Comparison: what varied      *)
(* between two months is explained to the end, but for the cents.          *)
(***************************************************************************)
EXTENDS Margin, Comparison, Classifier, Ledger, Fractions_proofs, SequenceTheorems

-----------------------------------------------------------------------------
(* Sequences of whatever elements.                                           *)

Sequence(s) == \E S : s \in Seq(S)

\* What Append does to a sequence, whatever its elements are.
LEMMA AppendFacts ==
  ASSUME NEW s, NEW e, Sequence(s)
  PROVE  /\ Sequence(Append(s, e))
         /\ DOMAIN s = 1 .. Len(s) /\ Len(s) \in Nat
         /\ DOMAIN Append(s, e) = 1 .. Len(s) + 1
         /\ \A n \in DOMAIN s : Append(s, e)[n] = s[n]
         /\ Append(s, e)[Len(s) + 1] = e
<1>1. PICK S : s \in Seq(S)
  BY DEF Sequence
<1>2. s \in Seq(S \union {e}) /\ e \in S \union {e}
  BY <1>1
<1>3. Append(s, e) \in Seq(S \union {e})
  BY <1>2, AppendProperties
<1> QED BY <1>2, <1>3, AppendProperties DEF Sequence

\* A sequence with one element replaced is a sequence of the same length.
LEMMA ReplaceFacts ==
  ASSUME NEW s, NEW n \in DOMAIN s, NEW e, Sequence(s)
  PROVE  /\ Sequence([s EXCEPT ![n] = e])
         /\ DOMAIN [s EXCEPT ![n] = e] = DOMAIN s
<1>1. PICK S : s \in Seq(S)
  BY DEF Sequence
<1>2. s \in Seq(S \union {e}) /\ e \in S \union {e} /\ n \in 1 .. Len(s)
  BY <1>1
<1> QED BY <1>2, ExceptSeq DEF Sequence

-----------------------------------------------------------------------------
(* Margin.                                                                   *)

\* The rows of a sequence of parameters.
IsParam(p) ==
  /\ p = [item |-> p.item, scope |-> p.scope, kind |-> p.kind, live |-> p.live,
          crossed |-> p.crossed]
  /\ p.live \in BOOLEAN /\ p.crossed \in BOOLEAN

IsConcept(c) ==
  /\ c = [key |-> c.key, element |-> c.element, scope |-> c.scope, kind |-> c.kind,
          cause |-> c.cause, stamp |-> c.stamp, split |-> c.split, live |-> c.live,
          crossed |-> c.crossed]
  /\ c.crossed \in BOOLEAN

IsRequest(q) ==
  /\ q = [at |-> q.at, id |-> q.id, form |-> q.form, crossed |-> q.crossed]
  /\ q.crossed \in BOOLEAN

OfLevel(p, f) == p.item = f.item /\ p.scope = f.scope

\* What a request that writes a parameter holds: the row it read is still of its level, and
\* without one no row answers for that level unless somebody crossed it.
ParamHand(r) ==
  LET q == mreq[r]
  IN /\ q.at \in {"setting", "unsetting"} /\ q.id # 0
          => q.id \in DOMAIN params /\ OfLevel(params[q.id], q.form)
     /\ q.at = "unsetting" => q.id # 0
     /\ q.at = "setting" /\ q.id = 0 /\ ~q.crossed =>
          \A n \in DOMAIN params :
             OfLevel(params[n], q.form) => ~params[n].live \/ params[n].crossed

\* What a request that writes a concept holds: a new one is allowed, and what an edit names
\* goes with what it read, unless somebody crossed it.
ConceptHand(r) ==
  LET q == mreq[r]
  IN /\ q.at = "creating" => ~DefiesCause(q.form.kind, q.form.cause)
     /\ q.at \in {"editing", "removing"} => q.id \in DOMAIN concepts
     /\ q.at = "editing" /\ ~q.crossed /\ ~concepts[q.id].crossed =>
          ~DefiesCause(Chosen(q.form.kind, concepts[q.id].kind),
                       Chosen(q.form.cause, concepts[q.id].cause))

MarginInv ==
  /\ Sequence(params) /\ \A n \in DOMAIN params : IsParam(params[n])
  /\ Sequence(concepts) /\ \A n \in DOMAIN concepts : IsConcept(concepts[n])
  /\ mreq = [r \in Costers |-> mreq[r]] /\ \A r \in Costers : IsRequest(mreq[r])
  /\ \A r \in Costers : ParamHand(r) /\ ConceptHand(r)
  /\ LevelAnswersOnce /\ VariableByVolume

\* Half the steps write nothing: one request takes hold of what it read.
LEMMA ReadingStep ==
  ASSUME MarginInv, UNCHANGED <<params, concepts>>,
         NEW r \in Costers, NEW q, IsRequest(q), mreq' = [mreq EXCEPT ![r] = q],
         q.at \in {"setting", "unsetting"} /\ q.id # 0 =>
            q.id \in DOMAIN params /\ OfLevel(params[q.id], q.form),
         q.at = "unsetting" => q.id # 0,
         q.at = "setting" /\ q.id = 0 /\ ~q.crossed =>
            \A n \in DOMAIN params : OfLevel(params[n], q.form) =>
               ~params[n].live \/ params[n].crossed,
         q.at = "creating" => ~DefiesCause(q.form.kind, q.form.cause),
         q.at \in {"editing", "removing"} => q.id \in DOMAIN concepts,
         q.at = "editing" => ~DefiesCause(Chosen(q.form.kind, concepts[q.id].kind),
                                          Chosen(q.form.cause, concepts[q.id].cause))
  PROVE  MarginInv'
<1>1. mreq'[r] = q /\ \A o \in Costers \ {r} : mreq'[o] = mreq[o]
  BY DEF MarginInv
<1>2. mreq' = [o \in Costers |-> mreq'[o]] /\ \A o \in Costers : IsRequest(mreq'[o])
  BY <1>1 DEF MarginInv
<1>3. \A o \in Costers : ParamHand(o)'
  BY <1>1 DEF MarginInv, ParamHand
<1>4. \A o \in Costers : ConceptHand(o)'
  BY <1>1 DEF MarginInv, ConceptHand
<1>5. LevelAnswersOnce' /\ VariableByVolume'
  BY DEF MarginInv, LevelAnswersOnce, VariableByVolume
<1> QED BY <1>2, <1>3, <1>4, <1>5 DEF MarginInv, IsRequest

LEMMA RestingFacts ==
  IsRequest(Resting) /\ Resting.at = "idle"
BY DEF IsRequest, Resting

LEMMA MarginStart == MarginInit => MarginInv
<1> SUFFICES ASSUME MarginInit PROVE MarginInv
  OBVIOUS
<1>1. PICK seed \in Seeds : params = seed
  BY DEF MarginInit
<1>2. /\ params \in Seq(ParamRow)
      /\ \A m, n \in DOMAIN params :
           m # n => params[m].item # params[n].item \/ params[m].scope # params[n].scope
  BY <1>1, MarginAssumption
<1>3. Sequence(params) /\ \A n \in DOMAIN params : IsParam(params[n])
  <2>1. \A n \in DOMAIN params : params[n] \in ParamRow
    BY <1>2
  <2>2. Sequence(params)
    BY <1>2 DEF Sequence
  <2> QED BY <2>1, <2>2 DEF IsParam, ParamRow
<1>4. Sequence(concepts) /\ DOMAIN concepts = {}
  BY DEF MarginInit, Sequence
<1>5. mreq = [r \in Costers |-> mreq[r]] /\ \A r \in Costers : mreq[r] = Resting
  BY DEF MarginInit
<1>6. \A r \in Costers : ParamHand(r) /\ ConceptHand(r)
  BY <1>5, RestingFacts DEF ParamHand, ConceptHand
<1>7. LevelAnswersOnce /\ VariableByVolume
  BY <1>2, <1>4 DEF LevelAnswersOnce, VariableByVolume
<1> QED BY <1>3, <1>4, <1>5, <1>6, <1>7, RestingFacts DEF MarginInv

\* The end of a request: the others that it touches are crossed.
Ended(r, touched) ==
  /\ mreq' = [o \in Costers |-> mreq'[o]] /\ \A o \in Costers : IsRequest(mreq'[o])
  /\ mreq'[r] = Resting
  /\ \A o \in Costers \ {r} :
       /\ mreq'[o].at = mreq[o].at /\ mreq'[o].id = mreq[o].id
       /\ mreq'[o].form = mreq[o].form
       /\ mreq'[o].crossed <=> mreq[o].crossed \/ touched[o]

LEMMA EndingFacts ==
  ASSUME MarginInv, NEW r \in Costers, NEW touched \in [Costers -> BOOLEAN],
         mreq' = [o \in Costers |->
           IF o = r THEN Resting
           ELSE [mreq[o] EXCEPT !.crossed = mreq[o].crossed \/ touched[o]]]
  PROVE  Ended(r, touched)
<1>1. \A o \in Costers \ {r} :
        mreq'[o] = [mreq[o] EXCEPT !.crossed = mreq[o].crossed \/ touched[o]]
  OBVIOUS
<1>2. ASSUME NEW o \in Costers \ {r}
      PROVE  /\ IsRequest(mreq'[o])
             /\ mreq'[o].at = mreq[o].at /\ mreq'[o].id = mreq[o].id
             /\ mreq'[o].form = mreq[o].form
             /\ mreq'[o].crossed <=> mreq[o].crossed \/ touched[o]
  <2>1. IsRequest(mreq[o]) /\ touched[o] \in BOOLEAN
    BY DEF MarginInv
  <2>2. PICK c \in BOOLEAN : c = (mreq[o].crossed \/ touched[o])
    BY <2>1 DEF IsRequest
  <2>3. mreq'[o] = [mreq[o] EXCEPT !.crossed = c]
    BY <1>1, <2>2
  <2> QED BY <2>1, <2>2, <2>3 DEF IsRequest
<1>3. mreq'[r] = Resting
  OBVIOUS
<1> QED BY <1>2, <1>3, RestingFacts DEF Ended

\* The three ends of the code: by the level of a parameter, by a concept, by its key.
LEMMA ParamEnds ==
  ASSUME MarginInv, NEW r \in Costers, NEW f, Ends(r, LAMBDA o : SameParam(o, f))
  PROVE  Ended(r, [o \in Costers |-> SameParam(mreq[o], f)])
<1> DEFINE touched == [o \in Costers |-> SameParam(mreq[o], f)]
<1>1. touched \in [Costers -> BOOLEAN]
  BY DEF SameParam
<1>2. \A o \in Costers : touched[o] <=> mreq[o].at # "idle" /\ SameParam(mreq[o], f)
  BY DEF SameParam
<1>3. mreq' = [o \in Costers |->
        IF o = r THEN Resting
        ELSE [mreq[o] EXCEPT !.crossed = mreq[o].crossed \/ touched[o]]]
  BY <1>1, <1>2 DEF Ends
<1> QED BY <1>1, <1>3, EndingFacts

LEMMA ConceptEnds ==
  ASSUME MarginInv, NEW r \in Costers, NEW n, Ends(r, LAMBDA o : SameConcept(o, n))
  PROVE  Ended(r, [o \in Costers |-> SameConcept(mreq[o], n)])
<1> DEFINE touched == [o \in Costers |-> SameConcept(mreq[o], n)]
<1>1. touched \in [Costers -> BOOLEAN]
  BY DEF SameConcept
<1>2. \A o \in Costers : touched[o] <=> mreq[o].at # "idle" /\ SameConcept(mreq[o], n)
  BY DEF SameConcept
<1>3. mreq' = [o \in Costers |->
        IF o = r THEN Resting
        ELSE [mreq[o] EXCEPT !.crossed = mreq[o].crossed \/ touched[o]]]
  BY <1>1, <1>2 DEF Ends
<1> QED BY <1>1, <1>3, EndingFacts

LEMMA KeyEnds ==
  ASSUME MarginInv, NEW r \in Costers, NEW f, Ends(r, LAMBDA o : SameKey(o, f))
  PROVE  Ended(r, [o \in Costers |-> SameKey(mreq[o], f)])
<1> DEFINE touched == [o \in Costers |-> SameKey(mreq[o], f)]
<1>1. touched \in [Costers -> BOOLEAN]
  BY DEF SameKey
<1>2. \A o \in Costers : touched[o] <=> mreq[o].at # "idle" /\ SameKey(mreq[o], f)
  BY DEF SameKey
<1>3. mreq' = [o \in Costers |->
        IF o = r THEN Resting
        ELSE [mreq[o] EXCEPT !.crossed = mreq[o].crossed \/ touched[o]]]
  BY <1>1, <1>2 DEF Ends
<1> QED BY <1>1, <1>3, EndingFacts

\* A step that writes parameters of the level of its form: the rows keep their level, none of
\* them begins to answer again, and what is new is of that level.
LEMMA ParamWrite ==
  ASSUME MarginInv, UNCHANGED concepts, NEW r \in Costers, NEW f,
         Ended(r, [o \in Costers |-> SameParam(mreq[o], f)]),
         Sequence(params'), DOMAIN params \subseteq DOMAIN params',
         \A n \in DOMAIN params' : IsParam(params'[n]),
         \A n \in DOMAIN params :
           /\ params'[n].item = params[n].item /\ params'[n].scope = params[n].scope
           /\ params'[n].live => params[n].live
           /\ params[n].crossed => params'[n].crossed,
         \A n \in DOMAIN params' \ DOMAIN params :
           params'[n].item = f.item /\ params'[n].scope = f.scope,
         LevelAnswersOnce'
  PROVE  MarginInv'
<1>1. /\ mreq' = [o \in Costers |-> mreq'[o]] /\ \A o \in Costers : IsRequest(mreq'[o])
      /\ mreq'[r] = Resting
      /\ \A o \in Costers \ {r} :
           /\ mreq'[o].at = mreq[o].at /\ mreq'[o].id = mreq[o].id
           /\ mreq'[o].form = mreq[o].form
           /\ mreq'[o].crossed <=> mreq[o].crossed \/ SameParam(mreq[o], f)
  BY DEF Ended
<1>2. \A o \in Costers : ParamHand(o)'
  <2> SUFFICES ASSUME NEW o \in Costers, o # r
               PROVE  ParamHand(o)'
    BY <1>1, RestingFacts DEF ParamHand
  <2>1. /\ mreq'[o].at = mreq[o].at /\ mreq'[o].id = mreq[o].id
        /\ mreq'[o].form = mreq[o].form
        /\ mreq'[o].crossed <=> mreq[o].crossed \/ SameParam(mreq[o], f)
    BY <1>1
  <2>2. mreq[o].at \in {"setting", "unsetting"} /\ mreq[o].id # 0
           => mreq[o].id \in DOMAIN params' /\ OfLevel(params'[mreq[o].id], mreq[o].form)
    BY <2>1 DEF MarginInv, ParamHand, OfLevel
  <2>3. mreq[o].at = "unsetting" => mreq[o].id # 0
    BY DEF MarginInv, ParamHand
  <2>4. ASSUME mreq[o].at = "setting", mreq[o].id = 0, ~mreq'[o].crossed,
               NEW n \in DOMAIN params', OfLevel(params'[n], mreq[o].form)
        PROVE  ~params'[n].live \/ params'[n].crossed
    <3>1. ~mreq[o].crossed /\ ~SameParam(mreq[o], f)
      BY <2>1, <2>4
    <3>2. mreq[o].form.item # f.item \/ mreq[o].form.scope # f.scope
      BY <3>1, <2>4 DEF SameParam
    <3>3. n \in DOMAIN params
      BY <3>2, <2>4, <2>1 DEF OfLevel
    <3>4. OfLevel(params[n], mreq[o].form)
      BY <3>3, <2>4, <2>1 DEF OfLevel
    <3>5. ~params[n].live \/ params[n].crossed
      BY <3>1, <3>3, <3>4, <2>4 DEF MarginInv, ParamHand
    <3> QED BY <3>3, <3>5
  <2> QED BY <2>1, <2>2, <2>3, <2>4 DEF ParamHand
<1>3. \A o \in Costers : ConceptHand(o)'
  BY <1>1, RestingFacts DEF MarginInv, ConceptHand
<1>4. VariableByVolume'
  BY DEF MarginInv, VariableByVolume
<1> QED BY <1>1, <1>2, <1>3, <1>4 DEF MarginInv

LEMMA SetStep ==
  ASSUME MarginInv, NEW r \in Costers, WriteSet(r)
  PROVE  MarginInv'
<1> DEFINE f == mreq[r].form
           row == [item |-> f.item, scope |-> f.scope, kind |-> f.kind, live |-> TRUE,
                   crossed |-> mreq[r].crossed]
<1>1. IsParam(row) /\ row.item = f.item /\ row.scope = f.scope /\ row.crossed = mreq[r].crossed
  BY DEF MarginInv, IsRequest, IsParam
<1>2. Sequence(params) /\ \A n \in DOMAIN params : IsParam(params[n])
  BY DEF MarginInv
<1>3. CASE /\ mreq[r].id # 0
           /\ params' = [params EXCEPT ![mreq[r].id] =
                [row EXCEPT !.live = params[mreq[r].id].live,
                            !.crossed = row.crossed \/ params[mreq[r].id].crossed]]
           /\ Ended(r, [o \in Costers |-> SameParam(mreq[o], f)])
  <2>1. mreq[r].id \in DOMAIN params /\ OfLevel(params[mreq[r].id], f)
    BY <1>3 DEF MarginInv, ParamHand, WriteSet
  <2>2. PICK p : p = [row EXCEPT !.live = params[mreq[r].id].live,
                                 !.crossed = row.crossed \/ params[mreq[r].id].crossed]
    OBVIOUS
  <2>3. IsParam(params[mreq[r].id])
    BY <1>2, <2>1
  <2>4. /\ IsParam(p) /\ p.item = f.item /\ p.scope = f.scope
        /\ p.live = params[mreq[r].id].live
        /\ params[mreq[r].id].crossed => p.crossed
    BY <1>1, <2>2, <2>3 DEF IsParam
  <2>5. params' = [params EXCEPT ![mreq[r].id] = p]
    BY <1>3, <2>2
  <2>6. Sequence(params') /\ DOMAIN params' = DOMAIN params
    BY <1>2, <2>1, <2>5, ReplaceFacts
  <2>7. /\ params'[mreq[r].id] = p
        /\ \A n \in DOMAIN params \ {mreq[r].id} : params'[n] = params[n]
    BY <2>1, <2>5
  <2>8. \A n \in DOMAIN params' : IsParam(params'[n])
    BY <1>2, <2>4, <2>6, <2>7
  <2>9. \A n \in DOMAIN params :
           /\ params'[n].item = params[n].item /\ params'[n].scope = params[n].scope
           /\ params'[n].live => params[n].live
           /\ params[n].crossed => params'[n].crossed
    BY <2>1, <2>4, <2>7 DEF OfLevel
  <2>10. LevelAnswersOnce'
    BY <2>6, <2>9 DEF MarginInv, LevelAnswersOnce
  <2>11. UNCHANGED concepts
    BY DEF WriteSet
  <2> HIDE DEF row
  <2> QED BY <1>3, <2>6, <2>8, <2>9, <2>10, <2>11, ParamWrite
<1>4. CASE /\ mreq[r].id = 0 /\ ~ParamTaken(mreq[r].form)
           /\ params' = Append(params, row)
           /\ Ended(r, [o \in Costers |-> SameParam(mreq[o], f)])
  <2> HIDE DEF row
  <2>1. /\ Sequence(params') /\ DOMAIN params \subseteq DOMAIN params'
        /\ DOMAIN params' = DOMAIN params \union {Len(params) + 1}
        /\ \A n \in DOMAIN params : params'[n] = params[n]
        /\ params'[Len(params) + 1] = row
        /\ Len(params) + 1 \notin DOMAIN params
    <3>1. /\ Sequence(params')
          /\ DOMAIN params = 1 .. Len(params) /\ Len(params) \in Nat
          /\ DOMAIN params' = 1 .. Len(params) + 1
          /\ \A n \in DOMAIN params : params'[n] = params[n]
          /\ params'[Len(params) + 1] = row
      BY <1>2, <1>4, AppendFacts
    <3> QED BY <3>1
  <2>2. \A n \in DOMAIN params' : IsParam(params'[n])
    BY <1>1, <1>2, <2>1
  <2>3. mreq[r].at = "setting"
    BY DEF WriteSet
  <2>4. LevelAnswersOnce'
    <3> SUFFICES ASSUME NEW m \in DOMAIN params', NEW n \in DOMAIN params', m # n,
                        params'[m].live, params'[n].live,
                        ~params'[m].crossed, ~params'[n].crossed,
                        params'[m].item = params'[n].item, params'[m].scope = params'[n].scope
                 PROVE  FALSE
      BY DEF LevelAnswersOnce
    <3>1. CASE m \in DOMAIN params /\ n \in DOMAIN params
      BY <2>1, <3>1 DEF MarginInv, LevelAnswersOnce
    <3>2. ASSUME NEW k \in DOMAIN params, params[k].live, ~params[k].crossed, ~row.crossed
          PROVE  ~OfLevel(params[k], f)
      BY <1>1, <1>4, <2>3, <3>2 DEF MarginInv, ParamHand
    <3>3. CASE m = Len(params) + 1
      BY <1>1, <2>1, <3>2, <3>3 DEF OfLevel
    <3>4. CASE n = Len(params) + 1
      BY <1>1, <2>1, <3>2, <3>4 DEF OfLevel
    <3> QED BY <2>1, <3>1, <3>3, <3>4
  <2>5. UNCHANGED concepts
    BY DEF WriteSet
  <2>6. \A n \in DOMAIN params' \ DOMAIN params :
           params'[n].item = f.item /\ params'[n].scope = f.scope
    BY <1>1, <2>1
  <2> QED BY <1>4, <2>1, <2>2, <2>4, <2>5, <2>6, ParamWrite
<1>5. CASE Answers(r) /\ UNCHANGED params
  <2>1. UNCHANGED concepts
    BY DEF WriteSet
  <2> QED BY <1>5, <2>1, ReadingStep, RestingFacts DEF Answers
<1>6. Ends(r, LAMBDA o : SameParam(o, mreq[r].form))
        => Ended(r, [o \in Costers |-> SameParam(mreq[o], f)])
  BY ParamEnds
<1> QED BY <1>3, <1>4, <1>5, <1>6 DEF WriteSet

\* What changing whether a row is live leaves of it.
LEMMA ParamRetired ==
  ASSUME NEW x, IsParam(x), NEW no
  PROVE  [x EXCEPT !.live = no]
           = [item |-> x.item, scope |-> x.scope, kind |-> x.kind, live |-> no,
              crossed |-> x.crossed]
BY DEF IsParam

LEMMA UnsetStep ==
  ASSUME MarginInv, NEW r \in Costers, WriteUnset(r)
  PROVE  MarginInv'
<1>1. Sequence(params) /\ \A n \in DOMAIN params : IsParam(params[n])
  BY DEF MarginInv
<1>2. mreq[r].id \in DOMAIN params
  BY DEF MarginInv, ParamHand, WriteUnset
<1> DEFINE x == params[mreq[r].id]
<1>3. PICK p : p = [item |-> x.item, scope |-> x.scope, kind |-> x.kind, live |-> FALSE,
                    crossed |-> x.crossed]
  OBVIOUS
<1>4. /\ IsParam(p) /\ ~p.live
      /\ p.item = params[mreq[r].id].item /\ p.scope = params[mreq[r].id].scope
      /\ p.crossed = params[mreq[r].id].crossed
  BY <1>1, <1>2, <1>3 DEF IsParam
<1>5. params' = [params EXCEPT ![mreq[r].id] = p]
  <2>1. params' = [params EXCEPT ![mreq[r].id] = [x EXCEPT !.live = FALSE]]
    BY DEF WriteUnset
  <2>2. \A no : [x EXCEPT !.live = no]
                 = [item |-> x.item, scope |-> x.scope, kind |-> x.kind, live |-> no,
                    crossed |-> x.crossed]
    BY <1>1, <1>2, ParamRetired
  <2> QED BY <1>3, <2>1, <2>2
<1>6. Sequence(params') /\ DOMAIN params' = DOMAIN params
  BY <1>1, <1>2, <1>5, ReplaceFacts
<1>7. /\ params'[mreq[r].id] = p
      /\ \A n \in DOMAIN params \ {mreq[r].id} : params'[n] = params[n]
  BY <1>2, <1>5
<1>8. \A n \in DOMAIN params' : IsParam(params'[n])
  BY <1>1, <1>4, <1>6, <1>7
<1>9. \A n \in DOMAIN params :
         /\ params'[n].item = params[n].item /\ params'[n].scope = params[n].scope
         /\ params'[n].live => params[n].live
         /\ params[n].crossed => params'[n].crossed
  BY <1>4, <1>7
<1>10. LevelAnswersOnce'
  BY <1>6, <1>9, <1>8, <1>1 DEF MarginInv, LevelAnswersOnce, IsParam
<1>11. Ended(r, [o \in Costers |-> SameParam(mreq[o], mreq[r].form)])
  BY ParamEnds DEF WriteUnset
<1> QED BY <1>6, <1>8, <1>9, <1>10, <1>11, ParamWrite DEF WriteUnset

\* A step that writes concepts: the classification of one changes only under the requests
\* that it crosses.
LEMMA ConceptWrite ==
  ASSUME MarginInv, UNCHANGED params, NEW r \in Costers, NEW touched, Ended(r, touched),
         Sequence(concepts'), DOMAIN concepts \subseteq DOMAIN concepts',
         \A n \in DOMAIN concepts' : IsConcept(concepts'[n]),
         \A n \in DOMAIN concepts : concepts[n].crossed => concepts'[n].crossed,
         \A n \in DOMAIN concepts, o \in Costers :
           mreq[o].at = "editing" /\ mreq[o].id = n /\ ~touched[o] =>
             concepts'[n].kind = concepts[n].kind /\ concepts'[n].cause = concepts[n].cause,
         VariableByVolume'
  PROVE  MarginInv'
<1>1. /\ mreq' = [o \in Costers |-> mreq'[o]] /\ \A o \in Costers : IsRequest(mreq'[o])
      /\ mreq'[r] = Resting
      /\ \A o \in Costers \ {r} :
           /\ mreq'[o].at = mreq[o].at /\ mreq'[o].id = mreq[o].id
           /\ mreq'[o].form = mreq[o].form
           /\ mreq'[o].crossed <=> mreq[o].crossed \/ touched[o]
  BY DEF Ended
<1>2. \A o \in Costers : ConceptHand(o)'
  <2> SUFFICES ASSUME NEW o \in Costers, o # r
               PROVE  ConceptHand(o)'
    BY <1>1, RestingFacts DEF ConceptHand
  <2>1. /\ mreq'[o].at = mreq[o].at /\ mreq'[o].id = mreq[o].id
        /\ mreq'[o].form = mreq[o].form
        /\ mreq'[o].crossed <=> mreq[o].crossed \/ touched[o]
    BY <1>1
  <2>2. mreq[o].at = "creating" => ~DefiesCause(mreq[o].form.kind, mreq[o].form.cause)
    BY DEF MarginInv, ConceptHand
  <2>3. mreq[o].at \in {"editing", "removing"} => mreq[o].id \in DOMAIN concepts
    BY DEF MarginInv, ConceptHand
  <2>4. ASSUME mreq[o].at = "editing", ~mreq'[o].crossed, ~concepts'[mreq[o].id].crossed
        PROVE  ~DefiesCause(Chosen(mreq[o].form.kind, concepts'[mreq[o].id].kind),
                            Chosen(mreq[o].form.cause, concepts'[mreq[o].id].cause))
    <3>1. ~mreq[o].crossed /\ ~touched[o]
      BY <2>1, <2>4
    <3>2. mreq[o].id \in DOMAIN concepts
      BY <2>3, <2>4
    <3>3. /\ concepts'[mreq[o].id].kind = concepts[mreq[o].id].kind
          /\ concepts'[mreq[o].id].cause = concepts[mreq[o].id].cause
          /\ ~concepts[mreq[o].id].crossed
      BY <2>4, <3>1, <3>2
    <3>4. ~DefiesCause(Chosen(mreq[o].form.kind, concepts[mreq[o].id].kind),
                       Chosen(mreq[o].form.cause, concepts[mreq[o].id].cause))
      BY <2>4, <3>1, <3>3 DEF MarginInv, ConceptHand
    <3> QED BY <3>3, <3>4
  <2> QED BY <2>1, <2>2, <2>3, <2>4 DEF ConceptHand
<1>3. \A o \in Costers : ParamHand(o)'
  BY <1>1, RestingFacts DEF MarginInv, ParamHand
<1>4. LevelAnswersOnce'
  BY DEF MarginInv, LevelAnswersOnce
<1> QED BY <1>1, <1>2, <1>3, <1>4 DEF MarginInv

LEMMA CreateStep ==
  ASSUME MarginInv, NEW r \in Costers, WriteCreate(r)
  PROVE  MarginInv'
<1> DEFINE f == mreq[r].form
           c == [key |-> f.key, element |-> f.element, scope |-> f.scope, kind |-> f.kind,
                 cause |-> f.cause, stamp |-> NextStamp, split |-> NoSplit, live |-> TRUE,
                 crossed |-> mreq[r].crossed]
<1>1. Sequence(concepts) /\ \A n \in DOMAIN concepts : IsConcept(concepts[n])
  BY DEF MarginInv
<1>2. UNCHANGED params
  BY DEF WriteCreate
<1>3. CASE Answers(r) /\ UNCHANGED concepts
  BY <1>2, <1>3, ReadingStep, RestingFacts DEF Answers
<1>4. CASE concepts' = Append(concepts, c) /\ Ended(r, [o \in Costers |-> SameKey(mreq[o], f)])
  <2>1. IsConcept(c) /\ c.kind = f.kind /\ c.cause = f.cause
    BY DEF MarginInv, IsRequest, IsConcept
  <2> HIDE DEF c
  <2>2. /\ Sequence(concepts')
        /\ DOMAIN concepts = 1 .. Len(concepts) /\ Len(concepts) \in Nat
        /\ DOMAIN concepts' = 1 .. Len(concepts) + 1
        /\ \A n \in DOMAIN concepts : concepts'[n] = concepts[n]
        /\ concepts'[Len(concepts) + 1] = c
    BY <1>1, <1>4, AppendFacts
  <2>3. \A n \in DOMAIN concepts' : IsConcept(concepts'[n])
    BY <1>1, <2>1, <2>2
  <2>4. ~DefiesCause(f.kind, f.cause)
    BY DEF MarginInv, ConceptHand, WriteCreate
  <2>5. VariableByVolume'
    BY <2>1, <2>2, <2>4 DEF MarginInv, VariableByVolume
  <2>6. DOMAIN concepts \subseteq DOMAIN concepts'
    BY <2>2
  <2> QED BY <1>2, <1>4, <2>2, <2>3, <2>5, <2>6, ConceptWrite
<1>5. Ends(r, LAMBDA o : SameKey(o, f)) => Ended(r, [o \in Costers |-> SameKey(mreq[o], f)])
  BY KeyEnds
<1> QED BY <1>3, <1>4, <1>5 DEF WriteCreate

\* What a change of one field leaves of a concept.
LEMMA KindChanged ==
  ASSUME NEW x, IsConcept(x), NEW kind
  PROVE  LET c == [x EXCEPT !.kind = kind]
         IN /\ IsConcept(c) /\ c.kind = kind
            /\ c.cause = x.cause /\ c.crossed = x.crossed
BY DEF IsConcept

LEMMA CauseChanged ==
  ASSUME NEW x, IsConcept(x), NEW cause
  PROVE  LET c == [x EXCEPT !.cause = cause]
         IN /\ IsConcept(c) /\ c.cause = cause
            /\ c.kind = x.kind /\ c.crossed = x.crossed
BY DEF IsConcept

LEMMA StampChanged ==
  ASSUME NEW x, IsConcept(x), NEW stamp
  PROVE  LET c == [x EXCEPT !.stamp = stamp]
         IN /\ IsConcept(c) /\ c.stamp = stamp
            /\ c.kind = x.kind /\ c.cause = x.cause /\ c.crossed = x.crossed
BY DEF IsConcept

LEMMA CrossedChanged ==
  ASSUME NEW x, IsConcept(x), NEW over \in BOOLEAN
  PROVE  LET c == [x EXCEPT !.crossed = over]
         IN /\ IsConcept(c) /\ c.crossed = over
            /\ c.kind = x.kind /\ c.cause = x.cause
BY DEF IsConcept

LEMMA LiveChanged ==
  ASSUME NEW x, IsConcept(x), NEW live
  PROVE  LET c == [x EXCEPT !.live = live]
         IN /\ IsConcept(c) /\ c.live = live
            /\ c.kind = x.kind /\ c.cause = x.cause /\ c.crossed = x.crossed
BY DEF IsConcept

LEMMA SplitChanged ==
  ASSUME NEW x, IsConcept(x), NEW split
  PROVE  LET c == [x EXCEPT !.split = split]
         IN /\ IsConcept(c) /\ c.split = split
            /\ c.kind = x.kind /\ c.cause = x.cause /\ c.crossed = x.crossed
BY DEF IsConcept

LEMMA EditStep ==
  ASSUME MarginInv, NEW r \in Costers, WriteEdit(r)
  PROVE  MarginInv'
<1> DEFINE q == mreq[r]
           n == mreq[r].id
<1>1. Sequence(concepts) /\ \A k \in DOMAIN concepts : IsConcept(concepts[k])
  BY DEF MarginInv
<1>2. n \in DOMAIN concepts
  BY DEF MarginInv, ConceptHand, WriteEdit
<1>3. PICK x : x = concepts[n] /\ IsConcept(x)
  BY <1>1, <1>2
<1>4. PICK over \in BOOLEAN : over = (concepts[n].crossed \/ q.crossed)
  BY <1>3 DEF IsConcept
<1>5. PICK kind, cause, stamp :
        /\ kind = Chosen(q.form.kind, concepts[n].kind)
        /\ cause = Chosen(q.form.cause, concepts[n].cause)
        /\ stamp = NextStamp
  OBVIOUS
<1>6. PICK c : c = [concepts[n] EXCEPT !.kind = kind, !.cause = cause, !.stamp = stamp,
                                       !.crossed = over]
  OBVIOUS
<1>7. IsConcept(c) /\ c.kind = kind /\ c.cause = cause /\ c.crossed = over
  <2>1. PICK w : w = [x EXCEPT !.kind = kind]
    OBVIOUS
  <2>2. PICK y : y = [w EXCEPT !.cause = cause]
    OBVIOUS
  <2>3. PICK z : z = [y EXCEPT !.stamp = stamp]
    OBVIOUS
  <2>4. c = [z EXCEPT !.crossed = over]
    BY <1>3, <1>6, <2>1, <2>2, <2>3
  <2>5. IsConcept(w) /\ w.kind = kind
    BY <1>3, <2>1, KindChanged
  <2>6. IsConcept(y) /\ y.kind = kind /\ y.cause = cause
    BY <2>2, <2>5, CauseChanged
  <2>7. IsConcept(z) /\ z.kind = kind /\ z.cause = cause
    BY <2>3, <2>6, StampChanged
  <2>8. LET e == [z EXCEPT !.crossed = over]
        IN IsConcept(e) /\ e.kind = kind /\ e.cause = cause /\ e.crossed = over
    BY <2>7, CrossedChanged
  <2> QED BY <2>4, <2>8
<1>8. concepts' = [concepts EXCEPT ![n] = c]
  <2>1. concepts' = [concepts EXCEPT ![n] =
          [concepts[n] EXCEPT !.kind = Chosen(q.form.kind, concepts[n].kind),
                              !.cause = Chosen(q.form.cause, concepts[n].cause),
                              !.stamp = NextStamp,
                              !.crossed = concepts[n].crossed \/ q.crossed]]
    BY DEF WriteEdit
  <2>2. concepts' = [concepts EXCEPT ![n] =
          [concepts[n] EXCEPT !.kind = kind, !.cause = cause, !.stamp = stamp,
                              !.crossed = over]]
    BY <1>4, <1>5, <2>1
  <2> QED BY <1>6, <2>2
<1>9. Sequence(concepts') /\ DOMAIN concepts' = DOMAIN concepts
  BY <1>1, <1>2, <1>8, ReplaceFacts
<1>10. /\ concepts'[n] = c
       /\ \A k \in DOMAIN concepts \ {n} : concepts'[k] = concepts[k]
  BY <1>2, <1>8
<1>11. \A k \in DOMAIN concepts' : IsConcept(concepts'[k])
  BY <1>1, <1>7, <1>9, <1>10
<1>12. \A k \in DOMAIN concepts : concepts[k].crossed => concepts'[k].crossed
  BY <1>4, <1>7, <1>10
<1>13. c.crossed \/ ~DefiesCause(c.kind, c.cause)
  BY <1>4, <1>5, <1>7 DEF MarginInv, ConceptHand, WriteEdit
<1>14. VariableByVolume'
  BY <1>9, <1>10, <1>13 DEF MarginInv, VariableByVolume
<1>15. Ended(r, [o \in Costers |-> SameConcept(mreq[o], n)])
  BY ConceptEnds DEF WriteEdit
<1>16. \A k \in DOMAIN concepts, o \in Costers :
         mreq[o].at = "editing" /\ mreq[o].id = k /\ ~SameConcept(mreq[o], n) =>
           concepts'[k].kind = concepts[k].kind /\ concepts'[k].cause = concepts[k].cause
  BY <1>10 DEF SameConcept
<1>17. UNCHANGED params
  BY DEF WriteEdit
<1> QED BY <1>9, <1>11, <1>12, <1>14, <1>15, <1>16, <1>17, ConceptWrite

LEMMA RemoveStep ==
  ASSUME MarginInv, NEW r \in Costers, WriteRemove(r)
  PROVE  MarginInv'
<1> DEFINE n == mreq[r].id
<1>1. Sequence(concepts) /\ \A k \in DOMAIN concepts : IsConcept(concepts[k])
  BY DEF MarginInv
<1>2. n \in DOMAIN concepts
  BY DEF MarginInv, ConceptHand, WriteRemove
<1>3. PICK x : x = concepts[n] /\ IsConcept(x)
  BY <1>1, <1>2
<1>4. PICK c : c = [x EXCEPT !.live = FALSE]
  OBVIOUS
<1>5. IsConcept(c) /\ c.kind = x.kind /\ c.cause = x.cause /\ c.crossed = x.crossed
  BY <1>3, <1>4, LiveChanged
<1>6. concepts' = [concepts EXCEPT ![n] = c]
  BY <1>3, <1>4 DEF WriteRemove
<1>7. Sequence(concepts') /\ DOMAIN concepts' = DOMAIN concepts
  BY <1>1, <1>2, <1>6, ReplaceFacts
<1>8. /\ concepts'[n] = c
      /\ \A k \in DOMAIN concepts \ {n} : concepts'[k] = concepts[k]
  BY <1>2, <1>6
<1>9. \A k \in DOMAIN concepts' : IsConcept(concepts'[k])
  BY <1>1, <1>5, <1>7, <1>8
<1>10. \A k \in DOMAIN concepts :
         /\ concepts'[k].kind = concepts[k].kind /\ concepts'[k].cause = concepts[k].cause
         /\ concepts'[k].crossed = concepts[k].crossed
  BY <1>3, <1>5, <1>8
<1>11. VariableByVolume'
  BY <1>7, <1>10 DEF MarginInv, VariableByVolume
<1>12. Ended(r, [o \in Costers |-> SameConcept(mreq[o], n)])
  BY ConceptEnds DEF WriteRemove
<1>13. UNCHANGED params
  BY DEF WriteRemove
<1> QED BY <1>7, <1>9, <1>10, <1>11, <1>12, <1>13, ConceptWrite

\* A separation changes what a concept is worth, not how it is classified.
LEMMA SplitStep ==
  ASSUME MarginInv, NEW n, NEW f, SaveSplit(n, f)
  PROVE  MarginInv'
<1>1. Sequence(concepts) /\ \A k \in DOMAIN concepts : IsConcept(concepts[k])
  BY DEF MarginInv
<1>2. n \in DOMAIN concepts /\ UNCHANGED <<params, mreq>>
  BY DEF SaveSplit
<1>3. PICK x : x = concepts[n] /\ IsConcept(x)
  BY <1>1, <1>2
<1>4. PICK split : split = Separated(f)
  OBVIOUS
<1>5. PICK c : c = [x EXCEPT !.split = split]
  OBVIOUS
<1>6. IsConcept(c) /\ c.kind = x.kind /\ c.cause = x.cause /\ c.crossed = x.crossed
  BY <1>3, <1>5, SplitChanged
<1>7. concepts' = [concepts EXCEPT ![n] = c]
  BY <1>3, <1>4, <1>5 DEF SaveSplit
<1>8. Sequence(concepts') /\ DOMAIN concepts' = DOMAIN concepts
  BY <1>1, <1>2, <1>7, ReplaceFacts
<1>9. /\ concepts'[n] = c
      /\ \A k \in DOMAIN concepts \ {n} : concepts'[k] = concepts[k]
  BY <1>2, <1>7
<1>10. \A k \in DOMAIN concepts' : IsConcept(concepts'[k])
  BY <1>1, <1>6, <1>8, <1>9
<1>11. \A k \in DOMAIN concepts :
         /\ concepts'[k].kind = concepts[k].kind /\ concepts'[k].cause = concepts[k].cause
         /\ concepts'[k].crossed = concepts[k].crossed
  BY <1>3, <1>6, <1>9
<1>12. VariableByVolume'
  BY <1>8, <1>11 DEF MarginInv, VariableByVolume
<1>13. \A o \in Costers : ConceptHand(o)'
  BY <1>2, <1>8, <1>11 DEF MarginInv, ConceptHand
<1>14. LevelAnswersOnce' /\ \A o \in Costers : ParamHand(o)'
  BY <1>2 DEF MarginInv, LevelAnswersOnce, ParamHand
<1> QED BY <1>2, <1>8, <1>10, <1>12, <1>13, <1>14 DEF MarginInv

\* The steps that read, and that hold what they read.
LEMMA ReadStep ==
  ASSUME MarginInv, NEW r \in Costers,
         \/ \E i \in EditedItems, s \in Scopes, k \in Behaviours : ReadSet(r, i, s, k)
         \/ \E i \in EditedItems, s \in Scopes : ReadUnset(r, i, s)
         \/ \E f \in ConceptForms : ReadCreate(r, f)
         \/ \E n \in DOMAIN concepts : ReadRemove(r, n)
         \/ \E n \in DOMAIN concepts, f \in EditForms : ReadEdit(r, n, f.kind, f.cause)
  PROVE  MarginInv'
<1>1. ASSUME NEW i, NEW s, NEW k, ReadSet(r, i, s, k)
      PROVE  MarginInv'
  <2>1. PICK n \in FirstOf(ParamsAt(i, s)) :
          Reads(r, "setting", n, [item |-> i, scope |-> s, kind |-> k])
    BY <1>1 DEF ReadSet
  <2>2. UNCHANGED <<params, concepts>>
    BY <1>1 DEF ReadSet
  <2> DEFINE q == [at |-> "setting", id |-> n, form |-> [item |-> i, scope |-> s, kind |-> k],
                   crossed |-> FALSE]
  <2>3. mreq' = [mreq EXCEPT ![r] = q] /\ IsRequest(q)
    BY <2>1 DEF Reads, IsRequest
  <2>4. n # 0 => n \in DOMAIN params /\ OfLevel(params[n], q.form)
    BY <2>1 DEF FirstOf, ParamsAt, OfLevel
  <2>5. n = 0 => \A m \in DOMAIN params : OfLevel(params[m], q.form) => ~params[m].live
    <3>1. DOMAIN params = 1 .. Len(params) /\ Len(params) \in Nat
      BY AppendFacts DEF MarginInv
    <3>2. n = 0 => ParamsAt(i, s) = {}
      BY <2>1, <3>1 DEF FirstOf, ParamsAt
    <3> QED BY <3>2 DEF ParamsAt, OfLevel
  <2> QED BY <2>2, <2>3, <2>4, <2>5, ReadingStep
<1>2. ASSUME NEW i, NEW s, ReadUnset(r, i, s)
      PROVE  MarginInv'
  <2>1. PICK n \in ParamsAt(i, s) :
          Reads(r, "unsetting", n, [item |-> i, scope |-> s, kind |-> "none"])
    BY <1>2 DEF ReadUnset
  <2>2. UNCHANGED <<params, concepts>>
    BY <1>2 DEF ReadUnset
  <2> DEFINE q == [at |-> "unsetting", id |-> n,
                   form |-> [item |-> i, scope |-> s, kind |-> "none"], crossed |-> FALSE]
  <2>3. mreq' = [mreq EXCEPT ![r] = q] /\ IsRequest(q)
    BY <2>1 DEF Reads, IsRequest
  <2>4. n \in DOMAIN params /\ OfLevel(params[n], q.form)
    BY <2>1 DEF ParamsAt, OfLevel
  <2>5. n # 0
    BY <2>4, AppendFacts DEF MarginInv
  <2> QED BY <2>2, <2>3, <2>4, <2>5, ReadingStep
<1>3. ASSUME NEW f, ReadCreate(r, f)
      PROVE  MarginInv'
  <2> DEFINE q == [at |-> "creating", id |-> 0, form |-> f, crossed |-> FALSE]
  <2>1. mreq' = [mreq EXCEPT ![r] = q] /\ IsRequest(q) /\ UNCHANGED <<params, concepts>>
    BY <1>3 DEF ReadCreate, Reads, IsRequest
  <2>2. ~DefiesCause(f.kind, f.cause)
    BY <1>3 DEF ReadCreate
  <2> QED BY <2>1, <2>2, ReadingStep
<1>4. ASSUME NEW n \in DOMAIN concepts, ReadRemove(r, n)
      PROVE  MarginInv'
  <2> DEFINE q == [at |-> "removing", id |-> n, form |-> "none", crossed |-> FALSE]
  <2>1. mreq' = [mreq EXCEPT ![r] = q] /\ IsRequest(q) /\ UNCHANGED <<params, concepts>>
    BY <1>4 DEF ReadRemove, Reads, IsRequest
  <2> QED BY <1>4, <2>1, ReadingStep
<1>5. ASSUME NEW n \in DOMAIN concepts, NEW kind, NEW cause, ReadEdit(r, n, kind, cause)
      PROVE  MarginInv'
  <2> DEFINE q == [at |-> "editing", id |-> n, form |-> [kind |-> kind, cause |-> cause],
                   crossed |-> FALSE]
  <2>1. mreq' = [mreq EXCEPT ![r] = q] /\ IsRequest(q) /\ UNCHANGED <<params, concepts>>
    BY <1>5 DEF ReadEdit, Reads, IsRequest
  <2>2. ~DefiesCause(Chosen(q.form.kind, concepts[n].kind), Chosen(q.form.cause, concepts[n].cause))
    BY <1>5 DEF ReadEdit
  <2> QED BY <2>1, <2>2, ReadingStep
<1> QED BY <1>1, <1>2, <1>3, <1>4, <1>5

LEMMA MarginStep == MarginInv /\ [MarginNext]_marginVars => MarginInv'
<1> SUFFICES ASSUME MarginInv, [MarginNext]_marginVars PROVE MarginInv'
  OBVIOUS
<1>1. ASSUME UNCHANGED <<params, concepts, mreq>>
      PROVE  MarginInv'
  BY <1>1 DEF MarginInv, ParamHand, ConceptHand, LevelAnswersOnce, VariableByVolume
<1>2. CASE UNCHANGED marginVars
  BY <1>1, <1>2 DEF marginVars
<1>3. CASE CalculateNext
  BY <1>1, <1>3 DEF CalculateNext, Calculate
<1>4. CASE ParamNext
  BY <1>4, ReadStep, SetStep, UnsetStep DEF ParamNext
<1>5. CASE ConceptNext
  <2>1. CASE \E r \in Costers, f \in ConceptForms : ReadCreate(r, f)
    BY <2>1, ReadStep
  <2>2. ASSUME NEW r \in Costers, NEW n, ReadRemove(r, n)
        PROVE  MarginInv'
    BY <2>2, ReadStep DEF ReadRemove
  <2>3. ASSUME NEW r \in Costers, NEW n, NEW f \in EditForms, ReadEdit(r, n, f.kind, f.cause)
        PROVE  MarginInv'
    BY <2>3, ReadStep DEF ReadEdit
  <2> QED BY <1>5, <2>1, <2>2, <2>3, CreateStep, EditStep, RemoveStep, SplitStep DEF ConceptNext
<1> QED BY <1>2, <1>3, <1>4, <1>5 DEF MarginNext

\* The classification of the costs is well formed in every reachable state, and what every
\* request in flight holds is still true of the rows, unless it was crossed.
THEOREM MarginInductive == MarginSpec => []MarginInv
BY MarginStart, MarginStep, PTL DEF MarginSpec

\* A level that nobody crossed answers with one row, for any number of requests that set and
\* delete parameters at once (parametros-costeo-service.ts).
THEOREM LevelsAnswerOnce == MarginSpec => []LevelAnswersOnce
<1>1. MarginInv => LevelAnswersOnce
  BY DEF MarginInv
<1> QED BY <1>1, MarginInductive, PTL

\* R4, for any sequence of creations and edits: nothing is variable by another cause than the
\* volume, unless two edits of one concept crossed (concepto-costeo-service.ts).
THEOREM OnlyVolumeVaries == MarginSpec => []VariableByVolume
<1>1. MarginInv => VariableByVolume
  BY DEF MarginInv
<1> QED BY <1>1, MarginInductive, PTL

-----------------------------------------------------------------------------
(* Margin: the break-even point.                                             *)

\* The break-even point of fixed costs f, when the units n earn m: it is not more than n when
\* the costs are not more than what is earned, and then it rises when a cost that was taken
\* from the margin is a fixed one.
LEMMA PointRises ==
  ASSUME NEW f, NEW m, NEW n, NEW w, IsFraction(f), IsFraction(m), IsFraction(n), IsAmount(w),
         IsPositive(m), IsPositive(n), AtMost(f, m)
  PROVE  AtMost(Over(f, Over(m, n)), Over(Plus(f, w), Over(Plus(m, w), n)))
<1>0. IsFraction(w) /\ ~IsNegative(w)
  BY DEF IsAmount
<1>1. PICK a, b, c, e \in Int, d \in Nat :
        d > 0 /\ At(f, a, d) /\ At(m, b, d) /\ At(n, c, d) /\ At(w, e, d)
  BY <1>0, FourBase DEF FourOver
<1>2. d \in Int /\ d > 0
  BY <1>1
<1>3. b > 0 /\ c > 0 /\ e >= 0 /\ a <= b
  <2>1. ~(b < a) /\ b > 0 /\ c > 0 /\ ~(e < 0)
    BY <1>0, <1>1, <1>2, OrderAt DEF AtMost
  <2> QED BY <2>1
<1>4. PICK g, h \in Int : g = a + e /\ h = b + e
  OBVIOUS
<1>5. h > 0
  BY <1>3, <1>4
<1>6. At(Plus(f, w), g, d) /\ At(Plus(m, w), h, d)
  BY <1>1, <1>2, <1>4, PlusAt
<1>7. At(Over(m, n), b, c) /\ At(Over(Plus(m, w), n), h, c)
  BY <1>1, <1>2, <1>3, <1>6, OverAt
<1> DEFINE x == Over(f, Over(m, n))
           y == Over(Plus(f, w), Over(Plus(m, w), n))
<1>8. At(x, a * c, b * d) /\ At(y, g * c, h * d)
  <2>1. At(x, a * c, b * d)
    BY <1>1, <1>2, <1>3, <1>7, QuotientAt
  <2>2. At(y, g * c, h * d)
    BY <1>2, <1>3, <1>5, <1>6, <1>7, QuotientAt
  <2> QED BY <2>1, <2>2
<1> HIDE DEF x, y
<1>9. PICK p, q, r, s \in Int : p = a * c /\ q = b * d /\ r = g * c /\ s = h * d
  OBVIOUS
<1>10. At(x, p * h, q * h) /\ At(y, r * b, s * b)
  BY <1>8, <1>9, ScaleAt
<1>11. PICK t, u, v \in Int : t = q * h /\ u = p * h /\ v = r * b
  OBVIOUS
<1>12. s * b = t
  <2>1. (h * d) * b = (b * d) * h
    OBVIOUS
  <2> QED BY <2>1, <1>9, <1>11
<1>13. t > 0
  <2>1. q > 0
    BY <1>2, <1>3, <1>9, ProductPositive
  <2> QED BY <2>1, <1>5, <1>11, ProductPositive
<1>14. u <= v
  <2>1. PICK j, k \in Int : j = b - a /\ k = e * c
    OBVIOUS
  <2>2. k >= 0 /\ j >= 0
    BY <1>3, <2>1, ProductPositive
  <2>3. k * j >= 0
    BY <2>2
  <2>4. v - u = k * j
    <3>1. ((a + e) * c) * b - (a * c) * (b + e) = (e * c) * (b - a)
      OBVIOUS
    <3>2. v = ((a + e) * c) * b /\ u = (a * c) * (b + e)
      BY <1>4, <1>9, <1>11
    <3> QED BY <3>1, <3>2, <2>1
  <2> QED BY <2>3, <2>4
<1>15. Less(y, x) <=> v < u
  BY <1>10, <1>11, <1>12, <1>13, OrderAt
<1> QED BY <1>14, <1>15 DEF AtMost, x, y

\* What was sold reaches the break-even point: the fixed costs are within the margin.
LEMMA PointWithinSales ==
  ASSUME NEW f, NEW m, NEW n, IsFraction(f), IsFraction(m), IsFraction(n),
         IsPositive(m), IsPositive(n), AtMost(Over(f, Over(m, n)), n)
  PROVE  AtMost(f, m)
<1>1. PICK a, b, c \in Int, d \in Nat : d > 0 /\ At(f, a, d) /\ At(m, b, d) /\ At(n, c, d)
  BY ThreeBase
<1>2. d \in Int /\ d > 0
  BY <1>1
<1>3. b > 0 /\ c > 0
  BY <1>1, <1>2, OrderAt
<1>4. At(Over(m, n), b, c)
  BY <1>1, <1>2, <1>3, OverAt
<1>5. PICK p, q, r \in Int : p = a * c /\ q = b * d /\ r = c * b
  OBVIOUS
<1>6. At(Over(f, Over(m, n)), p, q)
  BY <1>1, <1>2, <1>3, <1>4, <1>5, QuotientAt
<1>7. At(n, r, q)
  <2>1. At(n, c * b, d * b)
    BY <1>1, <1>2, ScaleAt
  <2>2. c * b = r /\ d * b = q
    BY <1>5
  <2> QED BY <2>1, <2>2
<1>8. q > 0
  BY <1>2, <1>3, <1>5, ProductPositive
<1>9. ~(r < p)
  BY <1>6, <1>7, <1>8, OrderAt DEF AtMost
<1>10. r = b * c
  BY <1>5
<1>11. ~(b < a)
  BY <1>3, <1>5, <1>9, <1>10, Cancel
<1> QED BY <1>1, <1>2, <1>11, OrderAt DEF AtMost

\* What the units sold beyond the break-even point earn, at the margin of one: the sales less
\* what varies, of the production (v) and of the sale (s), and what is fixed (f).
LEMMA MarginTimesUnits ==
  ASSUME NEW p, NEW n, NEW v, NEW s, IsFraction(p), IsFraction(n), IsFraction(v), IsFraction(s),
         IsPositive(n)
  PROVE  LET cm == Minus(p, Plus(Over(v, n), Over(s, n)))
         IN /\ IsFraction(cm)
            /\ Times(cm, n) = Minus(Times(p, n), Plus(v, s))
            /\ cm = Over(Minus(Times(p, n), Plus(v, s)), n)
<1> DEFINE cm == Minus(p, Plus(Over(v, n), Over(s, n)))
           m == Minus(Times(p, n), Plus(v, s))
<1>0. n # Zero
  BY PositiveFacts
<1>1. IsFraction(Over(v, n)) /\ IsFraction(Over(s, n)) /\ IsFraction(Plus(v, s)) /\ IsFraction(Times(p, n))
  BY <1>0, FractionOps
<1>2. IsFraction(Plus(Over(v, n), Over(s, n))) /\ IsFraction(cm) /\ IsFraction(m)
  BY <1>1, FractionOps
<1>3. Times(cm, n) = Times(n, cm) /\ Times(p, n) = Times(n, p)
  BY <1>2, TimesSwaps
<1>4. Times(n, cm) = Minus(Times(n, p), Times(n, Plus(Over(v, n), Over(s, n))))
  BY <1>2, Distributes
<1>5. Times(n, Plus(Over(v, n), Over(s, n))) = Plus(Times(n, Over(v, n)), Times(n, Over(s, n)))
  BY <1>1, Distributes
<1>6. Times(n, Over(v, n)) = v /\ Times(n, Over(s, n)) = s
  <2>1. Times(n, Over(v, n)) = Times(Over(v, n), n) /\ Times(n, Over(s, n)) = Times(Over(s, n), n)
    BY <1>1, TimesSwaps
  <2> QED BY <2>1, <1>0, OverTimes
<1>7. Times(cm, n) = m
  BY <1>3, <1>4, <1>5, <1>6
<1>8. Over(Times(cm, n), n) = cm
  <2> HIDE DEF cm
  <2>1. Over(Times(cm, n), n) = Times(Over(n, n), cm)
    BY <1>2, OverOfTimes
  <2>2. Over(n, n) = One
    <3>1. PICK b \in Int, d \in Nat : d > 0 /\ At(n, b, d)
      BY Parts
    <3>2. d \in Int /\ d > 0
      BY <3>1
    <3>3. b > 0
      BY <3>1, <3>2, OrderAt
    <3>4. At(Over(n, n), b, b) /\ At(One, b, b)
      BY <3>1, <3>2, <3>3, OverAt, OneAt
    <3> QED BY <3>3, <3>4, SameAt
  <2> QED BY <1>2, <2>1, <2>2, TimesLaws
<1> QED BY <1>2, <1>7, <1>8

\* The units sold beyond the point, in the unit of factor k, earn the margin less what is fixed.
LEMMA SoldBeyondThePoint ==
  ASSUME NEW cm, NEW n, NEW k, NEW f, IsFraction(cm), IsFraction(n), IsFraction(k), IsFraction(f),
         IsPositive(cm), IsPositive(k)
  PROVE  Times(Times(cm, k), Minus(Over(n, k), Over(Over(f, cm), k))) = Minus(Times(cm, n), f)
<1>0. cm # Zero /\ k # Zero
  BY PositiveFacts
<1>1. PICK q : q = Over(f, cm)
  OBVIOUS
<1>2. IsFraction(q) /\ Times(q, cm) = f
  BY <1>0, <1>1, FractionOps, OverTimes
<1>3. Minus(Over(n, k), Over(q, k)) = Over(Minus(n, q), k)
  <2>1. PICK a, b, c \in Int, d \in Nat : d > 0 /\ At(n, a, d) /\ At(q, b, d) /\ At(k, c, d)
    BY <1>2, ThreeBase
  <2>2. d \in Int /\ d > 0 /\ a - b \in Int
    BY <2>1
  <2>3. c > 0
    BY <2>1, <2>2, OrderAt
  <2>4. At(Over(n, k), a, c) /\ At(Over(q, k), b, c)
    BY <2>1, <2>2, <2>3, OverAt
  <2>5. At(Minus(n, q), a - b, d)
    BY <2>1, <2>2, PlusAt
  <2>6. At(Minus(Over(n, k), Over(q, k)), a - b, c)
    BY <2>3, <2>4, PlusAt
  <2>7. At(Over(Minus(n, q), k), a - b, c)
    BY <2>1, <2>2, <2>3, <2>5, OverAt
  <2> QED BY <2>2, <2>3, <2>6, <2>7, SameAt
<1>4. IsFraction(Minus(n, q))
  BY <1>2, FractionOps
<1>5. Times(Times(cm, k), Over(Minus(n, q), k)) = Times(cm, Minus(n, q))
  BY <1>4, UnitsConverted
<1>6. Times(cm, Minus(n, q)) = Minus(Times(cm, n), Times(cm, q))
  BY <1>2, Distributes
<1>7. Times(cm, q) = Times(q, cm)
  BY <1>2, TimesSwaps
<1> QED BY <1>1, <1>2, <1>3, <1>5, <1>6, <1>7

\* A cent is more than nothing, so that an amount does not differ from itself.
LEMMA NoDifference ==
  ASSUME NEW x, IsFraction(x)
  PROVE  ~Differ(x, x)
<1>1. Minus(x, x) = Zero
  BY MinusChain
<1>2. At(Cent, 1, 100) /\ At(Zero, 0, 100)
  BY FractionAt, ZeroAt DEF Cent
<1>3. Less(Zero, Cent)
  BY <1>2, OrderAt
<1> QED BY <1>1, <1>3 DEF Differ

-----------------------------------------------------------------------------
(* Margin: the separations.                                                  *)

\* The two portions of a separation: both are known, or none.
IsSplit(s) ==
  /\ s = [fixed |-> s.fixed, variable |-> s.variable]
  /\ \/ s.fixed = NoData /\ s.variable = NoData
     \/ IsFraction(s.fixed) /\ IsFraction(s.variable)

\* The least and the greatest of observed volumes.
LeastAt(x, n, p) == \A o \in 1 .. n : Less(x[p], x[o]) \/ (x[p] = x[o] /\ p <= o)
GreatestAt(x, n, p) == \A o \in 1 .. n : Less(x[o], x[p]) \/ (x[p] = x[o] /\ p >= o)

\* The observations have a least and a greatest volume.
LEMMA ExtremesExist ==
  ASSUME NEW x, NEW N \in Nat, N > 0, \A i \in 1 .. N : IsFraction(x[i])
  PROVE  (\E p \in 1 .. N : LeastAt(x, N, p)) /\ (\E p \in 1 .. N : GreatestAt(x, N, p))
<1> DEFINE Have(n) == (\E p \in 1 .. n : LeastAt(x, n, p)) /\ (\E p \in 1 .. n : GreatestAt(x, n, p))
           G == {n \in Nat : 0 < n /\ n <= N => Have(n)}
<1>1. 0 \in G
  OBVIOUS
<1>2. ASSUME NEW n \in Nat, n \in G PROVE n + 1 \in G
  <2> SUFFICES ASSUME n + 1 <= N PROVE Have(n + 1)
    OBVIOUS
  <2>1. 1 .. n + 1 = 1 .. n \cup {n + 1} /\ n + 1 \in 1 .. N /\ 1 .. n \subseteq 1 .. N
    OBVIOUS
  <2>2. IsFraction(x[n + 1]) /\ ~Less(x[n + 1], x[n + 1])
    BY <2>1, OrderIsTotal
  <2>3. CASE n = 0
    <3>1. LeastAt(x, n + 1, n + 1) /\ GreatestAt(x, n + 1, n + 1)
      BY <2>3 DEF LeastAt, GreatestAt
    <3> QED BY <2>1, <3>1
  <2>4. CASE n > 0
    <3>1. PICK p \in 1 .. n : LeastAt(x, n, p)
      BY <1>2, <2>4
    <3>2. PICK q \in 1 .. n : GreatestAt(x, n, q)
      BY <1>2, <2>4
    <3>3. IsFraction(x[p]) /\ IsFraction(x[q]) /\ p \in 1 .. n + 1 /\ q \in 1 .. n + 1
      BY <2>1
    <3>4. \E l \in 1 .. n + 1 : LeastAt(x, n + 1, l)
      <4>1. CASE Less(x[n + 1], x[p])
        <5>1. ASSUME NEW o \in 1 .. n PROVE Less(x[n + 1], x[o])
          <6>1. IsFraction(x[o]) /\ (Less(x[p], x[o]) \/ x[p] = x[o])
            BY <2>1, <3>1 DEF LeastAt
          <6> QED BY <6>1, <4>1, <2>2, <3>3, OrderIsTotal
        <5>2. LeastAt(x, n + 1, n + 1)
          BY <5>1, <2>1 DEF LeastAt
        <5> QED BY <5>2, <2>1
      <4>2. CASE ~Less(x[n + 1], x[p])
        <5>1. Less(x[p], x[n + 1]) \/ x[p] = x[n + 1]
          BY <4>2, <2>2, <3>3, OrderIsTotal
        <5>2. LeastAt(x, n + 1, p)
          BY <5>1, <3>1, <2>1, p <= n + 1 DEF LeastAt
        <5> QED BY <5>2, <3>3
      <4> QED BY <4>1, <4>2
    <3>5. \E h \in 1 .. n + 1 : GreatestAt(x, n + 1, h)
      <4>1. CASE ~Less(x[n + 1], x[q])
        <5>1. Less(x[q], x[n + 1]) \/ x[q] = x[n + 1]
          BY <4>1, <2>2, <3>3, OrderIsTotal
        <5>2. ASSUME NEW o \in 1 .. n PROVE Less(x[o], x[n + 1]) \/ (x[n + 1] = x[o] /\ n + 1 >= o)
          <6>1. IsFraction(x[o]) /\ (Less(x[o], x[q]) \/ x[q] = x[o])
            BY <2>1, <3>2 DEF GreatestAt
          <6> QED BY <6>1, <5>1, <2>2, <3>3, OrderIsTotal
        <5>3. GreatestAt(x, n + 1, n + 1)
          BY <5>2, <2>1 DEF GreatestAt
        <5> QED BY <5>3, <2>1
      <4>2. CASE Less(x[n + 1], x[q])
        <5>1. GreatestAt(x, n + 1, q)
          BY <4>2, <3>2, <2>1 DEF GreatestAt
        <5> QED BY <5>1, <3>3
      <4> QED BY <4>1, <4>2
    <3> QED BY <3>4, <3>5
  <2> QED BY <2>3, <2>4
<1>3. N \in G
  <2> HIDE DEF G
  <2>1. Nat \subseteq G
    BY <1>1, <1>2, NaturalsFrom
  <2> QED BY <2>1
<1> QED BY <1>3

\* The volumes of a form: fractions, two of which differ.
VolumesOf(f) == [n \in DOMAIN f.points |-> f.points[n][1]]

LEMMA VolumesDiffer ==
  ASSUME NEW f, IsSplitForm(f), Observed(f)
  PROVE  /\ Len(f.points) > 0
         /\ \A v : \E n \in DOMAIN f.points : f.points[n][1] # v
<1> DEFINE X == {f.points[n][1] : n \in DOMAIN f.points}
<1>1. Cardinality(X) >= 2
  BY DEF Observed
<1> HIDE DEF X
<1>2. X # {} /\ \A v : X # {v}
  BY <1>1, FS_EmptySet, FS_Singleton
<1>3. Len(f.points) > 0
  <2> SUFFICES ASSUME Len(f.points) <= 0 PROVE FALSE
    BY DEF IsSplitForm
  <2>1. DOMAIN f.points = {}
    BY DEF IsSplitForm
  <2> QED BY <2>1, <1>2 DEF X
<1>4. ASSUME NEW v, \A n \in DOMAIN f.points : f.points[n][1] = v
      PROVE  FALSE
  <2>1. 1 \in DOMAIN f.points
    BY <1>3 DEF IsSplitForm
  <2>2. X = {v}
    BY <1>4, <2>1 DEF X
  <2> QED BY <2>2, <1>2
<1> QED BY <1>3, <1>4

\* A line of a known slope gives two portions.
LEMMA LineIs ==
  ASSUME NEW f, IsFraction(f.amount), NEW slope, NEW x, NEW y,
         IsFraction(slope), IsFraction(x), IsFraction(y)
  PROVE  /\ Line(f, slope, x, y)
              = [fixed |-> Line(f, slope, x, y).fixed, variable |-> Line(f, slope, x, y).variable]
         /\ IsFraction(Line(f, slope, x, y).fixed) /\ IsFraction(Line(f, slope, x, y).variable)
<1>1. PICK fixed : fixed = Minus(y, Times(slope, x))
  OBVIOUS
<1>2. IsFraction(fixed) /\ IsFraction(Minus(f.amount, fixed))
  BY <1>1, FractionOps
<1>3. Line(f, slope, x, y) = [fixed |-> fixed, variable |-> Minus(f.amount, fixed)]
  BY <1>1 DEF Line
<1> QED BY <1>2, <1>3

\* The two portions that a line through the observations gives.
TwoPortions(s) ==
  s = [fixed |-> s.fixed, variable |-> s.variable] /\ IsFraction(s.fixed) /\ IsFraction(s.variable)

\* By the extremes: they differ, and the slope between them is a fraction.
LEMMA ExtremesIs ==
  ASSUME NEW f, IsSplitForm(f), Observed(f)
  PROVE  TwoPortions(ByExtremes(f))
<1> DEFINE x == VolumesOf(f)
           D == DOMAIN f.points
           low == CHOOSE p \in D : \A o \in D :
                    Less(f.points[p][1], f.points[o][1]) \/ (f.points[p][1] = f.points[o][1] /\ p <= o)
           high == CHOOSE p \in D : \A o \in D :
                    Less(f.points[o][1], f.points[p][1]) \/ (f.points[p][1] = f.points[o][1] /\ p >= o)
<1>1. D = 1 .. Len(f.points) /\ Len(f.points) \in Nat /\ Len(f.points) > 0
  BY VolumesDiffer DEF IsSplitForm
<1>2. \A n \in D : IsFraction(f.points[n][1]) /\ IsFraction(f.points[n][2])
  BY DEF IsSplitForm, IsAmount
<1>3. \A n \in D : x[n] = f.points[n][1]
  BY DEF VolumesOf
<1> HIDE DEF x
<1>4. /\ \E p \in D : LeastAt(x, Len(f.points), p)
      /\ \E p \in D : GreatestAt(x, Len(f.points), p)
  BY <1>1, <1>2, <1>3, ExtremesExist
<1>5. low \in D /\ \A o \in D :
        Less(f.points[low][1], f.points[o][1]) \/ (f.points[low][1] = f.points[o][1] /\ low <= o)
  BY <1>1, <1>3, <1>4 DEF LeastAt
<1>6. high \in D /\ \A o \in D :
        Less(f.points[o][1], f.points[high][1]) \/ (f.points[high][1] = f.points[o][1] /\ high >= o)
  BY <1>1, <1>3, <1>4 DEF GreatestAt
<1>7. ByExtremes(f) =
        Line(f, Over(Minus(f.points[high][2], f.points[low][2]),
                     Minus(f.points[high][1], f.points[low][1])), f.points[low][1], f.points[low][2])
  BY DEF ByExtremes
<1> HIDE DEF low, high
<1>8. f.points[high][1] # f.points[low][1]
  <2> SUFFICES ASSUME f.points[high][1] = f.points[low][1] PROVE FALSE
    OBVIOUS
  <2>1. PICK o \in D : f.points[o][1] # f.points[low][1]
    BY VolumesDiffer
  <2>2. Less(f.points[low][1], f.points[o][1]) /\ Less(f.points[o][1], f.points[low][1])
    BY <1>5, <1>6, <2>1
  <2> QED BY <2>2, <1>2, <1>5, <2>1, OrderIsTotal
<1>9. Minus(f.points[high][1], f.points[low][1]) # Zero
  BY <1>2, <1>5, <1>6, <1>8, NoGap
<1>10. /\ IsFraction(Minus(f.points[high][1], f.points[low][1]))
       /\ IsFraction(Minus(f.points[high][2], f.points[low][2]))
  BY <1>2, <1>5, <1>6, FractionOps
<1>11. PICK slope : slope = Over(Minus(f.points[high][2], f.points[low][2]),
                                 Minus(f.points[high][1], f.points[low][1]))
  OBVIOUS
<1>12. IsFraction(slope)
  BY <1>9, <1>10, <1>11, FractionOps
<1>13. IsFraction(f.amount)
  BY DEF IsSplitForm, IsAmount
<1> QED BY <1>2, <1>5, <1>7, <1>11, <1>12, <1>13, LineIs DEF TwoPortions

\* The points of a form are finitely many.
LEMMA PointsFinite ==
  ASSUME NEW f, IsSplitForm(f)
  PROVE  IsFiniteSet(DOMAIN f.points)
<1>1. PICK k : k = Len(f.points)
  OBVIOUS
<1>2. k \in Int /\ DOMAIN f.points = 1 .. k
  BY <1>1 DEF IsSplitForm
<1>3. IsFiniteSet(1 .. k)
  BY <1>2, FS_Interval, 1 \in Int
<1> QED BY <1>2, <1>3

LEMMA MeanIs ==
  ASSUME NEW f, IsSplitForm(f), Len(f.points) > 0
  PROVE  IsFraction(Mean(f, 1)) /\ IsFraction(Mean(f, 2))
<1> DEFINE D == DOMAIN f.points
           g == [n \in D |-> f.points[n][1]]
           h == [n \in D |-> f.points[n][2]]
           k == Whole(Len(f.points))
<1>1. IsFiniteSet(D)
  BY PointsFinite
<1>2. AreFractions(g, D) /\ AreFractions(h, D)
  BY DEF AreFractions, IsSplitForm, IsAmount
<1>3. IsFraction(k) /\ k # Zero
  <2>1. Len(f.points) \in Int /\ Len(f.points) # 0
    BY DEF IsSplitForm
  <2>2. IsFraction(k)
    BY <2>1, WholeAt DEF At
  <2> QED BY <2>1, <2>2 DEF Whole, Zero
<1>4. Mean(f, 1) = Over(SumOver(g, D), k) /\ Mean(f, 2) = Over(SumOver(h, D), k)
  BY DEF Mean
<1> HIDE DEF g, h, k, D
<1>5. IsFraction(SumOver(g, D)) /\ IsFraction(SumOver(h, D))
  BY <1>1, <1>2, SumType
<1> QED BY <1>3, <1>4, <1>5, FractionOps

\* By least squares: the squares of the distances add up to something.
LEMMA CorrelationIs ==
  ASSUME NEW f, IsSplitForm(f), Observed(f)
  PROVE  TwoPortions(ByCorrelation(f))
<1> DEFINE D == DOMAIN f.points
           x == Mean(f, 1)
           y == Mean(f, 2)
           ofX == [n \in D |-> Minus(f.points[n][1], x)]
           ofY == [n \in D |-> Minus(f.points[n][2], y)]
           products == [n \in D |-> Times(ofX[n], ofY[n])]
           squares == [n \in D |-> Times(ofX[n], ofX[n])]
<1>1. IsFiniteSet(D)
  BY PointsFinite
<1>2. IsFraction(x) /\ IsFraction(y)
  BY VolumesDiffer, MeanIs
<1>3. \A n \in D : IsFraction(f.points[n][1]) /\ IsFraction(f.points[n][2])
  BY DEF IsSplitForm, IsAmount
<1>4. ByCorrelation(f) = Line(f, Over(SumOver(products, D), SumOver(squares, D)), x, y)
  BY DEF ByCorrelation
<1>5. ASSUME NEW n \in D
      PROVE  /\ ofX[n] = Minus(f.points[n][1], x) /\ IsFraction(ofX[n]) /\ IsFraction(ofY[n])
             /\ products[n] = Times(ofX[n], ofY[n]) /\ squares[n] = Times(ofX[n], ofX[n])
  <2>1. ofX[n] = Minus(f.points[n][1], x) /\ ofY[n] = Minus(f.points[n][2], y)
    OBVIOUS
  <2>2. products[n] = Times(ofX[n], ofY[n]) /\ squares[n] = Times(ofX[n], ofX[n])
    OBVIOUS
  <2> HIDE DEF ofX, ofY, products, squares, x, y, D
  <2>3. IsFraction(ofX[n]) /\ IsFraction(ofY[n])
    BY <1>2, <1>3, <2>1, FractionOps
  <2> QED BY <2>1, <2>2, <2>3
<1> HIDE DEF products, squares, ofX, ofY, x, y
<1>6. AreFractions(products, D)
  BY <1>5, FractionOps DEF AreFractions
<1>7. \A n \in D : IsAmount(squares[n])
  BY <1>5, SquareFacts
<1>8. PICK m \in D : f.points[m][1] # x
  BY VolumesDiffer
<1>9. ofX[m] # Zero
  BY <1>2, <1>3, <1>5, <1>8, NoGap
<1>10. IsPositive(squares[m])
  BY <1>5, <1>9, SquareFacts
<1>11. IsPositive(SumOver(squares, D)) /\ IsAmount(SumOver(squares, D))
  BY <1>1, <1>7, <1>10, SumIsPositive, SumOfAmounts
<1>12. IsFraction(SumOver(squares, D)) /\ SumOver(squares, D) # Zero
  BY <1>11, PositiveFacts DEF IsAmount
<1>13. IsFraction(SumOver(products, D))
  BY <1>1, <1>6, SumType
<1>14. IsFraction(Over(SumOver(products, D), SumOver(squares, D))) /\ IsFraction(f.amount)
  BY <1>12, <1>13, FractionOps DEF IsSplitForm, IsAmount
<1> QED BY <1>2, <1>4, <1>14, LineIs DEF TwoPortions

\* Every separation that is saved has two portions, which are fractions.
LEMMA SeparatedIs ==
  ASSUME NEW f, IsSplitForm(f)
  PROVE  IsSplit(Separated(f))
<1>1. IsSplit(NoSplit)
  BY DEF IsSplit, NoSplit
<1>2. PICK parts : parts = IF f.method = "PUNTOS_EXTREMOS" THEN ByExtremes(f)
                           ELSE IF f.method = "CORRELACION" THEN ByCorrelation(f)
                           ELSE [fixed |-> f.fixed, variable |-> f.variable]
  OBVIOUS
<1>3. Separated(f) = NoSplit \/
        (Separated(f) = parts /\ (f.method = "DECLARADO" \/ Observed(f))
                              /\ Given(parts.fixed) /\ Given(parts.variable))
  BY <1>2 DEF Separated
<1>4. ASSUME f.method = "DECLARADO" \/ Observed(f), Given(parts.fixed), Given(parts.variable)
      PROVE  IsSplit(parts)
  <2>1. CASE f.method = "PUNTOS_EXTREMOS"
    BY <1>2, <1>4, <2>1, ExtremesIs DEF TwoPortions, IsSplit
  <2>2. CASE f.method = "CORRELACION"
    BY <1>2, <1>4, <2>2, CorrelationIs DEF TwoPortions, IsSplit
  <2>3. CASE f.method # "PUNTOS_EXTREMOS" /\ f.method # "CORRELACION"
    <3>1. parts = [fixed |-> f.fixed, variable |-> f.variable]
      BY <1>2, <2>3
    <3>2. IsFraction(f.fixed) /\ IsFraction(f.variable)
      BY <3>1, <1>4 DEF IsSplitForm, IsOptional, IsAmount, Given
    <3> QED BY <3>1, <3>2 DEF IsSplit
  <2> QED BY <2>1, <2>2, <2>3
<1> QED BY <1>1, <1>3, <1>4

-----------------------------------------------------------------------------
(* Margin: what a calculation reads of the rows.                             *)

\* An item of the trace: half fixed by a separation, or by a row that has none.
IsTraced(e) ==
  /\ e = [kind |-> e.kind, fixed |-> e.fixed, variable |-> e.variable]
  /\ e.kind \in Behaviours \union {"none"}
  /\ \/ e.fixed = NoData /\ e.variable = NoData
     \/ e.kind = "SEMIFIJO" /\ IsFraction(e.fixed) /\ IsFraction(e.variable)
IsTrace(t, o) ==
  /\ t = [i \in Present(o) |-> t[i]] /\ \A i \in Present(o) : IsTraced(t[i])
  /\ t["ads"].kind = "VARIABLE" /\ t["admin"].kind = "FIJO"

\* What is shown is the break-even point of an output of the engine and a trace of its items.
Showing(o, t) ==
  shown = [status |-> BreakEven(o, AmountOf(o), t).status, output |-> o, trace |-> t,
           base |-> BreakEven(o, AmountOf(o), t), read |-> Managed(o, BreakEven(o, AmountOf(o), t))]

\* What is shown was calculated from rows and separations that the handlers let through.
KindsInv ==
  /\ \A n \in DOMAIN params : params[n].kind \in Behaviours
  /\ \A r \in Costers : mreq[r].at = "setting" => mreq[r].form.kind \in Behaviours
SplitsInv == \A n \in DOMAIN concepts : IsSplit(concepts[n].split)
ShownInv == shown # NotShown => \E o \in Outputs : \E t : IsTrace(t, o) /\ Showing(o, t)
CostsInv == KindsInv /\ SplitsInv /\ ShownInv

\* The least and the greatest of a finite set of integers.
LEMMA EndsExist ==
  ASSUME NEW S, IsFiniteSet(S), S \subseteq Int, S # {}
  PROVE  (\E n \in S : \A m \in S : n <= m) /\ (\E n \in S : \A m \in S : n >= m)
<1> DEFINE Have(T) == (\E n \in T : \A m \in T : n <= m) /\ (\E n \in T : \A m \in T : n >= m)
           G == {T \in SUBSET S : T = {} \/ Have(T)}
<1>1. {} \in G
  OBVIOUS
<1>2. ASSUME NEW T \in SUBSET S, NEW x \in S, T \in G, x \notin T PROVE T \cup {x} \in G
  <2>1. x \in Int /\ T \subseteq Int
    OBVIOUS
  <2>2. CASE T = {}
    BY <2>1, <2>2
  <2>3. CASE Have(T)
    <3>1. PICK n \in T : \A m \in T : n <= m
      BY <2>3
    <3>2. PICK k \in T : \A m \in T : k >= m
      BY <2>3
    <3>3. \E l \in T \cup {x} : \A m \in T \cup {x} : l <= m
      <4>1. CASE n <= x
        BY <3>1, <4>1, <2>1
      <4>2. CASE x < n
        <5>1. \A m \in T \cup {x} : x <= m
          BY <3>1, <4>2, <2>1
        <5> QED BY <5>1
      <4> QED BY <4>1, <4>2, <2>1
    <3>4. \E l \in T \cup {x} : \A m \in T \cup {x} : l >= m
      <4>1. CASE k >= x
        BY <3>2, <4>1, <2>1
      <4>2. CASE x > k
        <5>1. \A m \in T \cup {x} : x >= m
          BY <3>2, <4>2, <2>1
        <5> QED BY <5>1
      <4> QED BY <4>1, <4>2, <2>1
    <3> QED BY <3>3, <3>4
  <2> QED BY <1>2, <2>2, <2>3
<1>3. S \in G
  <2> HIDE DEF G
  <2> QED BY <1>1, <1>2, FiniteFrom
<1> QED BY <1>3

\* An item is classified by a separation, by a row, or not at all.
LEMMA ClassifiedIs ==
  ASSUME MarginInv, KindsInv, SplitsInv, NEW i, NEW month, NEW oldest
  PROVE  IsTraced(Classified(i, month, oldest))
<1> DEFINE near == {n \in RowsOf(i, month) : \A m \in RowsOf(i, month) :
                      Rank(params[n].scope, month) <= Rank(params[m].scope, month)}
           row == CHOOSE n \in near : \A m \in near : IF oldest THEN n <= m ELSE n >= m
           before(c) == \A n \in near :
             Rank(concepts[c].scope, month) <= Rank(params[n].scope, month)
           standing == {c \in Stands(i, month) : before(c)}
           c == CHOOSE d \in standing : TRUE
<1>1. Classified(i, month, oldest) =
        IF standing # {}
          THEN [kind |-> "SEMIFIJO", fixed |-> concepts[c].split.fixed,
                variable |-> concepts[c].split.variable]
        ELSE IF near = {} THEN NotClassified
        ELSE [kind |-> params[row].kind, fixed |-> NoData, variable |-> NoData]
  BY DEF Classified
<1>2. DOMAIN params = 1 .. Len(params) /\ Len(params) \in Nat
  BY AppendFacts DEF MarginInv
<1>3. near \subseteq DOMAIN params
  BY DEF RowsOf
<1>4. standing \subseteq Stands(i, month)
  OBVIOUS
<1> HIDE DEF near, standing
<1>5. CASE standing # {}
  <2>1. c \in Stands(i, month)
    BY <1>4, <1>5
  <2> HIDE DEF c
  <2>2. c \in DOMAIN concepts /\ concepts[c].split # NoSplit
    BY <2>1 DEF Stands, Resolved, HalfFixed
  <2>3. IsSplit(concepts[c].split)
    BY <2>2 DEF SplitsInv
  <2>4. IsFraction(concepts[c].split.fixed) /\ IsFraction(concepts[c].split.variable)
    BY <2>2, <2>3 DEF IsSplit, NoSplit
  <2> QED BY <1>1, <1>5, <2>4 DEF IsTraced, Behaviours
<1>6. CASE standing = {} /\ near = {}
  BY <1>1, <1>6 DEF IsTraced, NotClassified
<1>7. CASE standing = {} /\ near # {}
  <2>1. IsFiniteSet(near) /\ near \subseteq Int
    <3>1. PICK k : k = Len(params)
      OBVIOUS
    <3>2. k \in Int
      BY <1>2, <3>1
    <3>3. IsFiniteSet(1 .. k)
      BY <3>2, FS_Interval, 1 \in Int
    <3>4. near \subseteq 1 .. k
      BY <1>2, <1>3, <3>1
    <3>5. IsFiniteSet(near)
      BY <3>3, <3>4, FS_Subset
    <3>6. near \subseteq Int
      BY <3>2, <3>4
    <3> QED BY <3>5, <3>6
  <2>2. \E n \in near : \A m \in near : IF oldest THEN n <= m ELSE n >= m
    BY <1>7, <2>1, EndsExist
  <2>3. row \in near
    BY <2>2
  <2> HIDE DEF row
  <2>4. params[row].kind \in Behaviours
    BY <1>3, <2>3 DEF KindsInv
  <2> QED BY <1>1, <1>7, <2>4 DEF IsTraced
<1> QED BY <1>5, <1>6, <1>7

LEMMA TraceIs ==
  ASSUME MarginInv, KindsInv, SplitsInv, NEW o, NEW month, NEW oldest
  PROVE  IsTrace(Trace(o, month, oldest), o)
<1> DEFINE t == Trace(o, month, oldest)
<1>1. /\ t = [i \in Present(o) |-> t[i]]
      /\ \A i \in Present(o) : t[i] = IF i \in {"ads", "admin"} THEN Forced(i)
                                      ELSE Classified(i, month, oldest)
  BY DEF Trace
<1>2. "ads" \in Present(o) /\ "admin" \in Present(o)
  BY DEF Present
<1>3. /\ Forced("ads") = [kind |-> "VARIABLE", fixed |-> NoData, variable |-> NoData]
      /\ Forced("admin") = [kind |-> "FIJO", fixed |-> NoData, variable |-> NoData]
  BY DEF Forced, NotClassified
<1>4. IsTraced(Forced("ads")) /\ IsTraced(Forced("admin"))
  BY <1>3 DEF IsTraced, Behaviours
<1> HIDE DEF t
<1>5. \A i \in Present(o) : IsTraced(t[i])
  BY <1>1, <1>4, ClassifiedIs
<1> QED BY <1>1, <1>2, <1>3, <1>5 DEF IsTrace, t


\* Nothing is shown, and the first rows are of the known behaviours.
LEMMA CostsStart == MarginInit => CostsInv
<1> SUFFICES ASSUME MarginInit PROVE CostsInv
  OBVIOUS
<1>1. params \in Seq(ParamRow) /\ concepts = << >> /\ shown = NotShown
      /\ \A r \in Costers : mreq[r] = Resting
  BY MarginAssumption DEF MarginInit
<1>2. \A n \in DOMAIN params : params[n] \in ParamRow
  BY <1>1
<1> QED BY <1>1, <1>2 DEF CostsInv, KindsInv, SplitsInv, ShownInv, ParamRow, Resting

\* Whatever a request holds is what it read, or what it held before.
LEMMA HandKinds ==
  ASSUME MarginInv, KindsInv, [MarginNext]_marginVars, NEW r \in Costers, mreq'[r].at = "setting"
  PROVE  mreq'[r].form.kind \in Behaviours
<1> DEFINE Kept == mreq'[r].at = mreq[r].at /\ mreq'[r].form = mreq[r].form
<1>1. ASSUME Kept PROVE mreq'[r].form.kind \in Behaviours
  BY <1>1 DEF KindsInv
<1>2. ASSUME NEW q \in Costers, NEW at, NEW id, NEW form, Reads(q, at, id, form),
             at = "setting" => form.kind \in Behaviours
      PROVE  mreq'[r].form.kind \in Behaviours
  <2>1. CASE q = r
    BY <1>2, <2>1 DEF Reads, MarginInv
  <2>2. CASE q # r
    BY <1>1, <1>2, <2>2 DEF Reads, MarginInv
  <2> QED BY <2>1, <2>2
<1>3. ASSUME NEW q \in Costers, NEW touched, Ended(q, touched)
      PROVE  mreq'[r].form.kind \in Behaviours
  BY <1>1, <1>3, RestingFacts DEF Ended
<1>4. ASSUME NEW q \in Costers, Answers(q)
      PROVE  mreq'[r].form.kind \in Behaviours
  <2>1. CASE q = r
    BY <1>4, <2>1, RestingFacts DEF Answers, MarginInv
  <2>2. CASE q # r
    BY <1>1, <1>4, <2>2 DEF Answers, MarginInv
  <2> QED BY <2>1, <2>2
<1> HIDE DEF Kept
<1>5. CASE UNCHANGED mreq
  BY <1>1, <1>5 DEF Kept
<1>6. CASE ParamNext
  <2>1. ASSUME NEW q \in Costers, NEW i, NEW s, NEW k \in Behaviours, ReadSet(q, i, s, k)
        PROVE  mreq'[r].form.kind \in Behaviours
    <3>1. PICK n : Reads(q, "setting", n, [item |-> i, scope |-> s, kind |-> k])
      BY <2>1 DEF ReadSet
    <3> QED BY <1>2, <3>1
  <2>2. ASSUME NEW q \in Costers, NEW i, NEW s, ReadUnset(q, i, s)
        PROVE  mreq'[r].form.kind \in Behaviours
    <3>1. PICK n : Reads(q, "unsetting", n, [item |-> i, scope |-> s, kind |-> "none"])
      BY <2>2 DEF ReadUnset
    <3> QED BY <1>2, <3>1
  <2>3. ASSUME NEW q \in Costers, WriteSet(q) \/ WriteUnset(q)
        PROVE  mreq'[r].form.kind \in Behaviours
    <3>1. Answers(q) \/ Ends(q, LAMBDA o : SameParam(o, mreq[q].form))
      BY <2>3 DEF WriteSet, WriteUnset
    <3>2. Ends(q, LAMBDA o : SameParam(o, mreq[q].form))
            => Ended(q, [o \in Costers |-> SameParam(mreq[o], mreq[q].form)])
      BY ParamEnds
    <3> QED BY <1>3, <1>4, <3>1, <3>2
  <2> QED BY <1>6, <2>1, <2>2, <2>3 DEF ParamNext
<1>7. CASE ConceptNext
  <2>1. ASSUME NEW q \in Costers, NEW f, ReadCreate(q, f)
        PROVE  mreq'[r].form.kind \in Behaviours
    BY <1>2, <2>1 DEF ReadCreate
  <2>2. ASSUME NEW q \in Costers, NEW n, ReadRemove(q, n)
        PROVE  mreq'[r].form.kind \in Behaviours
    BY <1>2, <2>2 DEF ReadRemove
  <2>3. ASSUME NEW q \in Costers, NEW n, NEW kind, NEW cause, ReadEdit(q, n, kind, cause)
        PROVE  mreq'[r].form.kind \in Behaviours
    BY <1>2, <2>3 DEF ReadEdit
  <2>4. ASSUME NEW q \in Costers, WriteCreate(q)
        PROVE  mreq'[r].form.kind \in Behaviours
    <3>1. Answers(q) \/ Ends(q, LAMBDA o : SameKey(o, mreq[q].form))
      BY <2>4 DEF WriteCreate
    <3>2. Ends(q, LAMBDA o : SameKey(o, mreq[q].form))
            => Ended(q, [o \in Costers |-> SameKey(mreq[o], mreq[q].form)])
      BY KeyEnds
    <3> QED BY <1>3, <1>4, <3>1, <3>2
  <2>5. ASSUME NEW q \in Costers, WriteEdit(q) \/ WriteRemove(q)
        PROVE  mreq'[r].form.kind \in Behaviours
    <3>1. Ends(q, LAMBDA o : SameConcept(o, mreq[q].id))
      BY <2>5 DEF WriteEdit, WriteRemove
    <3>2. Ended(q, [o \in Costers |-> SameConcept(mreq[o], mreq[q].id)])
      BY <3>1, ConceptEnds
    <3> QED BY <1>3, <3>2
  <2>6. ASSUME NEW n, NEW f, SaveSplit(n, f)
        PROVE  mreq'[r].form.kind \in Behaviours
    BY <1>5, <2>6 DEF SaveSplit
  <2> QED BY <1>7, <2>1, <2>2, <2>3, <2>4, <2>5, <2>6 DEF ConceptNext
<1>8. CASE CalculateNext
  BY <1>5, <1>8 DEF CalculateNext, Calculate
<1> QED BY <1>5, <1>6, <1>7, <1>8 DEF MarginNext, marginVars

\* A row has the behaviour of the form that wrote it, or the one it had.
LEMMA RowKinds ==
  ASSUME MarginInv, KindsInv, [MarginNext]_marginVars, NEW n \in DOMAIN params'
  PROVE  params'[n].kind \in Behaviours
<1>1. Sequence(params) /\ \A k \in DOMAIN params : IsParam(params[k])
  BY DEF MarginInv
<1>2. CASE UNCHANGED params
  BY <1>2 DEF KindsInv
<1>3. ASSUME NEW r \in Costers, WriteSet(r)
      PROVE  params'[n].kind \in Behaviours
  <2> DEFINE f == mreq[r].form
             row == [item |-> f.item, scope |-> f.scope, kind |-> f.kind, live |-> TRUE,
                     crossed |-> mreq[r].crossed]
  <2>1. f.kind \in Behaviours
    BY <1>3 DEF WriteSet, KindsInv
  <2>2. CASE params' = [params EXCEPT ![mreq[r].id] =
               [row EXCEPT !.live = params[mreq[r].id].live,
                           !.crossed = row.crossed \/ params[mreq[r].id].crossed]]
    <3>1. PICK p : p = [row EXCEPT !.live = params[mreq[r].id].live,
                                   !.crossed = row.crossed \/ params[mreq[r].id].crossed]
      OBVIOUS
    <3>2. p.kind = f.kind
      BY <3>1
    <3>3. params' = [params EXCEPT ![mreq[r].id] = p]
      BY <2>2, <3>1
    <3> HIDE DEF row, f
    <3> QED BY <2>1, <3>2, <3>3 DEF KindsInv
  <2>3. CASE params' = Append(params, row)
    <3>1. row.kind = f.kind
      OBVIOUS
    <3> HIDE DEF row, f
    <3>2. /\ DOMAIN params = 1 .. Len(params) /\ Len(params) \in Nat
          /\ DOMAIN params' = 1 .. Len(params) + 1
          /\ \A k \in DOMAIN params : params'[k] = params[k]
          /\ params'[Len(params) + 1] = row
      BY <1>1, <2>3, AppendFacts
    <3> QED BY <2>1, <3>1, <3>2 DEF KindsInv
  <2> QED BY <1>2, <1>3, <2>2, <2>3 DEF WriteSet
<1>4. ASSUME NEW r \in Costers, WriteUnset(r)
      PROVE  params'[n].kind \in Behaviours
  <2>1. mreq[r].id \in DOMAIN params
    BY <1>4 DEF MarginInv, ParamHand, WriteUnset
  <2> DEFINE x == params[mreq[r].id]
  <2>2. PICK p : p = [x EXCEPT !.live = FALSE]
    OBVIOUS
  <2>3. p.kind = x.kind
    BY <1>1, <2>1, <2>2 DEF IsParam
  <2>4. params' = [params EXCEPT ![mreq[r].id] = p]
    BY <1>4, <2>2 DEF WriteUnset
  <2> QED BY <2>1, <2>3, <2>4 DEF KindsInv
<1>5. CASE ParamNext
  BY <1>2, <1>3, <1>4, <1>5 DEF ParamNext, ReadSet, ReadUnset
<1>6. CASE ConceptNext
  BY <1>2, <1>6 DEF ConceptNext, ReadCreate, WriteCreate, ReadRemove, ReadEdit, WriteEdit, WriteRemove, SaveSplit
<1>7. CASE CalculateNext
  BY <1>2, <1>7 DEF CalculateNext, Calculate
<1> QED BY <1>2, <1>5, <1>6, <1>7 DEF MarginNext, marginVars

\* A concept keeps its separation, or gets one that guardar computed.
LEMMA SplitsKept ==
  ASSUME MarginInv, SplitsInv, [MarginNext]_marginVars, NEW n \in DOMAIN concepts'
  PROVE  IsSplit(concepts'[n].split)
<1>1. Sequence(concepts) /\ \A k \in DOMAIN concepts : IsConcept(concepts[k])
  BY DEF MarginInv
<1>2. CASE UNCHANGED concepts
  BY <1>2 DEF SplitsInv
<1>3. ASSUME NEW r \in Costers, WriteCreate(r)
      PROVE  IsSplit(concepts'[n].split)
  <2>1. PICK c : c.split = NoSplit /\ (UNCHANGED concepts \/ concepts' = Append(concepts, c))
    BY <1>3 DEF WriteCreate
  <2>2. CASE concepts' = Append(concepts, c)
    <3>1. /\ DOMAIN concepts = 1 .. Len(concepts) /\ Len(concepts) \in Nat
          /\ DOMAIN concepts' = 1 .. Len(concepts) + 1
          /\ \A k \in DOMAIN concepts : concepts'[k] = concepts[k]
          /\ concepts'[Len(concepts) + 1] = c
      BY <1>1, <2>2, AppendFacts
    <3>2. IsSplit(NoSplit)
      BY DEF IsSplit, NoSplit
    <3> QED BY <2>1, <3>1, <3>2 DEF SplitsInv
  <2> QED BY <1>2, <2>1, <2>2
<1>4. ASSUME NEW k \in DOMAIN concepts, NEW c, concepts' = [concepts EXCEPT ![k] = c],
             c.split = concepts[k].split \/ IsSplit(c.split)
      PROVE  IsSplit(concepts'[n].split)
  BY <1>4 DEF SplitsInv
<1>5. ASSUME NEW r \in Costers, WriteEdit(r)
      PROVE  IsSplit(concepts'[n].split)
  <2>1. mreq[r].id \in DOMAIN concepts
    BY <1>5 DEF MarginInv, ConceptHand, WriteEdit
  <2>2. PICK x : x = concepts[mreq[r].id] /\ IsConcept(x)
    BY <1>1, <2>1
  <2>3. PICK kind, cause, stamp, over : concepts' = [concepts EXCEPT ![mreq[r].id] =
          [x EXCEPT !.kind = kind, !.cause = cause, !.stamp = stamp, !.crossed = over]]
    BY <1>5, <2>2 DEF WriteEdit
  <2>4. PICK c : c = [x EXCEPT !.kind = kind, !.cause = cause, !.stamp = stamp, !.crossed = over]
    OBVIOUS
  <2>5. c.split = x.split
    BY <2>2, <2>4 DEF IsConcept
  <2> QED BY <1>4, <2>1, <2>2, <2>3, <2>4, <2>5
<1>6. ASSUME NEW r \in Costers, WriteRemove(r)
      PROVE  IsSplit(concepts'[n].split)
  <2>1. mreq[r].id \in DOMAIN concepts
    BY <1>6 DEF MarginInv, ConceptHand, WriteRemove
  <2>2. PICK x : x = concepts[mreq[r].id] /\ IsConcept(x)
    BY <1>1, <2>1
  <2>3. PICK c : c = [x EXCEPT !.live = FALSE]
    OBVIOUS
  <2>4. c.split = x.split
    BY <2>2, <2>3 DEF IsConcept
  <2>5. concepts' = [concepts EXCEPT ![mreq[r].id] = c]
    BY <1>6, <2>2, <2>3 DEF WriteRemove
  <2> QED BY <1>4, <2>1, <2>2, <2>4, <2>5
<1>7. ASSUME NEW k, NEW f \in SplitForms, SaveSplit(k, f)
      PROVE  IsSplit(concepts'[n].split)
  <2>1. k \in DOMAIN concepts
    BY <1>7 DEF SaveSplit
  <2>2. PICK x : x = concepts[k] /\ IsConcept(x)
    BY <1>1, <2>1
  <2>3. PICK split : split = Separated(f)
    OBVIOUS
  <2>4. PICK c : c = [x EXCEPT !.split = split]
    OBVIOUS
  <2>5. c.split = split
    BY <2>2, <2>4 DEF IsConcept
  <2>6. concepts' = [concepts EXCEPT ![k] = c]
    BY <1>7, <2>2, <2>3, <2>4 DEF SaveSplit
  <2>7. IsSplit(split)
    BY <2>3, SeparatedIs, MarginAssumption
  <2> QED BY <1>4, <2>1, <2>5, <2>6, <2>7
<1>8. CASE ParamNext
  BY <1>2, <1>8 DEF ParamNext, ReadSet, ReadUnset, WriteSet, WriteUnset
<1>9. CASE ConceptNext
  BY <1>2, <1>3, <1>5, <1>6, <1>7, <1>9 DEF ConceptNext, ReadCreate, ReadRemove, ReadEdit
<1>10. CASE CalculateNext
  BY <1>2, <1>10 DEF CalculateNext, Calculate
<1> QED BY <1>2, <1>8, <1>9, <1>10 DEF MarginNext, marginVars

\* What is shown is the break-even of a trace of the rows as they stand.
LEMMA ShownStep ==
  ASSUME MarginInv, CostsInv, [MarginNext]_marginVars
  PROVE  ShownInv'
<1>1. CASE UNCHANGED shown
  BY <1>1 DEF CostsInv, ShownInv, Showing
<1>2. ASSUME NEW o \in Outputs, NEW month, NEW oldest, Calculate(o, month, oldest)
      PROVE  ShownInv'
  <2>1. PICK t : t = Trace(o, month, oldest)
    OBVIOUS
  <2>2. PICK b : b = BreakEven(o, AmountOf(o), t)
    OBVIOUS
  <2>3. IsTrace(t, o)
    BY <2>1, TraceIs DEF CostsInv
  <2>4. shown' = [status |-> b.status, output |-> o, trace |-> t, base |-> b, read |-> Managed(o, b)]
    BY <1>2, <2>1, <2>2 DEF Calculate
  <2>5. Showing(o, t)'
    BY <2>2, <2>4 DEF Showing
  <2> QED BY <2>3, <2>5 DEF ShownInv
<1>3. CASE ParamNext
  BY <1>1, <1>3 DEF ParamNext, ReadSet, ReadUnset, WriteSet, WriteUnset
<1>4. CASE ConceptNext
  BY <1>1, <1>4 DEF ConceptNext, ReadCreate, WriteCreate, ReadRemove, ReadEdit, WriteEdit, WriteRemove, SaveSplit
<1>5. CASE CalculateNext
  BY <1>2, <1>5 DEF CalculateNext
<1> QED BY <1>1, <1>3, <1>4, <1>5 DEF MarginNext, marginVars

LEMMA CostsStep == MarginInv /\ CostsInv /\ [MarginNext]_marginVars => CostsInv'
<1> SUFFICES ASSUME MarginInv, CostsInv, [MarginNext]_marginVars PROVE CostsInv'
  OBVIOUS
<1>1. KindsInv'
  BY HandKinds, RowKinds DEF CostsInv, KindsInv
<1>2. SplitsInv'
  BY SplitsKept DEF CostsInv, SplitsInv
<1> QED BY <1>1, <1>2, ShownStep DEF CostsInv

\* The items of an output, and what each amounts to.
LEMMA ItemsAre ==
  ASSUME NEW o, IsOutput(o)
  PROVE  /\ IsFiniteSet(Present(o)) /\ {"ads", "admin"} \subseteq Present(o)
         /\ DOMAIN AmountOf(o) = Present(o) /\ AreFractions(AmountOf(o), Present(o))
<1> DEFINE D == Present(o)
           a == AmountOf(o)
<1>1. IsFiniteSet(Elements \union Optional \union {"ads", "admin"})
  <2>1. /\ IsFiniteSet({"mp"}) /\ IsFiniteSet({"mod"}) /\ IsFiniteSet({"cip"})
        /\ IsFiniteSet({"variance"}) /\ IsFiniteSet({"third"}) /\ IsFiniteSet({"depreciation"})
        /\ IsFiniteSet({"waste"}) /\ IsFiniteSet({"ads"}) /\ IsFiniteSet({"admin"})
    BY FS_Singleton
  <2>2. Elements = {"mp"} \union ({"mod"} \union {"cip"})
    BY DEF Elements
  <2>3. Optional = {"variance"} \union ({"third"} \union ({"depreciation"} \union {"waste"}))
    BY DEF Optional
  <2>4. {"ads", "admin"} = {"ads"} \union {"admin"}
    OBVIOUS
  <2>5. IsFiniteSet(Elements)
    BY <2>1, <2>2, FS_Union
  <2>6. IsFiniteSet({"third"} \union ({"depreciation"} \union {"waste"}))
    BY <2>1, FS_Union
  <2>7. IsFiniteSet(Optional)
    BY <2>1, <2>3, <2>6, FS_Union
  <2>8. IsFiniteSet({"ads", "admin"})
    <3>1. IsFiniteSet({"ads"} \union {"admin"})
      BY <2>1, FS_Union
    <3> QED BY <3>1, <2>4
  <2> QED BY <2>5, <2>7, <2>8, FS_Union
<1>2. IsFiniteSet(D) /\ {"ads", "admin"} \subseteq D
  <2>1. D \subseteq Elements \union Optional \union {"ads", "admin"} /\ {"ads", "admin"} \subseteq D
    BY DEF Present
  <2> QED BY <1>1, <2>1, FS_Subset
<1>3. DOMAIN a = D /\ \A i \in D : a[i] =
        IF i = "ads" THEN Times(o.adsPerUnit, o.sold) ELSE IF i = "admin" THEN o.admin ELSE o.amount[i]
  BY DEF AmountOf
<1>4. IsFraction(Times(o.adsPerUnit, o.sold)) /\ IsFraction(o.admin)
  BY FractionOps DEF IsOutput
<1>5. ASSUME NEW i \in D, i # "ads", i # "admin" PROVE IsFraction(o.amount[i])
  BY <1>5 DEF Present, IsOutput
<1> HIDE DEF D, a
<1>6. AreFractions(a, D)
  BY <1>3, <1>4, <1>5 DEF AreFractions
<1> QED BY <1>2, <1>3, <1>6 DEF D, a

\* The variable and the fixed part of each item.
LEMMA PartsAre ==
  ASSUME NEW o, IsOutput(o), NEW t, IsTrace(t, o)
  PROVE  LET a == AmountOf(o)
         IN /\ DOMAIN t = Present(o)
            /\ AreFractions(Variable(a, t), Present(o)) /\ AreFractions(Fixed(a, t), Present(o))
<1> DEFINE D == Present(o)
           a == AmountOf(o)
<1>1. DOMAIN t = D /\ \A i \in D : IsTraced(t[i])
  BY DEF IsTrace
<1>2. \A i \in D : IsFraction(a[i])
  BY ItemsAre DEF AreFractions
<1>3. IsFraction(Zero)
  BY ZeroAmount
<1>4. ASSUME NEW i \in D
      PROVE  IsFraction(Default(t[i].fixed, Zero)) /\ IsFraction(Default(t[i].variable, Zero))
  BY <1>1, <1>3 DEF IsTraced, Default, Given
<1>5. \A i \in D :
        /\ Variable(a, t)[i] = IF t[i].kind = "VARIABLE" THEN a[i]
                               ELSE IF t[i].kind = "SEMIFIJO" THEN Default(t[i].variable, Zero) ELSE Zero
        /\ Fixed(a, t)[i] = IF t[i].kind = "FIJO" THEN a[i]
                            ELSE IF t[i].kind = "SEMIFIJO" THEN Default(t[i].fixed, Zero) ELSE Zero
  BY <1>1 DEF Variable, Fixed
<1> HIDE DEF D, a
<1>6. AreFractions(Variable(a, t), D)
  BY <1>2, <1>3, <1>4, <1>5 DEF AreFractions
<1>7. AreFractions(Fixed(a, t), D)
  BY <1>2, <1>3, <1>4, <1>5 DEF AreFractions
<1> QED BY <1>1, <1>6, <1>7 DEF D, a

\* The margin of a unit, when all that was produced was sold.
LEMMA UnitMarginIs ==
  ASSUME NEW o, IsOutput(o), NEW t, IsTrace(t, o), o.produced = o.sold, IsPositive(o.sold)
  PROVE  LET a == AmountOf(o)
             D == Present(o)
             v == Variable(a, t)
             cm == UnitMargin(o, a, t)
         IN /\ cm = Minus(o.price, Plus(Over(SumOver(v, D \ {"ads", "admin"}), o.sold),
                                        Over(SumOver(v, {"ads", "admin"}), o.sold)))
            /\ IsFraction(SumOver(v, D \ {"ads", "admin"})) /\ IsFraction(SumOver(v, {"ads", "admin"}))
            /\ SumOver(v, D) = Plus(SumOver(v, D \ {"ads", "admin"}), SumOver(v, {"ads", "admin"}))
            /\ IsFraction(cm) /\ Times(cm, o.sold) = Minus(Times(o.price, o.sold), SumOver(v, D))
            /\ cm = Over(Minus(Times(o.price, o.sold), SumOver(v, D)), o.sold)
            /\ IsFraction(SumOver(v, D)) /\ IsFraction(SumOver(Fixed(a, t), D))
            /\ PointOf(o, a, t) = Over(SumOver(Fixed(a, t), D), cm)
<1> DEFINE D == Present(o)
           a == AmountOf(o)
           v == Variable(a, t)
           f == Fixed(a, t)
           cm == UnitMargin(o, a, t)
<1>1. /\ IsFiniteSet(D) /\ "ads" \in D /\ "admin" \in D
      /\ DOMAIN t = D /\ AreFractions(v, D) /\ AreFractions(f, D)
  BY ItemsAre, PartsAre
<1>2. Base(o) = o.sold
  BY DEF Base
<1>3. cm = Minus(o.price, Plus(Over(SumOver(v, D \ {"ads", "admin"}), o.sold),
                                Over(SumOver(v, {"ads", "admin"}), o.sold)))
  BY <1>1, <1>2 DEF UnitMargin
<1>4. PointOf(o, a, t) = Over(SumOver(f, D), cm)
  BY <1>1 DEF PointOf
<1> HIDE DEF D, a, v, f, cm
<1>5. /\ SumOver(v, D) = Plus(SumOver(v, D \ {"ads", "admin"}), SumOver(v, {"ads", "admin"}))
      /\ IsFraction(SumOver(v, D \ {"ads", "admin"})) /\ IsFraction(SumOver(v, {"ads", "admin"}))
  BY <1>1, TwoApart, "ads" # "admin"
<1>6. IsFraction(SumOver(v, D)) /\ IsFraction(SumOver(f, D))
  BY <1>1, SumType
<1>7. IsFraction(o.price) /\ IsFraction(o.sold)
  BY DEF IsOutput
<1>8. /\ IsFraction(cm) /\ Times(cm, o.sold) = Minus(Times(o.price, o.sold), SumOver(v, D))
      /\ cm = Over(Minus(Times(o.price, o.sold), SumOver(v, D)), o.sold)
  BY <1>3, <1>5, <1>7, MarginTimesUnits
<1> QED BY <1>3, <1>4, <1>5, <1>6, <1>8 DEF D, a, v, f, cm

\* What is shown, by its status.
LEMMA PointIs ==
  ASSUME NEW o, NEW a, NEW t, BreakEven(o, a, t).status = "point"
  PROVE  /\ Unclassified(a, t) = {} /\ Unseparated(a, t) = {} /\ IsPositive(o.sold)
         /\ IsPositive(UnitMargin(o, a, t))
         /\ Managed(o, BreakEven(o, a, t)).cm = Times(UnitMargin(o, a, t), o.factor)
         /\ Managed(o, BreakEven(o, a, t)).q = Over(PointOf(o, a, t), o.factor)
<1> DEFINE b == BreakEven(o, a, t)
<1>0. b.status = "point"
  OBVIOUS
<1>1. PICK low, high : ZoneOf(o, a, t) = [status |-> "incomplete"]
        \/ ZoneOf(o, a, t) = [status |-> "zone", low |-> low, high |-> high]
  BY Zenon DEF ZoneOf
<1>2. ZoneOf(o, a, t).status # "point"
  BY <1>1
<1>3. PICK cm, q : cm = UnitMargin(o, a, t) /\ q = PointOf(o, a, t)
  OBVIOUS
<1>4. /\ Unclassified(a, t) \union Unseparated(a, t) = {} /\ IsPositive(o.sold)
      /\ b = IF IsPositive(cm) THEN [status |-> "point", cm |-> cm, q |-> q]
             ELSE [status |-> "no point", cm |-> cm]
  BY <1>2, <1>3 DEF BreakEven
<1>5. IsPositive(cm)
  <2> SUFFICES ASSUME ~IsPositive(cm) PROVE FALSE
    OBVIOUS
  <2>1. b = [status |-> "no point", cm |-> cm]
    BY <1>4
  <2> HIDE DEF b
  <2>2. b.status = "no point"
    BY <2>1, Zenon
  <2> QED BY <2>2, <1>0
<1>6. b = [status |-> "point", cm |-> cm, q |-> q]
  BY <1>4, <1>5
<1> HIDE DEF b
<1>7. Managed(o, b) = [b EXCEPT !.cm = Times(b.cm, o.factor), !.q = Over(b.q, o.factor)]
  BY <1>6 DEF Managed
<1>8. Managed(o, b).cm = Times(cm, o.factor) /\ Managed(o, b).q = Over(q, o.factor)
  BY <1>6, <1>7
<1> QED BY <1>3, <1>4, <1>5, <1>8 DEF b

LEMMA PointStands ==
  ASSUME NEW o, NEW a, NEW t, Unclassified(a, t) = {}, Unseparated(a, t) = {}, IsPositive(o.sold),
         IsPositive(UnitMargin(o, a, t))
  PROVE  BreakEven(o, a, t).status = "point" /\ BreakEven(o, a, t).q = PointOf(o, a, t)
<1>1. BreakEven(o, a, t)
        = [status |-> "point", cm |-> UnitMargin(o, a, t), q |-> PointOf(o, a, t)]
  BY DEF BreakEven
<1> QED BY <1>1

LEMMA ZoneIs ==
  ASSUME NEW o, NEW a, NEW t, BreakEven(o, a, t).status = "zone"
  PROVE  LET open == Unclassified(a, t)
             low == As(OnlyWhole(t), open, "VARIABLE")
             high == As(OnlyWhole(t), open, "FIJO")
             b == BreakEven(o, a, t)
         IN /\ IsPositive(o.sold) /\ IsPositive(UnitMargin(o, a, low))
            /\ b.low = PointOf(o, a, low)
            /\ Managed(o, b).low = Over(PointOf(o, a, low), o.factor)
            /\ Managed(o, b).high = Over(PointOf(o, a, high), o.factor)
<1> DEFINE open == Unclassified(a, t)
           low == As(OnlyWhole(t), open, "VARIABLE")
           high == As(OnlyWhole(t), open, "FIJO")
           b == BreakEven(o, a, t)
<1>1. PICK x, y : x = PointOf(o, a, low) /\ y = PointOf(o, a, high)
  OBVIOUS
<1>2. b = ZoneOf(o, a, t)
  BY DEF BreakEven
<1>3. /\ IsPositive(o.sold) /\ IsPositive(UnitMargin(o, a, low))
      /\ b = [status |-> "zone", low |-> x, high |-> y]
  BY <1>1, <1>2 DEF ZoneOf
<1> HIDE DEF b, low, high, open
<1>4. Managed(o, b) = [b EXCEPT !.low = Over(b.low, o.factor), !.high = Over(b.high, o.factor)]
  BY <1>3 DEF Managed
<1>5. /\ b.low = x /\ Managed(o, b).low = Over(x, o.factor)
      /\ Managed(o, b).high = Over(y, o.factor)
  BY <1>3, <1>4
<1> QED BY <1>1, <1>3, <1>5 DEF b, low, high, open

\* Where the costs of the month are classified, the margin and the point tell its result.
LEMMA TellsTheResult ==
  ASSUME NEW o, IsOutput(o), NEW t, IsTrace(t, o), o.produced = o.sold,
         BreakEven(o, AmountOf(o), t).status = "point"
  PROVE  LET a == AmountOf(o)
             read == Managed(o, BreakEven(o, a, t))
         IN /\ Times(read.cm, Minus(Over(o.sold, o.factor), read.q))
                 = Minus(Times(o.price, o.sold), SumOver(Borne(a, t), DOMAIN a))
            /\ \A i \in DOMAIN a : a[i] # Zero => ~Differ(Borne(a, t)[i], a[i])
<1> DEFINE D == Present(o)
           a == AmountOf(o)
           v == Variable(a, t)
           f == Fixed(a, t)
           e == Borne(a, t)
           cm == UnitMargin(o, a, t)
           read == Managed(o, BreakEven(o, a, t))
           V == SumOver(v, D)
           F == SumOver(f, D)
<1>1. /\ IsFiniteSet(D) /\ DOMAIN a = D /\ DOMAIN t = D /\ AreFractions(a, D)
      /\ AreFractions(v, D) /\ AreFractions(f, D)
  BY ItemsAre, PartsAre
<1>2. /\ Unclassified(a, t) = {} /\ Unseparated(a, t) = {} /\ IsPositive(o.sold) /\ IsPositive(cm)
      /\ read.cm = Times(cm, o.factor) /\ read.q = Over(PointOf(o, a, t), o.factor)
  BY PointIs
<1>3. /\ IsFraction(cm) /\ Times(cm, o.sold) = Minus(Times(o.price, o.sold), V)
      /\ IsFraction(V) /\ IsFraction(F) /\ PointOf(o, a, t) = Over(F, cm)
  BY <1>2, UnitMarginIs
<1>4. \A i \in D : IsTraced(t[i])
  BY DEF IsTrace
<1>5. \A i \in D :
        /\ v[i] = IF t[i].kind = "VARIABLE" THEN a[i]
                  ELSE IF t[i].kind = "SEMIFIJO" THEN Default(t[i].variable, Zero) ELSE Zero
        /\ f[i] = IF t[i].kind = "FIJO" THEN a[i]
                  ELSE IF t[i].kind = "SEMIFIJO" THEN Default(t[i].fixed, Zero) ELSE Zero
        /\ e[i] = IF t[i].kind = "SEMIFIJO"
                    THEN Plus(Default(t[i].fixed, Zero), Default(t[i].variable, Zero)) ELSE a[i]
  BY <1>1 DEF Variable, Fixed, Borne
<1>6. \A i \in D : a[i] # Zero =>
        /\ t[i].kind # "none"
        /\ t[i].kind = "SEMIFIJO" => Given(t[i].fixed) /\ ~Differ(Plus(t[i].fixed, t[i].variable), a[i])
  BY <1>1, <1>2 DEF Unclassified, Unseparated
<1> HIDE DEF a, v, f, e, cm, read, D
<1>7. \A i \in D : e[i] = Plus(v[i], f[i])
  <2> SUFFICES ASSUME NEW i \in D PROVE e[i] = Plus(v[i], f[i])
    OBVIOUS
  <2>1. IsFraction(a[i]) /\ IsFraction(v[i]) /\ IsFraction(f[i]) /\ IsFraction(Zero)
    BY <1>1, ZeroAmount DEF AreFractions
  <2>2. Plus(a[i], Zero) = a[i] /\ Plus(Zero, a[i]) = a[i] /\ Plus(Zero, Zero) = Zero
    BY <2>1, PlusZero
  <2>3. Plus(v[i], f[i]) = Plus(f[i], v[i])
    BY <2>1, PlusLaws
  <2>4. t[i].kind \in {"VARIABLE", "FIJO", "SEMIFIJO", "none"}
    BY <1>4 DEF IsTraced, Behaviours
  <2>5. CASE t[i].kind = "VARIABLE"
    BY <1>5, <2>2, <2>5
  <2>6. CASE t[i].kind = "FIJO"
    BY <1>5, <2>2, <2>6
  <2>7. CASE t[i].kind = "SEMIFIJO"
    BY <1>5, <2>3, <2>7
  <2>8. CASE t[i].kind = "none"
    BY <1>5, <1>6, <2>2, <2>8
  <2> QED BY <2>4, <2>5, <2>6, <2>7, <2>8
<1>8. SumOver(e, D) = Plus(V, F)
  BY <1>1, <1>7, SumPlus
<1>9. /\ IsFraction(o.sold) /\ IsFraction(o.factor) /\ IsPositive(o.factor)
      /\ IsFraction(Times(o.price, o.sold))
  BY FractionOps DEF IsOutput
<1>10. Times(read.cm, Minus(Over(o.sold, o.factor), read.q)) = Minus(Times(cm, o.sold), F)
  BY <1>2, <1>3, <1>9, SoldBeyondThePoint
<1>11. Minus(Times(cm, o.sold), F) = Minus(Times(o.price, o.sold), Plus(V, F))
  BY <1>3, <1>9, MinusTwice
<1>12. \A i \in D : a[i] # Zero => ~Differ(e[i], a[i])
  <2> SUFFICES ASSUME NEW i \in D, a[i] # Zero PROVE ~Differ(e[i], a[i])
    OBVIOUS
  <2>1. CASE t[i].kind # "SEMIFIJO"
    BY <1>1, <1>5, <2>1, NoDifference DEF AreFractions
  <2>2. CASE t[i].kind = "SEMIFIJO"
    <3>1. Given(t[i].fixed) /\ ~Differ(Plus(t[i].fixed, t[i].variable), a[i])
      BY <1>6, <2>2
    <3>2. Default(t[i].fixed, Zero) = t[i].fixed /\ Default(t[i].variable, Zero) = t[i].variable
      <4>1. Given(t[i].variable)
        BY <1>4, <3>1, AmountGiven DEF IsTraced, Given
      <4> QED BY <3>1, <4>1 DEF Default
    <3> QED BY <1>5, <2>2, <3>1, <3>2
  <2> QED BY <2>1, <2>2
<1> QED BY <1>1, <1>8, <1>10, <1>11, <1>12 DEF a, e, read

-----------------------------------------------------------------------------
(* Margin: the classifications that may still come.                          *)

\* In u the open items of t are fixed when they are of S, and variable when not.
Assigned(u, t, S, open) ==
  /\ u = [i \in DOMAIN t |-> u[i]]
  /\ \A i \in DOMAIN t : u[i] =
       [kind |-> IF i \in S THEN "FIJO" ELSE IF i \in open THEN "VARIABLE" ELSE t[i].kind,
        fixed |-> NoData, variable |-> NoData]

\* A trace of which no item is half fixed.
IsPlain(t, o) == IsTrace(t, o) /\ \A i \in Present(o) : t[i].kind # "SEMIFIJO"

\* Such a trace has no portions, and leaving them out changes nothing.
LEMMA PlainItems ==
  ASSUME NEW o, NEW t, IsPlain(t, o)
  PROVE  /\ DOMAIN t = Present(o) /\ OnlyWhole(t) = t
         /\ \A i \in Present(o) : t[i] = [kind |-> t[i].kind, fixed |-> NoData, variable |-> NoData]
<1>1. /\ t = [i \in Present(o) |-> t[i]]
      /\ \A i \in Present(o) : t[i].kind # "SEMIFIJO" /\ IsTraced(t[i])
  BY DEF IsPlain, IsTrace
<1>2. OnlyWhole(t) = [i \in Present(o) |-> t[i]]
  BY <1>1 DEF OnlyWhole
<1> QED BY <1>1, <1>2 DEF IsTraced

\* The ends of the zone, and what lies between them, are assignments of the open items.
LEMMA AssignedBy ==
  ASSUME NEW o, NEW t, IsPlain(t, o), NEW open, NEW S, S \subseteq open, open \subseteq Present(o)
  PROVE  /\ Assigned(As(As(t, S, "FIJO"), open \ S, "VARIABLE"), t, S, open)
         /\ S = {} => Assigned(As(t, open, "VARIABLE"), t, S, open)
         /\ S = open => Assigned(As(t, open, "FIJO"), t, S, open)
<1> DEFINE D == Present(o)
<1>1. /\ DOMAIN t = D
      /\ \A i \in D : t[i] = [kind |-> t[i].kind, fixed |-> NoData, variable |-> NoData]
  BY PlainItems
<1>2. ASSUME NEW i \in D, NEW k
      PROVE  [t[i] EXCEPT !.kind = k] = [kind |-> k, fixed |-> NoData, variable |-> NoData]
  <2>1. PICK e : e = t[i]
    OBVIOUS
  <2>2. PICK j : e = [kind |-> j, fixed |-> NoData, variable |-> NoData]
    BY <1>1, <2>1
  <2>3. [e EXCEPT !.kind = k] = [kind |-> k, fixed |-> NoData, variable |-> NoData]
    BY <2>2
  <2> QED BY <2>1, <2>3
<1>3. ASSUME NEW k, NEW T
      PROVE  /\ DOMAIN As(t, T, k) = D /\ As(t, T, k) = [i \in D |-> As(t, T, k)[i]]
             /\ \A i \in D : As(t, T, k)[i] = IF i \in T
                  THEN [kind |-> k, fixed |-> NoData, variable |-> NoData] ELSE t[i]
  <2>1. As(t, T, k) = [i \in D |-> IF i \in T THEN [t[i] EXCEPT !.kind = k] ELSE t[i]]
    BY <1>1 DEF As
  <2> QED BY <1>2, <2>1
<1>4. PICK w : w = As(t, S, "FIJO")
  OBVIOUS
<1>5. PICK u : u = As(w, open \ S, "VARIABLE")
  OBVIOUS
<1>6. DOMAIN w = D /\ \A i \in D : w[i] = IF i \in S
                  THEN [kind |-> "FIJO", fixed |-> NoData, variable |-> NoData] ELSE t[i]
  BY <1>3, <1>4
<1>7. /\ u = [i \in D |-> u[i]]
      /\ \A i \in D : u[i] = IF i \in open \ S THEN [w[i] EXCEPT !.kind = "VARIABLE"] ELSE w[i]
  BY <1>5, <1>6 DEF As
<1>8. \A i \in D : i \notin S => w[i] = t[i]
  BY <1>6
<1>9. Assigned(u, t, S, open)
  <2>1. ASSUME NEW i \in D PROVE u[i] =
          [kind |-> IF i \in S THEN "FIJO" ELSE IF i \in open THEN "VARIABLE" ELSE t[i].kind,
           fixed |-> NoData, variable |-> NoData]
    <3>1. CASE i \in S
      BY <1>6, <1>7, <3>1
    <3>2. CASE i \in open \ S
      <4>1. u[i] = [t[i] EXCEPT !.kind = "VARIABLE"]
        BY <1>7, <1>8, <3>2
      <4> QED BY <4>1, <1>2, <3>2
    <3>3. CASE i \notin open
      BY <1>1, <1>7, <1>8, <3>3
    <3> QED BY <3>1, <3>2, <3>3
  <2> QED BY <1>1, <1>7, <2>1 DEF Assigned
<1>10. S = {} => Assigned(As(t, open, "VARIABLE"), t, S, open)
  BY <1>1, <1>3 DEF Assigned
<1>11. S = open => Assigned(As(t, open, "FIJO"), t, S, open)
  BY <1>1, <1>3 DEF Assigned
<1> QED BY <1>4, <1>5, <1>9, <1>10, <1>11

\* What an assignment of the open items makes of the margin and of the break-even point: F and
\* M are the fixed costs and the margin of the sales when all that is open is variable.
AllFixed(o, t) == SumOver(Fixed(AmountOf(o), t), Present(o))
LeastMargin(o, t, open) ==
  Minus(Times(o.price, o.sold),
        Plus(SumOver(Variable(AmountOf(o), t), Present(o)), SumOver(AmountOf(o), open)))

\* The margin and the point of an assignment, by what is fixed of the open items.
LEMMA AssignedPoint ==
  ASSUME NEW o, IsOutput(o), o.produced = o.sold, IsPositive(o.sold), NEW t, IsPlain(t, o),
         NEW S, S \subseteq Unclassified(AmountOf(o), t),
         NEW u, Assigned(u, t, S, Unclassified(AmountOf(o), t))
  PROVE  LET a == AmountOf(o)
             open == Unclassified(a, t)
             x == SumOver(a, S)
             cm == Over(Plus(LeastMargin(o, t, open), x), o.sold)
         IN /\ Unclassified(a, u) = {} /\ Unseparated(a, u) = {}
            /\ UnitMargin(o, a, u) = cm
            /\ PointOf(o, a, u) = Over(Plus(AllFixed(o, t), x), cm)
            /\ IsFraction(LeastMargin(o, t, open)) /\ IsFraction(AllFixed(o, t))
<1> DEFINE a == AmountOf(o)
           D == Present(o)
           open == Unclassified(a, t)
           V == SumOver(Variable(a, t), D)
           F == SumOver(Fixed(a, t), D)
           R == Times(o.price, o.sold)
<1>1. /\ IsFiniteSet(D) /\ DOMAIN a = D /\ AreFractions(a, D)
      /\ DOMAIN t = D /\ AreFractions(Variable(a, t), D) /\ AreFractions(Fixed(a, t), D)
  BY ItemsAre, PartsAre DEF IsPlain
<1>2. \A i \in D : /\ t[i] = [kind |-> t[i].kind, fixed |-> NoData, variable |-> NoData]
                   /\ t[i].kind \in {"VARIABLE", "FIJO", "none"}
  BY PlainItems DEF IsPlain, IsTrace, IsTraced, Behaviours
<1>3. open \subseteq D /\ S \subseteq open /\ \A i \in D : i \in open <=> a[i] # Zero /\ t[i].kind = "none"
  BY <1>1 DEF Unclassified
<1>4. /\ u = [i \in D |-> u[i]]
      /\ \A i \in D : u[i] =
           [kind |-> IF i \in S THEN "FIJO" ELSE IF i \in open THEN "VARIABLE" ELSE t[i].kind,
            fixed |-> NoData, variable |-> NoData]
  BY <1>1 DEF Assigned
<1>5. \A i \in D :
        u[i].kind = IF i \in S THEN "FIJO" ELSE IF i \in open THEN "VARIABLE" ELSE t[i].kind
  BY <1>4
<1>6. DOMAIN u = D
  BY <1>4
<1>7. \A i \in D :
        /\ Variable(a, t)[i] = IF t[i].kind = "VARIABLE" THEN a[i]
                               ELSE IF t[i].kind = "SEMIFIJO" THEN Default(t[i].variable, Zero) ELSE Zero
        /\ Fixed(a, t)[i] = IF t[i].kind = "FIJO" THEN a[i]
                            ELSE IF t[i].kind = "SEMIFIJO" THEN Default(t[i].fixed, Zero) ELSE Zero
        /\ Variable(a, u)[i] = IF u[i].kind = "VARIABLE" THEN a[i]
                               ELSE IF u[i].kind = "SEMIFIJO" THEN Default(u[i].variable, Zero) ELSE Zero
        /\ Fixed(a, u)[i] = IF u[i].kind = "FIJO" THEN a[i]
                            ELSE IF u[i].kind = "SEMIFIJO" THEN Default(u[i].fixed, Zero) ELSE Zero
  BY <1>1, <1>6 DEF Variable, Fixed
<1>8. IsTrace(u, o)
  <2>1. \A i \in D : IsTraced(u[i])
    BY <1>2, <1>4, <1>5 DEF IsTraced, Behaviours
  <2>2. "ads" \in D /\ "admin" \in D /\ t["ads"].kind = "VARIABLE" /\ t["admin"].kind = "FIJO"
    BY ItemsAre DEF IsPlain, IsTrace
  <2>3. "ads" \notin open /\ "admin" \notin open
    BY <1>3, <2>2
  <2>4. u["ads"].kind = "VARIABLE" /\ u["admin"].kind = "FIJO"
    BY <1>3, <1>5, <2>2, <2>3
  <2> QED BY <1>4, <2>1, <2>4 DEF IsTrace
<1>9. Unclassified(a, u) = {} /\ Unseparated(a, u) = {}
  <2>1. \A i \in D : a[i] # Zero => u[i].kind \notin {"none", "SEMIFIJO"}
    BY <1>2, <1>3, <1>5
  <2> QED BY <1>6, <2>1 DEF Unclassified, Unseparated
<1> DEFINE cm == UnitMargin(o, a, u)
           x == SumOver(a, S)
           y == SumOver(a, open \ S)
<1>10. /\ cm = Over(Minus(R, SumOver(Variable(a, u), D)), o.sold)
       /\ PointOf(o, a, u) = Over(SumOver(Fixed(a, u), D), cm)
  BY <1>8, UnitMarginIs
<1>11. LeastMargin(o, t, open) = Minus(R, Plus(V, SumOver(a, open))) /\ AllFixed(o, t) = F
  BY DEF LeastMargin, AllFixed
<1>12. /\ S \subseteq D /\ open \ S \subseteq D /\ IsFiniteSet(S) /\ IsFiniteSet(open \ S)
       /\ IsFiniteSet(open) /\ AreFractions(a, S) /\ AreFractions(a, open) /\ AreFractions(a, open \ S)
  BY <1>1, <1>3, FS_Subset DEF AreFractions
<1> DEFINE v == Variable(a, t)
           vu == Variable(a, u)
           f == Fixed(a, t)
           fu == Fixed(a, u)
<1>13. \A i \in D : /\ i \in open \ S => vu[i] = a[i] /\ v[i] = Zero
                    /\ i \notin open \ S => vu[i] = v[i]
                    /\ i \in S => fu[i] = a[i] /\ f[i] = Zero
                    /\ i \notin S => fu[i] = f[i]
  <2> SUFFICES ASSUME NEW i \in D
               PROVE  /\ i \in open \ S => vu[i] = a[i] /\ v[i] = Zero
                      /\ i \notin open \ S => vu[i] = v[i]
                      /\ i \in S => fu[i] = a[i] /\ f[i] = Zero
                      /\ i \notin S => fu[i] = f[i]
    OBVIOUS
  <2>1. /\ v[i] = IF t[i].kind = "VARIABLE" THEN a[i] ELSE Zero
        /\ f[i] = IF t[i].kind = "FIJO" THEN a[i] ELSE Zero
        /\ vu[i] = IF u[i].kind = "VARIABLE" THEN a[i] ELSE Zero
        /\ fu[i] = IF u[i].kind = "FIJO" THEN a[i] ELSE Zero
    BY <1>2, <1>5, <1>7
  <2> HIDE DEF v, vu, f, fu, a, open, D
  <2>2. CASE i \in S
    <3>1. t[i].kind = "none" /\ u[i].kind = "FIJO" /\ i \in open
      BY <1>3, <1>5, <2>2
    <3> QED BY <2>1, <2>2, <3>1
  <2>3. CASE i \in open \ S
    <3>1. t[i].kind = "none" /\ u[i].kind = "VARIABLE"
      BY <1>3, <1>5, <2>3
    <3> QED BY <2>1, <2>3, <3>1
  <2>4. CASE i \notin open
    <3>1. t[i].kind = u[i].kind /\ i \notin S
      BY <1>3, <1>5, <2>4
    <3> QED BY <2>1, <2>4, <3>1
  <2> QED BY <2>2, <2>3, <2>4
<1>14. AreFractions(v, D) /\ AreFractions(f, D)
  BY <1>1
<1> HIDE DEF v, vu, f, fu, a, D, open
<1>15. SumOver(vu, D) = Plus(SumOver(v, D), y)
  BY <1>1, <1>12, <1>13, <1>14, SumWithPart
<1>16. SumOver(fu, D) = Plus(SumOver(f, D), x)
  BY <1>1, <1>12, <1>13, <1>14, SumWithPart
<1>17. SumOver(a, open) = Plus(y, x)
  BY <1>3, <1>12, SumInTwo
<1>18. /\ IsFraction(x) /\ IsFraction(y) /\ IsFraction(SumOver(v, D)) /\ IsFraction(SumOver(f, D))
       /\ IsFraction(R) /\ IsFraction(SumOver(a, open))
  BY <1>1, <1>12, <1>14, SumType, FractionOps DEF IsOutput
<1>19. Minus(R, Plus(SumOver(v, D), y)) = Plus(Minus(R, Plus(SumOver(v, D), Plus(y, x))), x)
  BY <1>18, TakenLess
<1>20. IsFraction(Plus(SumOver(v, D), SumOver(a, open)))
  BY <1>18, FractionOps
<1>21. IsFraction(Minus(R, Plus(SumOver(v, D), SumOver(a, open))))
  BY <1>18, <1>20, FractionOps
<1> QED BY <1>9, <1>10, <1>11, <1>15, <1>16, <1>17, <1>18, <1>19, <1>21
        DEF v, vu, f, fu, a, D, open

\* The zone holds the point of every assignment of the open items.
LEMMA ZoneHolds ==
  ASSUME NEW o, IsOutput(o), o.produced = o.sold, NEW t, IsPlain(t, o),
         BreakEven(o, AmountOf(o), t).status = "zone",
         AtMost(BreakEven(o, AmountOf(o), t).low, o.sold),
         \A i \in Unclassified(AmountOf(o), t) : ~IsNegative(AmountOf(o)[i]),
         NEW S, S \subseteq Unclassified(AmountOf(o), t)
  PROVE  LET a == AmountOf(o)
             open == Unclassified(a, t)
             read == Managed(o, BreakEven(o, a, t))
             b == BreakEven(o, a, As(As(t, S, "FIJO"), open \ S, "VARIABLE"))
             q == Over(b.q, o.factor)
         IN b.status = "point" /\ AtMost(read.low, q) /\ AtMost(q, read.high)
<1> DEFINE a == AmountOf(o)
           D == Present(o)
           open == Unclassified(a, t)
           read == Managed(o, BreakEven(o, a, t))
           u == As(As(t, S, "FIJO"), open \ S, "VARIABLE")
           low == As(t, open, "VARIABLE")
           high == As(t, open, "FIJO")
           n == o.sold
           M == LeastMargin(o, t, open)
           F == AllFixed(o, t)
           x == SumOver(a, S)
           y == SumOver(a, open \ S)
           all == SumOver(a, open)
<1>1. OnlyWhole(t) = t /\ DOMAIN t = D
  BY PlainItems
<1>2. /\ IsPositive(n) /\ IsPositive(UnitMargin(o, a, low))
      /\ AtMost(PointOf(o, a, low), n)
      /\ read.low = Over(PointOf(o, a, low), o.factor)
      /\ read.high = Over(PointOf(o, a, high), o.factor)
  BY <1>1, ZoneIs
<1>3. open \subseteq D
  BY <1>1 DEF Unclassified
<1>4. Assigned(u, t, S, open) /\ Assigned(low, t, {}, open) /\ Assigned(high, t, open, open)
  BY <1>3, AssignedBy
<1>5. IsFiniteSet(D) /\ AreFractions(a, D)
  BY ItemsAre
<1>6. SumOver(a, {}) = Zero
  BY SumEmpty
<1>7. /\ UnitMargin(o, a, low) = Over(Plus(M, Zero), n)
      /\ PointOf(o, a, low) = Over(Plus(F, Zero), Over(Plus(M, Zero), n))
      /\ IsFraction(M) /\ IsFraction(F)
  BY <1>2, <1>4, <1>6, AssignedPoint
<1>8. /\ Unclassified(a, u) = {} /\ Unseparated(a, u) = {}
      /\ UnitMargin(o, a, u) = Over(Plus(M, x), n)
      /\ PointOf(o, a, u) = Over(Plus(F, x), Over(Plus(M, x), n))
  <2> HIDE DEF u, low, high
  <2>1. Assigned(u, t, S, open) /\ IsPositive(o.sold)
    BY <1>2, <1>4
  <2> QED BY <2>1, AssignedPoint
<1>9. PointOf(o, a, high) = Over(Plus(F, all), Over(Plus(M, all), n))
  BY <1>2, <1>4, AssignedPoint
<1>10. \A i \in open : ~IsNegative(a[i])
  OBVIOUS
<1>11. IsFraction(n) /\ IsFraction(o.factor) /\ IsPositive(o.factor)
  BY DEF IsOutput
<1>12. S \subseteq open
  OBVIOUS
<1> DEFINE b == BreakEven(o, a, u)
<1>13. IsPositive(UnitMargin(o, a, u)) => b.status = "point" /\ b.q = PointOf(o, a, u)
  BY <1>2, <1>8, PointStands
<1> SUFFICES b.status = "point" /\ AtMost(read.low, Over(b.q, o.factor))
                                /\ AtMost(Over(b.q, o.factor), read.high)
  OBVIOUS
<1> HIDE DEF a, D, open, read, u, low, high, n, M, F, b
<1>14. /\ IsFiniteSet(S) /\ IsFiniteSet(open \ S) /\ IsFiniteSet(open)
       /\ \A i \in open : IsAmount(a[i])
  BY <1>3, <1>5, <1>10, <1>12, FS_Subset DEF AreFractions, IsAmount
<1>15. IsAmount(x) /\ IsAmount(y) /\ AreFractions(a, open)
  BY <1>12, <1>14, SumOfAmounts DEF AreFractions, IsAmount
<1>16. IsFraction(x) /\ ~IsNegative(x) /\ IsFraction(y)
  BY <1>15 DEF IsAmount
<1>17. all = Plus(x, y)
  <2>1. all = Plus(y, x)
    BY <1>12, <1>14, <1>15, SumInTwo
  <2> QED BY <2>1, <1>16, PlusLaws
<1> HIDE DEF x, y, all
<1>18. Plus(M, Zero) = M /\ Plus(F, Zero) = F
  BY <1>7, PlusZero
<1>19. /\ IsPositive(Over(M, n)) /\ AtMost(Over(F, Over(M, n)), n)
  BY <1>2, <1>7, <1>18
<1>20. IsPositive(M)
  BY <1>2, <1>7, <1>11, <1>19, PositiveOver
<1>21. AtMost(F, M)
  BY <1>2, <1>7, <1>11, <1>19, <1>20, PointWithinSales
<1>22. /\ IsFraction(Plus(M, x)) /\ IsFraction(Plus(F, x))
       /\ IsPositive(Plus(M, x)) /\ AtMost(Plus(F, x), Plus(M, x)) /\ IsPositive(Over(Plus(M, x), n))
  BY <1>2, <1>7, <1>11, <1>16, <1>20, <1>21, PositiveOver, BothRaised
<1>23. AtMost(PointOf(o, a, low), PointOf(o, a, u))
  BY <1>2, <1>7, <1>8, <1>11, <1>15, <1>18, <1>20, <1>21, PointRises
<1>24. Plus(M, all) = Plus(Plus(M, x), y) /\ Plus(F, all) = Plus(Plus(F, x), y)
  BY <1>7, <1>16, <1>17, PlusLaws
<1>25. AtMost(PointOf(o, a, u), PointOf(o, a, high))
  BY <1>2, <1>8, <1>9, <1>11, <1>15, <1>22, <1>24, PointRises
<1>26. b.status = "point" /\ b.q = PointOf(o, a, u)
  BY <1>8, <1>13, <1>22
<1>27. /\ IsFraction(PointOf(o, a, low)) /\ IsFraction(PointOf(o, a, u))
       /\ IsFraction(PointOf(o, a, high))
  <2>1. IsPositive(Plus(M, all)) /\ IsFraction(Plus(M, all)) /\ IsFraction(Plus(F, all))
    BY <1>7, <1>15, <1>17, <1>20, <1>24, <1>22, BothRaised DEF IsAmount
  <2>2. /\ \A m, f : IsFraction(m) /\ IsPositive(m) /\ IsFraction(f) => IsFraction(Over(f, Over(m, n)))
    BY <1>2, <1>11, PositiveOver, PositiveFacts, FractionOps
  <2> QED BY <1>7, <1>8, <1>9, <1>18, <1>20, <1>22, <2>1, <2>2
<1> QED BY <1>2, <1>11, <1>23, <1>25, <1>26, <1>27, OverKeepsOrder


\* What is shown stands.
LEMMA StandsOf == MarginInv /\ CostsInv => BreakEvenStands
<1> SUFFICES ASSUME CostsInv PROVE BreakEvenStands
  OBVIOUS
<1>1. CASE shown = NotShown
  <2>1. shown.status = "none"
    BY <1>1 DEF NotShown
  <2> QED BY <2>1 DEF BreakEvenStands, MarginTellsTheResult, ZoneHoldsEveryPoint
<1>2. CASE shown # NotShown
  <2>0. PICK o \in Outputs : \E t : IsTrace(t, o) /\ Showing(o, t)
    BY <1>2 DEF CostsInv, ShownInv
  <2>1. PICK t : IsTrace(t, o) /\ Showing(o, t)
    BY <2>0
  <2>2. IsOutput(o)
    BY MarginAssumption
  <2>3. PICK b, read : b = BreakEven(o, AmountOf(o), t) /\ read = Managed(o, BreakEven(o, AmountOf(o), t))
    OBVIOUS
  <2>4. shown = [status |-> b.status, output |-> o, trace |-> t, base |-> b, read |-> read]
    BY <2>1, <2>3 DEF Showing
  <2>5. /\ shown.status = b.status /\ shown.output = o /\ shown.trace = t /\ shown.base = b
        /\ shown.read = read
    BY <2>4
  <2>6. MarginTellsTheResult
    <3> DEFINE a == AmountOf(o)
    <3>1. SUFFICES ASSUME b.status = "point", o.produced = o.sold
                   PROVE  /\ Times(read.cm, Minus(Over(o.sold, o.factor), read.q))
                               = Minus(Times(o.price, o.sold), SumOver(Borne(a, t), DOMAIN a))
                          /\ \A i \in DOMAIN a : a[i] # Zero => ~Differ(Borne(a, t)[i], a[i])
      BY <2>5 DEF MarginTellsTheResult
    <3> QED BY <2>1, <2>2, <2>3, <3>1, TellsTheResult
  <2>7. ZoneHoldsEveryPoint
    <3> DEFINE a == AmountOf(o)
               open == Unclassified(a, t)
    <3>1. SUFFICES ASSUME b.status = "zone", o.produced = o.sold, AtMost(b.low, o.sold),
                          \A i \in DOMAIN t : t[i].kind # "SEMIFIJO",
                          \A i \in open : ~IsNegative(a[i]), NEW S \in SUBSET open
                   PROVE  LET c == BreakEven(o, a, As(As(t, S, "FIJO"), open \ S, "VARIABLE"))
                              q == Over(c.q, o.factor)
                          IN c.status = "point" /\ AtMost(read.low, q) /\ AtMost(q, read.high)
      BY <2>5 DEF ZoneHoldsEveryPoint
    <3>2. IsPlain(t, o)
      BY <2>1, <3>1 DEF IsPlain, IsTrace
    <3>3. S \subseteq open
      BY <3>1
    <3> QED BY <2>2, <2>3, <3>1, <3>2, <3>3, ZoneHolds
  <2> QED BY <2>6, <2>7 DEF BreakEvenStands
<1> QED BY <1>1, <1>2

\* BreakEvenStands, for any rows, separations and outputs of the engine: punto-equilibrio.ts:
\* the point agrees with the result of the month, and the zone holds every point that may come.
THEOREM BreakEvenHolds == MarginSpec => []BreakEvenStands
<1>1. MarginInit => MarginInv /\ CostsInv
  BY MarginStart, CostsStart
<1>2. MarginInv /\ CostsInv /\ [MarginNext]_marginVars => (MarginInv /\ CostsInv)'
  BY MarginStep, CostsStep
<1>3. MarginInv /\ CostsInv => BreakEvenStands
  BY StandsOf
<1> QED BY <1>1, <1>2, <1>3, PTL DEF MarginSpec

-----------------------------------------------------------------------------
(* Ledger.                                                                   *)

IsLine(l) ==
  l = [bill |-> l.bill, condition |-> l.condition, amount |-> l.amount,
       criterion |-> l.criterion, month |-> l.month, live |-> l.live]

\* The line of a bill that nobody corrected is still the one that was computed.
AsComputed(l) ==
  l.criterion # "CARGA_MANUAL" =>
    /\ l.bill \in Bills /\ l.condition \in Conditions
    /\ l.amount = Cost(l.bill, l.condition) /\ l.criterion = Criterion(l.bill, l.condition)
    /\ l.amount > 0

LinesInv ==
  Sequence(lines) /\ \A n \in DOMAIN lines : IsLine(lines[n]) /\ AsComputed(lines[n])

\* What a request holds: the bill and the condition it read; and while no edit put an old
\* condition back, a review whose news still counts read the condition of today.
AskingInv ==
  /\ asking = [r \in Costists |-> asking[r]]
  /\ \A r \in Costists :
       /\ asking[r] = [at |-> asking[r].at, bill |-> asking[r].bill,
                       condition |-> asking[r].condition, news |-> asking[r].news]
       /\ asking[r].at \in {"line", "signal"} =>
            asking[r].bill \in Bills /\ asking[r].condition \in Conditions
       /\ asking[r].at = "company" => asking[r].condition \in Conditions
       /\ asking[r].at = "signal" /\ asking[r].news /\ ~overwritten
            => asking[r].condition = declared
       /\ asking[r].at = "line" /\ asking[r].news /\ ~overwritten
            => asking[r].condition = declared

\* What was approved and contradicts the condition raised the flag.
HeardInv ==
  ~overwritten => \A b \in unheard : Contradicts(b, declared) => suspected

LedgerInv == declared \in Conditions /\ LinesInv /\ AskingInv /\ HeardInv

\* Two of its three amounts are enough to know the third one.
LEMMA TwoAmountsTell ==
  ASSUME NEW b \in Bills, Cardinality(Bill[b].tells) >= 2
  PROVE  \A a, o \in Amounts : a # o => Tells(b, a) \/ Tells(b, o)
<1>1. Bill[b].tells \subseteq {"net", "tax", "total"}
  BY LedgerAssumption DEF Amounts
<1>2. ASSUME NEW a, Bill[b].tells \subseteq {a}
      PROVE  FALSE
  <2>1. IsFiniteSet({a}) /\ Cardinality({a}) = 1
    BY FS_Singleton
  <2>2. Cardinality(Bill[b].tells) <= 1 /\ Cardinality(Bill[b].tells) \in Nat
    BY <1>2, <2>1, FS_Subset, FS_CardinalityType
  <2> QED BY <2>2
<1> QED BY <1>1, <1>2 DEF Amounts, Tells

\* The tax of the bill is in the amount when it is a cost of its company, and is out of it
\* when it is a credit.
LEMMA CostOfTwo ==
  ASSUME NEW b \in Bills, NEW c \in Conditions, Cardinality(Bill[b].tells) >= 2
  PROVE  /\ Cost(b, c) = Bill[b].net + (IF TaxIsCost(c) THEN Bill[b].tax ELSE 0)
         /\ TaxIsCost(c) => Criterion(b, c) = "TOTAL_CON_IVA"
         /\ Cost(b, c) < Bill[b].net + Bill[b].tax => Criterion(b, c) = "NETO_SIN_IVA"
<1>1. Bill[b].net \in Nat \ {0} /\ Bill[b].tax \in Nat
  BY LedgerAssumption
<1>2. \A a, o \in {"net", "tax", "total"} : a # o => Tells(b, a) \/ Tells(b, o)
  BY TwoAmountsTell DEF Amounts
<1>3. CASE TaxIsCost(c)
  BY <1>1, <1>2, <1>3 DEF Cost, Criterion, Net, Tax, Total, NoAmount
<1>4. CASE ~TaxIsCost(c)
  BY <1>1, <1>2, <1>4 DEF Cost, Criterion, NetOfTax, Net, Tax, Total, NoAmount
<1> QED BY <1>3, <1>4

LEMMA LinesFollow == LinesInv => TaxFollowsTheCompany
<1> SUFFICES ASSUME LinesInv, NEW n \in DOMAIN lines, lines[n].criterion # "CARGA_MANUAL",
                    Cardinality(Bill[lines[n].bill].tells) >= 2
             PROVE  LET l == lines[n]
                    IN /\ l.amount = Bill[l.bill].net
                                       + (IF TaxIsCost(l.condition) THEN Bill[l.bill].tax ELSE 0)
                       /\ TaxIsCost(l.condition) => l.criterion = "TOTAL_CON_IVA"
                       /\ l.amount < Bill[l.bill].net + Bill[l.bill].tax =>
                            l.criterion = "NETO_SIN_IVA"
  BY DEF TaxFollowsTheCompany
<1>1. AsComputed(lines[n])
  BY DEF LinesInv
<1> QED BY <1>1, CostOfTwo DEF AsComputed

\* Of the six clues the first one that was found is one of them, and none of them is of a
\* company that recovers the tax.
LEMMA FirstClue ==
  ASSUME NEW found, found \subseteq DOMAIN Clues, found # {}
  PROVE  Min(found) \in found /\ Min(found) \in 1 .. 6
<1>1. DOMAIN Clues = 1 .. 6
  BY SMTT(30) DEF Clues
<1>2. \E m \in found : \A i \in found : m <= i
  <2>1. CASE 1 \in found
    BY <1>1, <2>1
  <2>2. CASE 1 \notin found /\ 2 \in found
    BY <1>1, <2>2
  <2>3. CASE found \intersect {1, 2} = {} /\ 3 \in found
    BY <1>1, <2>3
  <2>4. CASE found \intersect {1, 2, 3} = {} /\ 4 \in found
    BY <1>1, <2>4
  <2>5. CASE found \intersect {1, 2, 3, 4} = {} /\ 5 \in found
    BY <1>1, <2>5
  <2>6. CASE found \intersect {1, 2, 3, 4, 5} = {} /\ 6 \in found
    BY <1>1, <2>6
  <2>7. \E i \in 1 .. 6 : i \in found
    BY <1>1
  <2> QED BY <2>1, <2>2, <2>3, <2>4, <2>5, <2>6, <2>7
<1> QED BY <1>1, <1>2 DEF Min

LEMMA CluesOfCost ==
  \A i \in 1 .. 6 : Clues[i].suggests # "none" /\ TaxIsCost(Clues[i].suggests)
<1>1. Clues[1].suggests = "MONOTRIBUTO" /\ Clues[2].suggests = "EXENTO"
  BY DEF Clues, Clue
<1>2. Clues[3].suggests = "MONOTRIBUTO" /\ Clues[4].suggests = "MONOTRIBUTO"
  BY DEF Clues, Clue
<1>3. Clues[5].suggests = "MONOTRIBUTO" /\ Clues[6].suggests = "EXENTO"
  BY DEF Clues, Clue
<1>4. \A i \in 1 .. 6 : i \in {1, 2, 3, 4, 5, 6}
  OBVIOUS
<1>5. TaxIsCost("MONOTRIBUTO") /\ TaxIsCost("EXENTO")
  BY DEF TaxIsCost
<1> QED BY <1>1, <1>2, <1>3, <1>4, <1>5

Counts(text, i) ==
  Clues[i].label \in text /\ ("Responsable Inscripto" \in text => Clues[i].strong)

\* A text suggests a condition when one of its clues counts, and it is one of these.
LEMMA ClueSuggests ==
  ASSUME NEW text
  PROVE  /\ (\E i \in DOMAIN Clues : Counts(text, i)) => ClueIn(text) # "none"
         /\ ClueIn(text) # "none" => TaxIsCost(ClueIn(text))
<1> DEFINE found == {i \in DOMAIN Clues : Counts(text, i)}
<1>1. ClueIn(text) = IF found = {} THEN "none" ELSE Clues[Min(found)].suggests
  BY DEF ClueIn, Counts
<1>2. found \subseteq DOMAIN Clues
  OBVIOUS
<1>3. (\E i \in DOMAIN Clues : Counts(text, i)) => found # {}
  OBVIOUS
<1> HIDE DEF found
<1> QED BY <1>1, <1>2, <1>3, FirstClue, CluesOfCost

LEMMA SaysSo ==
  ASSUME NEW b, SaysOtherwise(b)
  PROVE  Contradicts(b, "RESPONSABLE_INSCRIPTO")
<1>1. \E text \in {Bill[b].note, Bill[b].text} : ClueIn(text) # "none"
  BY ClueSuggests DEF SaysOtherwise, Counts
<1>2. /\ Suggested(b) # "none"
      /\ \E text \in {Bill[b].note, Bill[b].text} : Suggested(b) = ClueIn(text)
  BY <1>1 DEF Suggested
<1>3. TaxIsCost(Suggested(b))
  BY <1>2, ClueSuggests
<1> QED BY <1>2, <1>3 DEF Contradicts, TaxIsCost

LEMMA NewsHeard == HeardInv => SuspicionIsHeard
BY SaysSo DEF HeardInv, SuspicionIsHeard

LEMMA LedgerStart == LedgerInit => LedgerInv
<1> SUFFICES ASSUME LedgerInit PROVE LedgerInv
  OBVIOUS
<1>1. LinesInv
  BY DEF LedgerInit, LinesInv, Sequence
<1>2. asking = [r \in Costists |-> asking[r]] /\ \A r \in Costists : asking[r] = NoAsking
  BY DEF LedgerInit
<1>3. AskingInv
  BY <1>2 DEF AskingInv, NoAsking
<1>4. HeardInv /\ declared \in Conditions
  BY DEF LedgerInit, HeardInv
<1> QED BY <1>1, <1>3, <1>4 DEF LedgerInv

\* A line is added as it was computed, or by hand.
LEMMA LineAdded ==
  ASSUME LinesInv, NEW l, IsLine(l), AsComputed(l), lines' = Append(lines, l)
  PROVE  LinesInv'
<1>1. /\ Sequence(lines')
      /\ DOMAIN lines = 1 .. Len(lines) /\ Len(lines) \in Nat
      /\ DOMAIN lines' = 1 .. Len(lines) + 1
      /\ \A n \in DOMAIN lines : lines'[n] = lines[n]
      /\ lines'[Len(lines) + 1] = l
  BY AppendFacts DEF LinesInv
<1>2. \A n \in DOMAIN lines' : lines'[n] = l \/ (n \in DOMAIN lines /\ lines'[n] = lines[n])
  BY <1>1
<1>3. \A n \in DOMAIN lines' : IsLine(lines'[n]) /\ AsComputed(lines'[n])
  BY <1>2 DEF LinesInv
<1> QED BY <1>1, <1>3 DEF LinesInv

LEMMA LineReplaced ==
  ASSUME LinesInv, NEW n \in DOMAIN lines, NEW l, IsLine(l), AsComputed(l),
         lines' = [lines EXCEPT ![n] = l]
  PROVE  LinesInv'
<1>1. Sequence(lines') /\ DOMAIN lines' = DOMAIN lines
  BY ReplaceFacts DEF LinesInv
<1>2. lines'[n] = l /\ \A m \in DOMAIN lines \ {n} : lines'[m] = lines[m]
  OBVIOUS
<1>3. \A m \in DOMAIN lines' : IsLine(lines'[m]) /\ AsComputed(lines'[m])
  BY <1>1, <1>2 DEF LinesInv
<1> QED BY <1>1, <1>3 DEF LinesInv

\* The line of a bill begins as it is computed.
LEMMA DraftComputed ==
  ASSUME NEW b \in Bills, NEW c \in Conditions, HasDraft(b, c)
  PROVE  IsLine(Draft(b, c)) /\ AsComputed(Draft(b, c))
<1>1. PICK m : m = IF Bill[b].month = 0 THEN ThisMonth ELSE Bill[b].month
  OBVIOUS
<1>2. Draft(b, c) = [bill |-> b, condition |-> c, amount |-> Cost(b, c),
                     criterion |-> Criterion(b, c), month |-> m, live |-> TRUE]
  BY <1>1 DEF Draft
<1>3. Cost(b, c) > 0
  BY DEF HasDraft
<1> QED BY <1>2, <1>3 DEF IsLine, AsComputed

\* What the steps change of a line and of a request.
LEMMA AskedOn ==
  ASSUME NEW v, v = [at |-> v.at, bill |-> v.bill, condition |-> v.condition, news |-> v.news],
         NEW at
  PROVE  [v EXCEPT !.at = at] =
            [at |-> at, bill |-> v.bill, condition |-> v.condition, news |-> v.news]
OBVIOUS

LEMMA SilentOn ==
  ASSUME NEW v, v = [at |-> v.at, bill |-> v.bill, condition |-> v.condition, news |-> v.news],
         NEW no
  PROVE  [v EXCEPT !.news = no] =
            [at |-> v.at, bill |-> v.bill, condition |-> v.condition, news |-> no]
OBVIOUS

LEMMA ReadOn ==
  ASSUME NEW v, v = [at |-> v.at, bill |-> v.bill, condition |-> v.condition, news |-> v.news],
         NEW c
  PROVE  [v EXCEPT !.condition = c] =
            [at |-> v.at, bill |-> v.bill, condition |-> c, news |-> v.news]
OBVIOUS

LEMMA AmountChanged ==
  ASSUME NEW l, IsLine(l), NEW amount
  PROVE  LET k == [l EXCEPT !.amount = amount]
         IN /\ IsLine(k) /\ k.amount = amount /\ k.bill = l.bill
            /\ k.condition = l.condition /\ k.criterion = l.criterion
BY DEF IsLine

LEMMA CriterionChanged ==
  ASSUME NEW l, IsLine(l), NEW criterion
  PROVE  LET k == [l EXCEPT !.criterion = criterion]
         IN /\ IsLine(k) /\ k.criterion = criterion /\ k.bill = l.bill
            /\ k.condition = l.condition /\ k.amount = l.amount
BY DEF IsLine

LEMMA MonthChanged ==
  ASSUME NEW l, IsLine(l), NEW month
  PROVE  LET k == [l EXCEPT !.month = month]
         IN /\ IsLine(k) /\ k.month = month /\ k.bill = l.bill
            /\ k.condition = l.condition /\ k.amount = l.amount /\ k.criterion = l.criterion
BY DEF IsLine

LEMMA LiveLineChanged ==
  ASSUME NEW l, IsLine(l), NEW live
  PROVE  LET k == [l EXCEPT !.live = live]
         IN /\ IsLine(k) /\ k.live = live /\ k.bill = l.bill
            /\ k.condition = l.condition /\ k.amount = l.amount /\ k.criterion = l.criterion
BY DEF IsLine

LEMMA LineDeleted ==
  ASSUME LinesInv, NEW n \in DOMAIN lines, DeleteLine(n)
  PROVE  LinesInv'
<1>1. PICK x : x = lines[n] /\ IsLine(x) /\ AsComputed(x)
  BY DEF LinesInv
<1>2. PICK l : l = [x EXCEPT !.live = FALSE]
  OBVIOUS
<1>3. IsLine(l) /\ AsComputed(l)
  BY <1>1, <1>2, LiveLineChanged DEF AsComputed
<1>4. lines' = [lines EXCEPT ![n] = l]
  BY <1>1, <1>2 DEF DeleteLine
<1> QED BY <1>3, <1>4, LineReplaced

LEMMA LineEdited ==
  ASSUME LinesInv, NEW n \in DOMAIN lines, NEW amount, NEW m, EditLine(n, amount, m)
  PROVE  LinesInv'
<1>1. PICK x : x = lines[n] /\ IsLine(x) /\ AsComputed(x)
  BY DEF LinesInv
<1>2. PICK a, c, t : /\ a = IF amount = NoAmount THEN x.amount ELSE amount
                     /\ c = IF amount = NoAmount THEN x.criterion ELSE "CARGA_MANUAL"
                     /\ t = IF m = 0 THEN x.month ELSE m
  OBVIOUS
<1>3. PICK l : l = [x EXCEPT !.amount = a, !.criterion = c, !.month = t]
  OBVIOUS
<1>4. IsLine(l) /\ l.bill = x.bill /\ l.condition = x.condition /\ l.amount = a /\ l.criterion = c
  <2>1. PICK k : k = [x EXCEPT !.amount = a]
    OBVIOUS
  <2>2. PICK j : j = [k EXCEPT !.criterion = c]
    OBVIOUS
  <2>3. l = [j EXCEPT !.month = t]
    BY <1>3, <2>1, <2>2
  <2>4. IsLine(k) /\ k.bill = x.bill /\ k.condition = x.condition /\ k.amount = a
    <3>1. IsLine(x)
      BY <1>1
    <3> QED BY <2>1, <3>1, AmountChanged
  <2>5. IsLine(j) /\ j.bill = x.bill /\ j.condition = x.condition /\ j.amount = a /\ j.criterion = c
    BY <2>2, <2>4, CriterionChanged
  <2> QED BY <2>3, <2>5, MonthChanged
<1>5. AsComputed(l)
  BY <1>1, <1>2, <1>4 DEF AsComputed
<1>6. lines' = [lines EXCEPT ![n] = l]
  BY <1>1, <1>2, <1>3 DEF EditLine
<1> QED BY <1>4, <1>5, <1>6, LineReplaced

\* What one request takes hold of, whatever the others hold.
IsAsking(q) ==
  /\ q = [at |-> q.at, bill |-> q.bill, condition |-> q.condition, news |-> q.news]
  /\ q.at \in {"line", "signal"} => q.bill \in Bills /\ q.condition \in Conditions
  /\ q.at = "company" => q.condition \in Conditions

LEMMA AskingStep ==
  ASSUME AskingInv, UNCHANGED <<declared, overwritten>>, NEW r \in Costists, NEW q, IsAsking(q),
         asking' = [asking EXCEPT ![r] = q],
         q.at \in {"line", "signal"} /\ q.news /\ ~overwritten => q.condition = declared
  PROVE  AskingInv'
<1>1. asking'[r] = q /\ \A o \in Costists \ {r} : asking'[o] = asking[o]
  BY DEF AskingInv
<1>2. asking' = [o \in Costists |-> asking'[o]]
  BY DEF AskingInv
<1> QED BY <1>1, <1>2 DEF AskingInv, IsAsking

LEMMA RestFacts == IsAsking(NoAsking) /\ NoAsking.at = "idle"
BY DEF IsAsking, NoAsking

LEMMA LedgerStep == LedgerInv /\ [LedgerNext]_ledgerVars => LedgerInv'
<1> SUFFICES ASSUME LedgerInv, [LedgerNext]_ledgerVars PROVE LedgerInv'
  OBVIOUS
<1> USE DEF LedgerInv
<1>1. ASSUME NEW r \in Costists, NEW b \in Bills, ReadBill(r, b)
      PROVE  LedgerInv'
  <2> DEFINE q == [at |-> "line", bill |-> b, condition |-> declared, news |-> TRUE]
  <2>1. IsAsking(q)
    BY DEF IsAsking
  <2>2. AskingInv'
    BY <1>1, <2>1, AskingStep DEF ReadBill
  <2>3. UNCHANGED <<declared, suspected, lines, unheard, overwritten>>
    BY <1>1 DEF ReadBill
  <2> QED BY <2>2, <2>3 DEF LinesInv, HeardInv, Contradicts
<1>2. ASSUME NEW r \in Costists, InsertLine(r)
      PROVE  LedgerInv'
  <2> DEFINE v == asking[r]
  <2>1. v.at = "line" /\ v.bill \in Bills /\ v.condition \in Conditions
    BY <1>2 DEF InsertLine, AskingInv
  <2>2. UNCHANGED <<declared, suspected, unheard, overwritten>>
    BY <1>2 DEF InsertLine
  <2>3. LinesInv'
    <3>1. CASE UNCHANGED lines
      BY <3>1 DEF LinesInv
    <3>2. CASE HasDraft(v.bill, v.condition) /\ lines' = Append(lines, Draft(v.bill, v.condition))
      BY <2>1, <3>2, DraftComputed, LineAdded
    <3> QED BY <1>2, <3>1, <3>2 DEF InsertLine
  <2>4. AskingInv'
    <3>1. PICK q : q =
            [at |-> "signal", bill |-> v.bill, condition |-> v.condition, news |-> v.news]
      OBVIOUS
    <3>2. asking' = [asking EXCEPT ![r] = q]
      <4>1. v = [at |-> v.at, bill |-> v.bill, condition |-> v.condition, news |-> v.news]
        BY DEF AskingInv
      <4>2. [v EXCEPT !.at = "signal"] = q
        BY <3>1, <4>1, AskedOn
      <4>3. asking' = [asking EXCEPT ![r] = [v EXCEPT !.at = "signal"]]
        BY <1>2 DEF InsertLine
      <4> QED BY <4>2, <4>3
    <3>3. IsAsking(q) /\ q.condition = v.condition /\ q.news = v.news
      BY <2>1, <3>1 DEF IsAsking
    <3>4. v.news /\ ~overwritten => v.condition = declared
      BY <2>1 DEF AskingInv
    <3> QED BY <2>2, <3>2, <3>3, <3>4, AskingStep
  <2> QED BY <2>2, <2>3, <2>4 DEF HeardInv, Contradicts
<1>3. ASSUME NEW r \in Costists, Signal(r)
      PROVE  LedgerInv'
  <2> DEFINE v == asking[r]
  <2>1. v.at = "signal" /\ (v.news /\ ~overwritten => v.condition = declared)
    BY <1>3 DEF Signal, AskingInv
  <2>2. UNCHANGED <<declared, lines, overwritten>> /\ asking' = [asking EXCEPT ![r] = NoAsking]
    BY <1>3 DEF Signal
  <2>3. AskingInv'
    BY <2>2, RestFacts, AskingStep
  <2>4. /\ suspected' <=> suspected \/ Contradicts(v.bill, v.condition)
        /\ unheard' = IF v.news THEN unheard \union {v.bill} ELSE unheard
    BY <1>3 DEF Signal
  <2>5. HeardInv'
    BY <2>1, <2>2, <2>4 DEF HeardInv, Contradicts
  <2> QED BY <2>2, <2>3, <2>5 DEF LinesInv
<1>4. ASSUME NEW r \in Costists, AskingDies(r)
      PROVE  LedgerInv'
  <2>1. AskingInv'
    BY <1>4, RestFacts, AskingStep DEF AskingDies
  <2> QED BY <1>4, <2>1 DEF AskingDies, LinesInv, HeardInv, Contradicts
<1>5. ASSUME NEW r \in Costists, ReadCompany(r)
      PROVE  LedgerInv'
  <2>1. PICK v : v = NoAsking
    OBVIOUS
  <2>2. v = [at |-> v.at, bill |-> v.bill, condition |-> v.condition, news |-> v.news]
    BY <2>1 DEF NoAsking
  <2>3. PICK w : w = [v EXCEPT !.at = "company"]
    OBVIOUS
  <2>4. PICK q : q = [w EXCEPT !.condition = declared]
    OBVIOUS
  <2>5. w = [at |-> "company", bill |-> v.bill, condition |-> v.condition, news |-> v.news]
    BY <2>2, <2>3, AskedOn
  <2>6. w = [at |-> w.at, bill |-> w.bill, condition |-> w.condition, news |-> w.news]
    BY <2>5
  <2>7. q = [at |-> w.at, bill |-> w.bill, condition |-> declared, news |-> w.news]
    BY <2>4, <2>6, ReadOn
  <2>8. q.at = "company" /\ IsAsking(q)
    BY <2>5, <2>7 DEF IsAsking
  <2>9. asking' = [asking EXCEPT ![r] = q]
    BY <1>5, <2>1, <2>3, <2>4 DEF ReadCompany
  <2>10. AskingInv'
    BY <1>5, <2>8, <2>9, AskingStep DEF ReadCompany
  <2> QED BY <1>5, <2>10 DEF ReadCompany, LinesInv, HeardInv, Contradicts
<1>6. ASSUME NEW r \in Costists, NEW c \in Conditions \union {"none"}, WriteCompany(r, c)
      PROVE  LedgerInv'
  <2>1. LinesInv'
    BY <1>6 DEF WriteCompany, LinesInv
  <2>2. asking[r].condition \in Conditions
    BY <1>6 DEF WriteCompany, AskingInv
  <2>3. CASE c = "none"
    <3>1. /\ declared' = asking[r].condition
          /\ overwritten' <=> overwritten \/ declared # asking[r].condition
          /\ asking' = [asking EXCEPT ![r] = NoAsking]
          /\ UNCHANGED <<suspected, unheard>>
      BY <1>6, <2>3 DEF WriteCompany
    <3>2. ~overwritten' => declared' = declared /\ ~overwritten
      BY <3>1
    <3>3. asking'[r] = NoAsking /\ \A o \in Costists \ {r} : asking'[o] = asking[o]
      BY <3>1 DEF AskingInv
    <3>4. asking' = [o \in Costists |-> asking'[o]]
      BY <3>1 DEF AskingInv
    <3>5. AskingInv'
      BY <3>2, <3>3, <3>4, RestFacts DEF AskingInv, IsAsking
    <3>6. HeardInv'
      BY <3>1, <3>2 DEF HeardInv, Contradicts
    <3> QED BY <2>1, <2>2, <3>1, <3>5, <3>6
  <2>4. CASE c # "none"
    <3>1. /\ declared' = c /\ unheard' = {}
          /\ asking' = [s \in Costists |->
               IF s = r THEN NoAsking ELSE [asking[s] EXCEPT !.news = FALSE]]
      BY <1>6, <2>4 DEF WriteCompany
    <3>2. \A o \in Costists \ {r} :
            asking'[o] = [at |-> asking[o].at, bill |-> asking[o].bill,
                          condition |-> asking[o].condition, news |-> FALSE]
      BY <3>1, SilentOn DEF AskingInv
    <3>3. asking'[r] = NoAsking /\ asking' = [o \in Costists |-> asking'[o]]
      BY <3>1
    <3>4. AskingInv'
      BY <3>2, <3>3, RestFacts DEF AskingInv, IsAsking
    <3>5. HeardInv' /\ declared' \in Conditions
      BY <2>4, <3>1 DEF HeardInv
    <3> QED BY <2>1, <3>4, <3>5
  <2> QED BY <2>3, <2>4
<1>7. ASSUME NEW m \in Booked, AddLine(m, 1)
      PROVE  LedgerInv'
  <2> DEFINE l == [bill |-> 0, condition |-> declared, amount |-> 1,
                   criterion |-> "CARGA_MANUAL", month |-> m, live |-> TRUE]
  <2>1. IsLine(l) /\ AsComputed(l)
    BY DEF IsLine, AsComputed
  <2>2. lines' = Append(lines, l)
    BY <1>7 DEF AddLine
  <2>3. LinesInv'
    BY <2>1, <2>2, LineAdded
  <2> QED BY <1>7, <2>3 DEF AddLine, AskingInv, HeardInv, Contradicts
<1>8. ASSUME NEW n \in DOMAIN lines, NEW amount, NEW m, EditLine(n, amount, m)
      PROVE  LedgerInv'
  <2>1. LinesInv'
    BY <1>8, LineEdited
  <2> QED BY <1>8, <2>1 DEF EditLine, AskingInv, HeardInv, Contradicts
<1>9. ASSUME NEW n \in DOMAIN lines, DeleteLine(n)
      PROVE  LedgerInv'
  <2>1. LinesInv'
    BY <1>9, LineDeleted
  <2> QED BY <1>9, <2>1 DEF DeleteLine, AskingInv, HeardInv, Contradicts
<1>10. CASE UNCHANGED ledgerVars
  BY <1>10 DEF ledgerVars, LinesInv, AskingInv, HeardInv, Contradicts
<1> QED BY <1>1, <1>2, <1>3, <1>4, <1>5, <1>6, <1>7, <1>8, <1>9, <1>10 DEF LedgerNext

\* The documents that were approved and what they said are accounted for in every reachable
\* state: every line nobody corrected is the one its bill gives, and every review in flight
\* knows the condition of today unless an edit put an old one back.
THEOREM LedgerInductive == LedgerSpec => []LedgerInv
BY LedgerStart, LedgerStep, PTL DEF LedgerSpec

\* For any set of bills, the line follows the condition of the company with which it was
\* approved (ledger-builder.ts, pickCostAmount).
THEOREM TaxFollows == LedgerSpec => []TaxFollowsTheCompany
<1>1. LedgerInv => TaxFollowsTheCompany
  BY LinesFollow DEF LedgerInv
<1> QED BY <1>1, LedgerInductive, PTL

\* For any number of reviews and edits of the company at once, a document that contradicts its
\* condition raises the flag (condicion-iva-signal.ts, validaciones-service.ts).
THEOREM SuspicionsAreHeard == LedgerSpec => []SuspicionIsHeard
<1>1. LedgerInv => SuspicionIsHeard
  BY NewsHeard DEF LedgerInv, HeardInv
<1> QED BY <1>1, LedgerInductive, PTL

-----------------------------------------------------------------------------
(* Classifier.                                                               *)

Counted(row) == row.seen \in Nat /\ row.overridden \in Nat

\* While no review wrote over another, the last correction is what the row of the supplier
\* says, and there is a row that says it.
LessonInv ==
  /\ reviewing = [r \in Reviewers |-> reviewing[r]]
  /\ Counted(fingerprint) /\ \A r \in Reviewers : Counted(reviewing[r].row)
  /\ lesson # "none" /\ ~crossed =>
       fingerprint.type = lesson /\ fingerprint.seen + fingerprint.overridden > 0

LEMMA NobodyCounted ==
  /\ Counted(NoFingerprint) /\ NoFingerprint.seen + NoFingerprint.overridden = 0
  /\ NoReview.row = NoFingerprint
BY DEF Counted, NoFingerprint, NoReview

LEMMA LessonStart == ClassifierInit => LessonInv
<1> SUFFICES ASSUME ClassifierInit PROVE LessonInv
  OBVIOUS
<1>1. Counted(fingerprint)
  BY ClassifierAssumption DEF ClassifierInit, Counted
<1>2. reviewing = [r \in Reviewers |-> reviewing[r]]
      /\ \A r \in Reviewers : reviewing[r] = NoReview
  BY DEF ClassifierInit
<1> QED BY <1>1, <1>2, NobodyCounted DEF ClassifierInit, LessonInv

\* What a review writes of the supplier: there is a row then, of the type the person chose or
\* of the one that was read.
LEMMA LearnedFacts ==
  ASSUME NEW v, Counted(v.row)
  PROVE  /\ Counted(Learned(v)) /\ Learned(v).seen + Learned(v).overridden > 0
         /\ v.corrects => Learned(v).type = Truth(v).type
         /\ ~v.corrects /\ v.row # NoFingerprint => Learned(v).type = v.row.type
<1>1. CASE v.row = NoFingerprint
  BY <1>1 DEF Learned, Counted
<1>2. CASE v.row # NoFingerprint
  <2>1. CASE v.corrects
    <3>1. Learned(v).seen = v.row.seen /\ Learned(v).overridden = v.row.overridden + 1
          /\ Learned(v).type = Truth(v).type
      BY <1>2, <2>1 DEF Learned
    <3> QED BY <2>1, <3>1 DEF Counted
  <2>2. CASE ~v.corrects
    <3>1. Learned(v).seen = v.row.seen + 1 /\ Learned(v).overridden = v.row.overridden
          /\ Learned(v).type = v.row.type
      BY <1>2, <2>2 DEF Learned
    <3> QED BY <2>2, <3>1 DEF Counted
  <2> QED BY <2>1, <2>2
<1> QED BY <1>1, <1>2

LEMMA LessonStep == LessonInv /\ [ClassifierNext]_classifierVars => LessonInv'
<1> SUFFICES ASSUME LessonInv, [ClassifierNext]_classifierVars PROVE LessonInv'
  OBVIOUS
<1>1. ASSUME NEW d, NEW pair, Classify(d, pair)
      PROVE  LessonInv'
  BY <1>1 DEF Classify, LessonInv, Counted
<1>2. ASSUME NEW r \in Reviewers, NEW n, NEW corrects, NEW truth, ReadRow(r, n, corrects, truth)
      PROVE  LessonInv'
  <2>1. PICK v : v = [audit |-> n, corrects |-> corrects, truth |-> truth, row |-> fingerprint]
    OBVIOUS
  <2>2. v.row = fingerprint
    BY <2>1
  <2>3. reviewing' = [reviewing EXCEPT ![r] = v]
    BY <1>2, <2>1 DEF ReadRow
  <2>4. \A o \in Reviewers : reviewing'[o] = IF o = r THEN v ELSE reviewing[o]
    BY <2>3 DEF LessonInv
  <2>5. reviewing' = [o \in Reviewers |-> reviewing'[o]]
    BY <2>3 DEF LessonInv
  <2>6. UNCHANGED <<fingerprint, lesson, crossed>>
    BY <1>2 DEF ReadRow
  <2> QED BY <2>2, <2>4, <2>5, <2>6 DEF LessonInv, Counted
<1>3. ASSUME NEW r \in Reviewers, WriteRow(r)
      PROVE  LessonInv'
  <2> DEFINE v == reviewing[r]
  <2>1. reviewing' = [reviewing EXCEPT ![r] = NoReview]
    BY <1>3 DEF WriteRow
  <2>2. /\ reviewing' = [o \in Reviewers |-> reviewing'[o]]
        /\ \A o \in Reviewers : reviewing'[o] = IF o = r THEN NoReview ELSE reviewing[o]
    BY <2>1 DEF LessonInv
  <2>3. \A o \in Reviewers : Counted(reviewing'[o].row)
    BY <2>2, NobodyCounted DEF LessonInv
  <2>4. CASE UNCHANGED <<fingerprint, lesson, crossed>>
    BY <2>2, <2>3, <2>4 DEF LessonInv, Counted
  <2>5. CASE /\ fingerprint' = Learned(v)
             /\ lesson' = IF v.corrects THEN Truth(v).type ELSE lesson
             /\ crossed' <=> crossed \/ v.row # fingerprint
    <3>1. Counted(v.row)
      BY DEF LessonInv
    <3>2. /\ Counted(Learned(v)) /\ Learned(v).seen + Learned(v).overridden > 0
          /\ v.corrects => Learned(v).type = Truth(v).type
          /\ ~v.corrects /\ v.row # NoFingerprint => Learned(v).type = v.row.type
      BY <3>1, LearnedFacts
    <3>3. ASSUME lesson' # "none", ~crossed'
          PROVE  fingerprint'.type = lesson'
      <4>1. v.row = fingerprint /\ ~crossed
        BY <2>5, <3>3
      <4>2. CASE v.corrects
        BY <2>5, <3>2, <4>2
      <4>3. CASE ~v.corrects
        <5>1. lesson' = lesson
          BY <2>5, <4>3
        <5>2. fingerprint.type = lesson /\ fingerprint # NoFingerprint
          BY <3>3, <4>1, <5>1, NobodyCounted DEF LessonInv
        <5> QED BY <2>5, <3>2, <4>1, <4>3, <5>1, <5>2
      <4> QED BY <4>2, <4>3
    <3>4. Counted(fingerprint') /\ fingerprint'.seen + fingerprint'.overridden > 0
      BY <2>5, <3>2
    <3> QED BY <2>2, <2>3, <3>3, <3>4 DEF LessonInv, Counted
  <2> QED BY <1>3, <2>4, <2>5 DEF WriteRow
<1>4. CASE UNCHANGED classifierVars
  BY <1>4 DEF classifierVars, LessonInv, Counted
<1> QED BY <1>1, <1>2, <1>3, <1>4 DEF ClassifierNext

\* What a person taught and the mark of the law says otherwise: the document goes to review,
\* whatever else is on it and whatever the model answers.
LEMMA ConflictIsAsked ==
  ASSUME NEW e, NEW row, NEW pair, CrossLayerConflict(e, row)
  PROVE  ClassifyDocument(e, row, pair).review
<1>1. ~ByRules(e, row)
  BY DEF ByRules, Blocked
<1>2. AfterModel(e, row, Answer(pair)).review
  BY DEF AfterModel, Verdict
<1>3. CASE e.gate = "FAIL"
  BY <1>3 DEF ClassifyDocument, Verdict
<1>4. CASE e.gate # "FAIL" /\ Answer(pair) # NoAnswer
  <2>1. ClassifyDocument(e, row, pair) = AfterModel(e, row, Answer(pair))
    BY <1>1, <1>4 DEF ClassifyDocument
  <2> QED BY <1>2, <2>1
<1>5. CASE e.gate # "FAIL" /\ Answer(pair) = NoAnswer
  BY <1>1, <1>5 DEF ClassifyDocument, Verdict
<1> QED BY <1>3, <1>4, <1>5

LEMMA LessonAsked == LessonInv => LessonIsAsked
<1> SUFFICES ASSUME LessonInv, lesson # "none", ~crossed, NEW d \in Documents,
                    NEW pair \in Attempts,
                    Recognised(Evidence[d], fingerprint) # NoFingerprint,
                    Evidence[d].mark.type \notin {"none", lesson}
             PROVE  ClassifyDocument(Evidence[d], fingerprint, pair).review
  BY DEF LessonIsAsked
<1>1. fingerprint.type = lesson
  BY DEF LessonInv
<1>2. Evidence[d].mark # NoMark
  BY DEF NoMark, Mark
<1>3. CrossLayerConflict(Evidence[d], fingerprint)
  BY <1>1, <1>2 DEF CrossLayerConflict
<1> QED BY <1>3, ConflictIsAsked

\* The confidence of an answer is a number however it was repaired, and is one when it is
\* capped.
LEMMA AnswerFacts ==
  ASSUME NEW e, NEW pair \in Attempts
  PROVE  Capped(e, Answer(pair).confidence) \in Int
<1>1. pair[1].confidence \in Nat /\ pair[2].confidence \in Nat
  BY ClassifierAssumption
<1>2. \A wrong : /\ Repaired(pair[1], wrong).confidence \in Nat
                 /\ Repaired(pair[2], wrong).confidence \in Nat
  BY <1>1 DEF Repaired
<1>3. NoAnswer.confidence = 0 /\ Fallback.confidence = 0
  BY DEF NoAnswer, Fallback
<1>4. Answer(pair).confidence \in Nat
  BY <1>2, <1>3 DEF Answer
<1>5. ASSUME NEW c \in Nat
      PROVE  Min({c, 65}) \in Int
  <2>1. \E m \in {c, 65} : \A i \in {c, 65} : m <= i
    BY <1>5
  <2> QED BY <2>1 DEF Min
<1> QED BY <1>4, <1>5 DEF Capped

\* A document that skips the review is heard, whatever its evidence, the row of its supplier
\* and the answer of the model.
LEMMA AlwaysHeard ==
  ASSUME NEW e, NEW row, NEW pair \in Attempts
  PROVE  Heard(e, row, pair)
<1> DEFINE r == ClassifyDocument(e, row, pair)
           rule == e.route[r.type]
           evidence == e.strong \union ({e.mark.type} \ {"none"})
<1> SUFFICES ASSUME ~r.review
             PROVE  /\ IF rule.unsure THEN r.ai /\ r.confidence >= Threshold
                       ELSE r.section = rule.section
                    /\ Cardinality(evidence) <= 1
                    /\ ~r.ai => evidence \subseteq {r.type}
                    /\ ~e.unclear
  BY DEF Heard
<1>1. ~CrossLayerConflict(e, row)
  BY ConflictIsAsked
<1>2. evidence \subseteq {Hypothesis(e, row)}
  <2>1. e.strong \subseteq {Hypothesis(e, row)}
    BY <1>1 DEF CrossLayerConflict
  <2>2. e.mark = NoMark => e.mark.type = "none"
    BY DEF NoMark, Mark
  <2>3. e.mark # NoMark => Hypothesis(e, row) = e.mark.type
    BY DEF Hypothesis
  <2> QED BY <2>1, <2>2, <2>3
<1>3. Cardinality(evidence) <= 1
  <2>1. IsFiniteSet({Hypothesis(e, row)}) /\ Cardinality({Hypothesis(e, row)}) = 1
    BY FS_Singleton
  <2> QED BY <1>2, <2>1, FS_Subset
<1>4. e.gate # "FAIL"
  BY DEF ClassifyDocument, Verdict
<1>5. CASE ByRules(e, row)
  <2>1. r = Verdict(Hypothesis(e, row), RuleOf(e, row).section,
                    Min({Confidence(e, row), 100}), FALSE, FALSE)
    BY <1>4, <1>5 DEF ClassifyDocument
  <2>2. /\ r.type = Hypothesis(e, row) /\ r.section = RuleOf(e, row).section
    BY <2>1 DEF Verdict
  <2>3. ~RuleOf(e, row).unsure /\ ~e.unclear
    BY <1>5 DEF ByRules, Blocked
  <2> QED BY <1>2, <1>3, <2>2, <2>3 DEF RuleOf
<1>6. CASE ~ByRules(e, row) /\ Answer(pair) # NoAnswer
  <2> DEFINE answer == Answer(pair)
  <2>1. r = AfterModel(e, row, answer)
    BY <1>4, <1>6 DEF ClassifyDocument
  <2> HIDE DEF answer
  <2>2. /\ r.type = answer.type /\ r.section = answer.section /\ r.ai
        /\ r.confidence = Capped(e, answer.confidence)
    BY <2>1 DEF AfterModel, Verdict
  <2>3. r.review <=> \/ CrossLayerConflict(e, row) \/ e.unclear
                     \/ /\ ~e.route[answer.type].unsure
                        /\ e.route[answer.type].section # answer.section
                     \/ Capped(e, answer.confidence) < Threshold
    BY <2>1 DEF AfterModel, Verdict
  <2>4. Capped(e, answer.confidence) \in Int
    BY AnswerFacts DEF answer
  <2> QED BY <1>3, <2>2, <2>3, <2>4 DEF Threshold
<1>7. CASE ~ByRules(e, row) /\ Answer(pair) = NoAnswer
  BY <1>4, <1>7 DEF ClassifyDocument, Verdict
<1> QED BY <1>5, <1>6, <1>7

\* The row of the supplier says the last correction in every reachable state, unless a review
\* wrote over another.
THEOREM LessonInductive == ClassifierSpec => []LessonInv
BY LessonStart, LessonStep, PTL DEF ClassifierSpec

\* For any number of reviews at once: what a person corrected about a well-known supplier is
\* not decided against without asking (validaciones-service.ts, cascade-classifier.ts).
THEOREM LessonsAreAsked == ClassifierSpec => []LessonIsAsked
<1>1. LessonInv => LessonIsAsked
  BY LessonAsked
<1> QED BY <1>1, LessonInductive, PTL

\* For every document there may be, whatever is found in it, whatever the supplier taught and
\* whatever the model answers: no doubt is silent (cascade-classifier.ts).
THEOREM NoDoubtIsSilent == ClassifierSpec => []NothingSilent
<1>1. NothingSilent
  BY AlwaysHeard DEF NothingSilent, StrangersHeard
<1> QED BY <1>1, PTL

-----------------------------------------------------------------------------
(* Anomalies.                                                              *)

\* What of f is multiplied, and what stays.
ScaledMaterial(f, g, k) ==
  /\ DOMAIN g.material = DOMAIN f.material
  /\ \A x \in DOMAIN f.material :
       g.material[x].value = Times(k, f.material[x].value) /\ g.material[x].quantity = f.material[x].quantity
ScaledLabour(f, g, k) ==
  DOMAIN g.labour = DOMAIN f.labour /\ \A d \in DOMAIN f.labour : g.labour[d] = Times(k, f.labour[d])
ScaledCenter(f, g, k) ==
  /\ DOMAIN g.center = DOMAIN f.center
  /\ \A c \in DOMAIN f.center :
       /\ g.center[c].applied = Times(k, f.center[c].applied)
       /\ g.center[c].pending = f.center[c].pending
       /\ \A v \in Variances : g.center[c].variance[v] = Times(k, f.center[c].variance[v])
Rest(f, g) == g.cogs = f.cogs /\ g.sales = f.sales /\ g.produced = f.produced /\ g.sold = f.sold
IsScaled(f, g, k) == ScaledMaterial(f, g, k) /\ ScaledLabour(f, g, k) /\ ScaledCenter(f, g, k)

\* Scaled is what it says.
LEMMA ScaledParts ==
  ASSUME NEW f, NEW k, IsSheet(f)
  PROVE  IsScaled(f, Scaled(f, k), k) /\ Rest(f, Scaled(f, k)) /\ DOMAIN Scaled(f, k) = DOMAIN f
<1> DEFINE material == [x \in DOMAIN f.material |-> [f.material[x] EXCEPT !.value = Times(k, f.material[x].value)]]
           labour == [d \in DOMAIN f.labour |-> Times(k, f.labour[d])]
           center == [c \in DOMAIN f.center |->
              [f.center[c] EXCEPT !.applied = Times(k, f.center[c].applied),
                                  !.variance = [v \in Variances |-> Times(k, f.center[c].variance[v])]]]
<1>1. Scaled(f, k) = [f EXCEPT !.material = material, !.labour = labour, !.center = center]
  BY DEF Scaled
<1>2. DOMAIN f = {"material", "labour", "center", "cogs", "sales", "produced", "sold"}
  BY DEF IsSheet
<1>3. /\ Scaled(f, k).material = material /\ Scaled(f, k).labour = labour
      /\ Scaled(f, k).center = center /\ Rest(f, Scaled(f, k)) /\ DOMAIN Scaled(f, k) = DOMAIN f
  <2> HIDE DEF material, labour, center
  <2> QED BY <1>1, <1>2 DEF Rest
<1>4. ASSUME NEW x \in DOMAIN f.material
      PROVE  material[x].value = Times(k, f.material[x].value) /\ material[x].quantity = f.material[x].quantity
  <2>1. DOMAIN f.material[x] = {"quantity", "value"}
    BY DEF IsSheet, IsMaterial
  <2> QED BY <2>1
<1>5. ASSUME NEW c \in DOMAIN f.center
      PROVE  /\ center[c].applied = Times(k, f.center[c].applied)
             /\ center[c].pending = f.center[c].pending
             /\ \A v \in Variances : center[c].variance[v] = Times(k, f.center[c].variance[v])
  <2>1. DOMAIN f.center[c] = {"applied", "variance", "pending"} /\ DOMAIN f.center[c].variance = Variances
    BY DEF IsSheet, IsCenter
  <2> QED BY <2>1
<1>6. DOMAIN material = DOMAIN f.material /\ DOMAIN center = DOMAIN f.center /\ DOMAIN labour = DOMAIN f.labour
      /\ \A d \in DOMAIN f.labour : labour[d] = Times(k, f.labour[d])
  OBVIOUS
<1> HIDE DEF material, labour, center
<1> QED BY <1>3, <1>4, <1>5, <1>6 DEF IsScaled, ScaledMaterial, ScaledLabour, ScaledCenter

\* There are three elements.
LEMMA ElementsFinite == IsFiniteSet(CostElements)
<1>1. IsFiniteSet({"indirectCosts"})
  BY FS_Singleton, Zenon
<1>2. IsFiniteSet({"indirectCosts"} \cup {"directLabor"})
  BY <1>1, FS_AddElement, Zenon
<1>3. IsFiniteSet(({"indirectCosts"} \cup {"directLabor"}) \cup {"rawMaterial"})
  BY <1>2, FS_AddElement, Zenon
<1>4. CostElements = ({"indirectCosts"} \cup {"directLabor"}) \cup {"rawMaterial"}
  BY DEF CostElements
<1> QED BY <1>3, <1>4

\* The elements of the cost of a sheet, by what they add.
LEMMA CostFacts ==
  ASSUME NEW f, IsSheet(f)
  PROVE  /\ ElementCost(f)["rawMaterial"] =
              SumOver([x \in DOMAIN f.material |-> f.material[x].value], DOMAIN f.material)
         /\ ElementCost(f)["directLabor"] = SumOver(f.labour, DOMAIN f.labour)
         /\ ElementCost(f)["indirectCosts"] =
              SumOver([c \in DOMAIN f.center |-> f.center[c].applied], DOMAIN f.center)
         /\ DOMAIN ElementCost(f) = CostElements
         /\ AreFractions(ElementCost(f), CostElements) /\ IsFiniteSet(CostElements)
         /\ IsFraction(ProductionCost(f))
<1> DEFINE material == [x \in DOMAIN f.material |-> f.material[x].value]
           center == [c \in DOMAIN f.center |-> f.center[c].applied]
<1>1. /\ ElementCost(f)["rawMaterial"] = SumOver(material, DOMAIN f.material)
      /\ ElementCost(f)["directLabor"] = SumOver(f.labour, DOMAIN f.labour)
      /\ ElementCost(f)["indirectCosts"] = SumOver(center, DOMAIN f.center)
      /\ DOMAIN ElementCost(f) = CostElements
  <2> HIDE DEF material, center
  <2> QED BY DEF ElementCost, CostElements, material, center
<1>2. AreFractions(material, DOMAIN f.material) /\ AreFractions(f.labour, DOMAIN f.labour)
      /\ AreFractions(center, DOMAIN f.center)
  BY DEF IsSheet, IsMaterial, IsCenter, AreFractions
<1>3. IsFiniteSet(DOMAIN f.material) /\ IsFiniteSet(DOMAIN f.labour) /\ IsFiniteSet(DOMAIN f.center)
  BY DEF IsSheet
<1>4. IsFraction(SumOver(material, DOMAIN f.material)) /\ IsFraction(SumOver(f.labour, DOMAIN f.labour))
      /\ IsFraction(SumOver(center, DOMAIN f.center))
  <2> HIDE DEF material, center
  <2> QED BY <1>2, <1>3, SumType
<1>5. AreFractions(ElementCost(f), CostElements)
  <2> HIDE DEF material, center
  <2> QED BY <1>1, <1>4 DEF AreFractions, CostElements
<1>6. IsFiniteSet(CostElements)
  BY ElementsFinite
<1>7. IsFraction(ProductionCost(f))
  BY <1>5, <1>6, SumType DEF ProductionCost
<1> QED BY <1>1, <1>5, <1>6, <1>7

\* The elements of the multiple of a sheet are the multiples.
LEMMA ScaledCost ==
  ASSUME NEW f, NEW g, NEW k, IsSheet(f), IsSheet(g), IsFraction(k), IsScaled(f, g, k)
  PROVE  /\ \A e \in CostElements : ElementCost(g)[e] = Times(k, ElementCost(f)[e])
         /\ ProductionCost(g) = Times(k, ProductionCost(f))
<1> DEFINE mf == [x \in DOMAIN f.material |-> f.material[x].value]
           mg == [x \in DOMAIN g.material |-> g.material[x].value]
           cf == [c \in DOMAIN f.center |-> f.center[c].applied]
           cg == [c \in DOMAIN g.center |-> g.center[c].applied]
<1>1. AreFractions(mf, DOMAIN f.material) /\ AreFractions(f.labour, DOMAIN f.labour)
      /\ AreFractions(cf, DOMAIN f.center)
  BY DEF IsSheet, IsMaterial, IsCenter, AreFractions
<1>2. IsFiniteSet(DOMAIN f.material) /\ IsFiniteSet(DOMAIN f.labour) /\ IsFiniteSet(DOMAIN f.center)
  BY DEF IsSheet
<1>3. /\ \A x \in DOMAIN f.material : mg[x] = Times(k, mf[x])
      /\ \A d \in DOMAIN f.labour : g.labour[d] = Times(k, f.labour[d])
      /\ \A c \in DOMAIN f.center : cg[c] = Times(k, cf[c])
      /\ DOMAIN g.material = DOMAIN f.material /\ DOMAIN g.labour = DOMAIN f.labour
      /\ DOMAIN g.center = DOMAIN f.center
  BY DEF IsScaled, ScaledMaterial, ScaledLabour, ScaledCenter
<1>4. /\ ElementCost(f)["rawMaterial"] = SumOver(mf, DOMAIN f.material)
      /\ ElementCost(f)["directLabor"] = SumOver(f.labour, DOMAIN f.labour)
      /\ ElementCost(f)["indirectCosts"] = SumOver(cf, DOMAIN f.center)
  BY CostFacts
<1>5. /\ ElementCost(g)["rawMaterial"] = SumOver(mg, DOMAIN g.material)
      /\ ElementCost(g)["directLabor"] = SumOver(g.labour, DOMAIN g.labour)
      /\ ElementCost(g)["indirectCosts"] = SumOver(cg, DOMAIN g.center)
  BY CostFacts
<1> HIDE DEF mf, mg, cf, cg
<1>6. SumOver(mg, DOMAIN f.material) = Times(k, SumOver(mf, DOMAIN f.material))
  BY <1>1, <1>2, <1>3, SumTimes
<1>7. SumOver(g.labour, DOMAIN f.labour) = Times(k, SumOver(f.labour, DOMAIN f.labour))
  BY <1>1, <1>2, <1>3, SumTimes
<1>8. SumOver(cg, DOMAIN f.center) = Times(k, SumOver(cf, DOMAIN f.center))
  BY <1>1, <1>2, <1>3, SumTimes
<1>9. \A e \in CostElements : ElementCost(g)[e] = Times(k, ElementCost(f)[e])
  BY <1>3, <1>4, <1>5, <1>6, <1>7, <1>8 DEF CostElements
<1>10. ProductionCost(g) = Times(k, ProductionCost(f))
  <2>1. IsFiniteSet(CostElements) /\ AreFractions(ElementCost(f), CostElements)
    BY CostFacts
  <2> QED BY <1>9, <2>1, SumTimes DEF ProductionCost
<1> QED BY <1>9, <1>10

\* The multiple of a sheet is a sheet.
LEMMA ScaledSheet ==
  ASSUME NEW f, NEW k, IsSheet(f), IsFraction(k)
  PROVE  IsSheet(Scaled(f, k))
<1> DEFINE g == Scaled(f, k)
           material == [x \in DOMAIN f.material |->
              [f.material[x] EXCEPT !.value = Times(k, f.material[x].value)]]
           labour == [d \in DOMAIN f.labour |-> Times(k, f.labour[d])]
           center == [c \in DOMAIN f.center |->
              [f.center[c] EXCEPT !.applied = Times(k, f.center[c].applied),
                                  !.variance = [v \in Variances |-> Times(k, f.center[c].variance[v])]]]
<1>1. g = [f EXCEPT !.material = material, !.labour = labour, !.center = center]
  BY DEF Scaled
<1>2. DOMAIN f = {"material", "labour", "center", "cogs", "sales", "produced", "sold"}
  BY DEF IsSheet
<1>3. /\ g.material = material /\ g.labour = labour /\ g.center = center /\ Rest(f, g)
      /\ DOMAIN g = DOMAIN f
  <2> HIDE DEF material, labour, center, g
  <2> QED BY <1>1, <1>2 DEF Rest
<1>4. ASSUME NEW x \in DOMAIN f.material PROVE IsMaterial(material[x])
  <2>1. DOMAIN f.material[x] = {"quantity", "value"} /\ IsFraction(f.material[x].quantity)
        /\ IsFraction(f.material[x].value)
        /\ (f.material[x].quantity = Zero => f.material[x].value = Zero)
    BY DEF IsSheet, IsMaterial
  <2>2. /\ material[x].value = Times(k, f.material[x].value)
        /\ material[x].quantity = f.material[x].quantity /\ DOMAIN material[x] = {"quantity", "value"}
    BY <2>1
  <2>3. IsFraction(Times(k, f.material[x].value)) /\ Times(k, Zero) = Zero
    BY <2>1, FractionOps, TimesLaws
  <2> HIDE DEF material
  <2> QED BY <2>1, <2>2, <2>3 DEF IsMaterial
<1>5. ASSUME NEW c \in DOMAIN f.center PROVE IsCenter(center[c])
  <2>1. DOMAIN f.center[c] = {"applied", "variance", "pending"} /\ f.center[c].pending \in BOOLEAN
        /\ IsFraction(f.center[c].applied) /\ \A v \in Variances : IsFraction(f.center[c].variance[v])
    BY DEF IsSheet, IsCenter
  <2>2. /\ center[c].applied = Times(k, f.center[c].applied) /\ center[c].pending = f.center[c].pending
        /\ DOMAIN center[c].variance = Variances
        /\ \A v \in Variances : center[c].variance[v] = Times(k, f.center[c].variance[v])
        /\ DOMAIN center[c] = {"applied", "variance", "pending"}
    BY <2>1
  <2>3. IsFraction(Times(k, f.center[c].applied))
        /\ \A v \in Variances : IsFraction(Times(k, f.center[c].variance[v]))
    BY <2>1, FractionOps
  <2> HIDE DEF center
  <2> QED BY <2>1, <2>2, <2>3 DEF IsCenter
<1>6. DOMAIN material = DOMAIN f.material /\ DOMAIN center = DOMAIN f.center /\ DOMAIN labour = DOMAIN f.labour
      /\ \A d \in DOMAIN f.labour : labour[d] = Times(k, f.labour[d])
  OBVIOUS
<1>7. \A d \in DOMAIN f.labour : IsFraction(labour[d])
  <2>1. \A d \in DOMAIN f.labour : IsFraction(f.labour[d])
    BY DEF IsSheet
  <2> HIDE DEF labour
  <2> QED BY <1>6, <2>1, FractionOps
<1> HIDE DEF material, labour, center, g
<1>8. IsSheet(g)
  BY <1>2, <1>3, <1>4, <1>5, <1>6, <1>7 DEF IsSheet, Rest
<1> QED BY <1>8 DEF g

\* A distance grows with the factor.
LEMMA DistanceScales ==
  ASSUME NEW k, NEW x, IsFraction(k), IsPositive(k), IsFraction(x)
  PROVE  /\ Distance(Times(k, x)) = Times(k, Distance(x)) /\ IsFraction(Distance(x))
         /\ Distance(x) = Zero <=> x = Zero
<1>1. IsNegative(Times(k, x)) <=> IsNegative(x)
  BY FactorKeepsSign
<1>2. Times(k, Minus(Zero, x)) = Minus(Times(k, Zero), Times(k, x)) /\ Times(k, Zero) = Zero
  BY Distributes, TimesLaws, ZeroAmount
<1>3. IsFraction(Minus(Zero, x))
  BY FractionOps, ZeroAmount
<1>4. ASSUME Minus(Zero, x) = Zero PROVE x = Zero
  <2>1. Plus(Minus(Zero, x), x) = Zero /\ Plus(Zero, x) = x
    BY MinusPlus, PlusZero, ZeroAmount
  <2> QED BY <1>4, <2>1
<1>5. ~IsNegative(Zero)
  BY ZeroAmount DEF IsAmount
<1> QED BY <1>1, <1>2, <1>3, <1>4, <1>5 DEF Distance

\* A percentage does not change with the factor.
LEMMA PercentIgnores ==
  ASSUME NEW k, NEW x, NEW y, IsFraction(k), IsPositive(k), IsFraction(x), IsFraction(y), y # Zero
  PROVE  Percent(Times(k, x), Times(k, y)) = Percent(x, y)
<1> DEFINE w == Whole(100)
<1>1. IsFraction(w)
  BY WholeAt, 100 \in Int DEF At
<1>2. k # Zero
  BY PositiveFacts
<1> HIDE DEF w
<1>3. IsFraction(Times(w, x))
  BY <1>1, FractionOps
<1>4. Times(w, Times(k, x)) = Times(k, Times(w, x))
  BY <1>1, TimesSwaps
<1>5. Over(Times(k, Times(w, x)), Times(k, y)) = Over(Times(w, x), y)
  BY <1>2, <1>3, FactorCancels
<1> QED BY <1>4, <1>5 DEF Percent, w

\* A sheet and its multiple have the same shares, and both or neither cost anything.
LEMMA ShareIgnores ==
  ASSUME NEW f, NEW g, NEW k, IsSheet(f), IsSheet(g), IsFraction(k), IsPositive(k), IsScaled(f, g, k)
  PROVE  /\ IsPositive(ProductionCost(g)) <=> IsPositive(ProductionCost(f))
         /\ IsPositive(ProductionCost(f)) => \A e \in CostElements : Share(g, e) = Share(f, e)
<1>1. ProductionCost(g) = Times(k, ProductionCost(f)) /\ IsFraction(ProductionCost(f))
  BY ScaledCost, CostFacts
<1>2. IsPositive(ProductionCost(g)) <=> IsPositive(ProductionCost(f))
  BY <1>1, FactorKeepsSign
<1>3. ASSUME IsPositive(ProductionCost(f)), NEW e \in CostElements
      PROVE  Share(g, e) = Share(f, e)
  <2>1. ElementCost(g)[e] = Times(k, ElementCost(f)[e])
    BY ScaledCost
  <2>2. IsFraction(ElementCost(f)[e])
    BY CostFacts DEF AreFractions
  <2>3. ProductionCost(f) # Zero
    BY <1>1, <1>3, PositiveFacts
  <2> QED BY <1>1, <2>1, <2>2, <2>3, PercentIgnores DEF Share
<1> QED BY <1>2, <1>3

\* Months, one or more of which cost k times as much.
Grown(past, next, k) ==
  /\ DOMAIN next = DOMAIN past
  /\ \A m \in DOMAIN past : IsSheet(past[m]) /\ IsSheet(next[m])
  /\ \A m \in DOMAIN past : next[m] = past[m] \/ IsScaled(past[m], next[m], k)

\* The usable months and the means do not change with what those months cost.
LEMMA MeansIgnore ==
  ASSUME NEW past, NEW next, NEW k, IsFraction(k), IsPositive(k), Grown(past, next, k)
  PROVE  /\ Usable(next) = Usable(past)
         /\ \A e \in CostElements : Baseline(e, Usable(next), next) = Baseline(e, Usable(past), past)
<1>1. ASSUME NEW m \in DOMAIN past
      PROVE  /\ IsPositive(ProductionCost(next[m])) <=> IsPositive(ProductionCost(past[m]))
             /\ IsPositive(ProductionCost(past[m])) =>
                  \A e \in CostElements : Share(next[m], e) = Share(past[m], e)
  <2>1. IsSheet(past[m]) /\ IsSheet(next[m]) /\ (next[m] = past[m] \/ IsScaled(past[m], next[m], k))
    BY DEF Grown
  <2>2. CASE next[m] = past[m]
    BY <2>2
  <2>3. CASE IsScaled(past[m], next[m], k)
    BY <2>1, <2>3, ShareIgnores
  <2> QED BY <2>1, <2>2, <2>3
<1>2. Usable(next) = Usable(past)
  BY <1>1 DEF Usable, Grown
<1>3. ASSUME NEW e \in CostElements
      PROVE  Baseline(e, Usable(next), next) = Baseline(e, Usable(past), past)
  <2>1. \A m \in Usable(past) : Share(next[m], e) = Share(past[m], e)
    BY <1>1 DEF Usable
  <2>2. [m \in Usable(past) |-> Share(next[m], e)] = [m \in Usable(past) |-> Share(past[m], e)]
    BY <2>1
  <2> QED BY <1>2, <2>2 DEF Baseline
<1> QED BY <1>2, <1>3

\* What the shares of a month tell, from what it costs and how they deviate.
MixOf(costs, usable, deviation) ==
  IF ~costs \/ Cardinality(usable) < MinPeriods THEN {}
  ELSE {Finding("MIX_DEVIATION", <<e, "share">>, deviation[e], 10) :
          e \in {e \in CostElements : AtMost(Whole(10), Distance(deviation[e]))}}
Deviations(now, past) == [e \in CostElements |-> Minus(Share(now, e), Baseline(e, Usable(past), past))]
LEMMA MixIs ==
  ASSUME NEW now, NEW past
  PROVE  MixDeviation(now, past) =
           MixOf(IsPositive(ProductionCost(now)), Usable(past), Deviations(now, past))
BY Zenon DEF MixDeviation, MixOf, Deviations

\* What the overheads tell.
CifOf(measured, relative) ==
  {Finding("CIF_VARIANCE", cv, relative[cv], 5) :
     cv \in {cv \in measured \X Variances : AtMost(Whole(5), Distance(relative[cv]))}}
Relatives(f) == [cv \in Measured(f) \X Variances |-> Relative(f, cv[1], cv[2])]
LEMMA CifIs ==
  ASSUME NEW now
  PROVE  CifVariance(now) = CifOf(Measured(now), Relatives(now))
BY Zenon DEF CifVariance, CifOf, Relatives

\* The month that closes may cost k times as much: the findings stay.
LEMMA NowIgnores ==
  ASSUME NEW f, NEW g, NEW k, IsSheet(f), IsSheet(g), IsFraction(k), IsPositive(k), IsScaled(f, g, k),
         NEW past
  PROVE  Detect(g, past) = Detect(f, past)
<1>1. IsPositive(ProductionCost(g)) <=> IsPositive(ProductionCost(f))
  BY ShareIgnores
<1>2. MixDeviation(g, past) = MixDeviation(f, past)
  <2>1. CASE IsPositive(ProductionCost(f))
    <3>1. \A e \in CostElements : Share(g, e) = Share(f, e)
      BY <2>1, ShareIgnores
    <3>2. Deviations(g, past) = Deviations(f, past)
      BY <3>1 DEF Deviations
    <3>3. IsPositive(ProductionCost(g)) = IsPositive(ProductionCost(f))
      BY <1>1 DEF IsPositive
    <3> QED BY <3>2, <3>3, MixIs, Zenon
  <2>2. CASE ~IsPositive(ProductionCost(f))
    BY <1>1, <2>2, MixIs, Zenon DEF MixOf
  <2> QED BY <2>1, <2>2
<1>3. Measured(g) = Measured(f)
  <2>1. DOMAIN g.center = DOMAIN f.center
    BY DEF IsScaled, ScaledCenter
  <2>2. ASSUME NEW c \in DOMAIN f.center
        PROVE  (~g.center[c].pending /\ g.center[c].applied # Zero)
                 <=> (~f.center[c].pending /\ f.center[c].applied # Zero)
    <3>1. g.center[c].applied = Times(k, f.center[c].applied) /\ g.center[c].pending = f.center[c].pending
      BY DEF IsScaled, ScaledCenter
    <3>2. IsFraction(f.center[c].applied)
      BY DEF IsSheet, IsCenter
    <3>3. g.center[c].applied # Zero <=> f.center[c].applied # Zero
      BY <3>1, <3>2, FactorKeepsSign
    <3> QED BY <3>1, <3>3, Zenon
  <2> QED BY <2>1, <2>2, Zenon DEF Measured
<1>4. Relatives(g) = Relatives(f)
  <2>1. ASSUME NEW c \in Measured(f), NEW v \in Variances
        PROVE  Relative(g, c, v) = Relative(f, c, v)
    <3>1. c \in DOMAIN f.center /\ f.center[c].applied # Zero
      BY DEF Measured
    <3>2. g.center[c].applied = Times(k, f.center[c].applied)
          /\ g.center[c].variance[v] = Times(k, f.center[c].variance[v])
      BY <3>1 DEF IsScaled, ScaledCenter
    <3>3. IsFraction(f.center[c].applied) /\ IsFraction(f.center[c].variance[v])
      BY <3>1 DEF IsSheet, IsCenter
    <3>4. /\ Distance(g.center[c].applied) = Times(k, Distance(f.center[c].applied))
          /\ IsFraction(Distance(f.center[c].applied)) /\ Distance(f.center[c].applied) # Zero
      BY <3>1, <3>2, <3>3, DistanceScales
    <3> QED BY <3>2, <3>3, <3>4, PercentIgnores DEF Relative
  <2>2. \A cv \in Measured(f) \X Variances : Relative(g, cv[1], cv[2]) = Relative(f, cv[1], cv[2])
    BY <2>1
  <2> QED BY <1>3, <2>2 DEF Relatives
<1>5. CifVariance(g) = CifVariance(f)
  BY <1>3, <1>4, CifIs, Zenon
<1> QED BY <1>2, <1>5, Zenon DEF Detect

\* So may the months of the mean.
LEMMA PastIgnores ==
  ASSUME NEW now, NEW past, NEW next, NEW k, IsFraction(k), IsPositive(k), Grown(past, next, k)
  PROVE  Detect(now, next) = Detect(now, past)
<1>1. Usable(next) = Usable(past)
  BY MeansIgnore
<1>2. \A e \in CostElements : Baseline(e, Usable(next), next) = Baseline(e, Usable(past), past)
  BY MeansIgnore
<1>3. Deviations(now, next) = Deviations(now, past)
  BY <1>2 DEF Deviations
<1>4. MixDeviation(now, next) = MixDeviation(now, past)
  BY <1>1, <1>3, MixIs, Zenon
<1>5. DOMAIN next = DOMAIN past
  BY DEF Grown
<1> QED BY <1>4, <1>5, Zenon DEF Detect

\* A closed month has its sheet, and the last closing found what its months tell.
AlertInv ==
  /\ opened \in Nat /\ closed \subseteq 1 .. opened /\ closed \subseteq DOMAIN sheet
  /\ \A m \in DOMAIN sheet : sheet[m] \in Sheets
  /\ report # NoReport =>
       /\ report.now \in Sheets /\ \A m \in DOMAIN report.past : report.past[m] \in Sheets
       /\ report.found = Detect(report.now, report.past)

\* There are no closed months at the start.
LEMMA AlertStart == AnomaliesInit => AlertInv
<1>1. 1 \in Nat /\ DOMAIN [m \in {} |-> {}] = {} /\ {} \subseteq 1 .. 1
  OBVIOUS
<1> QED BY <1>1 DEF AnomaliesInit, AlertInv

\* Opening, closing and reopening keep it.
LEMMA AlertStep == AlertInv /\ [AnomaliesNext]_anomalyVars => AlertInv'
<1> SUFFICES ASSUME AlertInv, [AnomaliesNext]_anomalyVars PROVE AlertInv'
  OBVIOUS
<1> USE DEF AlertInv
<1>1. CASE OpenMonth
  <2>1. opened + 1 \in Nat /\ 1 .. opened \subseteq 1 .. (opened + 1)
    OBVIOUS
  <2> QED BY <1>1, <2>1 DEF OpenMonth
<1>2. ASSUME NEW m \in 1 .. MaxOpened, NEW f \in Sheets, CloseMonth(m, f) PROVE AlertInv'
  <2> DEFINE past == [x \in Newest(closed \ {m}) |-> sheet[x]]
  <2>1. /\ m \in 1 .. opened \ closed /\ closed' = closed \union {m} /\ opened' = opened
        /\ sheet' = [x \in DOMAIN sheet \union {m} |-> IF x = m THEN f ELSE sheet[x]]
        /\ report' = [n |-> report.n + 1, now |-> f, past |-> past, found |-> Detect(f, past)]
    BY <1>2, Zenon DEF CloseMonth
  <2>2. Newest(closed \ {m}) \subseteq closed
    BY DEF Newest
  <2>3. \A x \in DOMAIN past : past[x] \in Sheets
    BY <2>2
  <2>4. report'.now = f /\ report'.past = past /\ report'.found = Detect(f, past)
    <3> HIDE DEF past
    <3> QED BY <2>1
  <2> HIDE DEF past
  <2>5. report'.now \in Sheets /\ (\A x \in DOMAIN report'.past : report'.past[x] \in Sheets)
        /\ report'.found = Detect(report'.now, report'.past)
    BY <2>3, <2>4
  <2>6. opened' \in Nat /\ closed' \subseteq 1 .. opened' /\ closed' \subseteq DOMAIN sheet'
        /\ \A x \in DOMAIN sheet' : sheet'[x] \in Sheets
    BY <2>1
  <2> QED BY <2>5, <2>6
<1>3. ASSUME NEW m \in 1 .. MaxOpened, ReopenMonth(m) PROVE AlertInv'
  BY <1>3 DEF ReopenMonth
<1>4. CASE UNCHANGED anomalyVars
  BY <1>4 DEF anomalyVars
<1> QED BY <1>1, <1>2, <1>3, <1>4 DEF AnomaliesNext

\* What the closed months tell depends on no scale.
LEMMA AlertsOfShares == AlertInv => AlertsIgnoreScale
<1> SUFFICES ASSUME AlertInv, report # NoReport
             PROVE  /\ Detect(Scaled(report.now, Whole(2)), report.past) = report.found
                    /\ \A m \in DOMAIN report.past :
                         Detect(report.now, [report.past EXCEPT ![m] = Scaled(@, Whole(3))]) = report.found
  BY DEF AlertsIgnoreScale
<1>1. \A f \in Sheets : IsSheet(f)
  BY AnomaliesAssumption
<1>2. IsSheet(report.now) /\ (\A m \in DOMAIN report.past : IsSheet(report.past[m]))
      /\ report.found = Detect(report.now, report.past)
  BY <1>1 DEF AlertInv
<1>3. IsFraction(Whole(2)) /\ IsFraction(Whole(3)) /\ IsPositive(Whole(2)) /\ IsPositive(Whole(3))
  <2>1. At(Whole(2), 2, 1) /\ At(Whole(3), 3, 1)
    BY WholeAt, 2 \in Int, 3 \in Int
  <2> QED BY <2>1 DEF At, IsPositive, Whole
<1>4. PICK two, three : two = Whole(2) /\ three = Whole(3)
  OBVIOUS
<1>5. IsFraction(two) /\ IsFraction(three) /\ IsPositive(two) /\ IsPositive(three)
  BY <1>3, <1>4
<1>6. Detect(Scaled(report.now, two), report.past) = report.found
  <2>1. IsSheet(Scaled(report.now, two)) /\ IsScaled(report.now, Scaled(report.now, two), two)
    BY <1>2, <1>5, ScaledSheet, ScaledParts
  <2> QED BY <1>2, <1>5, <2>1, NowIgnores
<1>7. ASSUME NEW m \in DOMAIN report.past
      PROVE  Detect(report.now, [report.past EXCEPT ![m] = Scaled(report.past[m], three)]) = report.found
  <2>1. PICK past, f, g : past = report.past /\ f = past[m] /\ g = Scaled(f, three)
    OBVIOUS
  <2>2. IsSheet(f) /\ IsSheet(g) /\ IsScaled(f, g, three)
    BY <1>2, <1>5, <1>7, <2>1, ScaledSheet, ScaledParts
  <2>3. PICK next : next = [past EXCEPT ![m] = g]
    OBVIOUS
  <2>4. Grown(past, next, three)
    BY <1>2, <2>1, <2>2, <2>3 DEF Grown
  <2>5. Detect(report.now, next) = Detect(report.now, past)
    BY <1>5, <2>4, PastIgnores
  <2> QED BY <1>2, <2>1, <2>3, <2>5
<1> QED BY <1>4, <1>6, <1>7

\* Rule 1 of the detector (anomaly-detection.ts): a month that produced more, and cost as much
\* more, changes no finding, whether it is the one that closes or any of the mean.
THEOREM AlertsAreOfShares == AnomaliesSpec => []AlertsIgnoreScale
<1>1. AlertInv /\ [AnomaliesNext]_anomalyVars => AlertInv'
  BY AlertStep
<1> QED BY <1>1, AlertStart, AlertsOfShares, PTL DEF AnomaliesSpec

\* The amounts that are shown, before they are.
PriceOf(v0, v1, q0, q1) ==
  IF q0 = Zero \/ q1 = Zero THEN Zero ELSE Times(Minus(Over(v1, q1), Over(v0, q0)), q1)
QuantityOf(v0, v1, q0, q1) ==
  IF q0 = Zero THEN Minus(v1, v0) ELSE Times(Minus(q1, q0), Over(v0, q0))

\* What a material varied is what its price and its quantity did.
LEMMA EffectsAdd ==
  ASSUME NEW v0, NEW v1, NEW q0, NEW q1, IsFraction(v0), IsFraction(v1), IsFraction(q0), IsFraction(q1),
         q0 = Zero => v0 = Zero, q1 = Zero => v1 = Zero
  PROVE  /\ IsFraction(PriceOf(v0, v1, q0, q1)) /\ IsFraction(QuantityOf(v0, v1, q0, q1))
         /\ Plus(PriceOf(v0, v1, q0, q1), QuantityOf(v0, v1, q0, q1)) = Minus(v1, v0)
<1>0. IsFraction(Minus(v1, v0))
  BY FractionOps
<1>3. IsFraction(PriceOf(v0, v1, q0, q1)) /\ IsFraction(QuantityOf(v0, v1, q0, q1))
  <2>1. IsFraction(Zero)
    BY ZeroAmount
  <2>2. ASSUME q0 # Zero PROVE IsFraction(Over(v0, q0)) /\ IsFraction(Times(Minus(q1, q0), Over(v0, q0)))
    BY <2>2, FractionOps
  <2>3. ASSUME q0 # Zero, q1 # Zero
        PROVE  IsFraction(Times(Minus(Over(v1, q1), Over(v0, q0)), q1))
    <3>1. IsFraction(Over(v1, q1)) /\ IsFraction(Over(v0, q0))
      BY <2>3, FractionOps
    <3>2. IsFraction(Minus(Over(v1, q1), Over(v0, q0)))
      BY <3>1, FractionOps
    <3> QED BY <3>2, FractionOps
  <2> QED BY <1>0, <2>1, <2>2, <2>3 DEF PriceOf, QuantityOf
<1>1. CASE q0 = Zero
  <2>1. PriceOf(v0, v1, q0, q1) = Zero /\ QuantityOf(v0, v1, q0, q1) = Minus(v1, v0)
    BY <1>1 DEF PriceOf, QuantityOf
  <2> QED BY <1>0, <2>1, PlusZero
<1>2. CASE q0 # Zero
  <2>1. PICK p : p = Over(v0, q0)
    OBVIOUS
  <2>2. IsFraction(p) /\ Times(p, q0) = v0
    BY <1>2, <2>1, FractionOps, OverTimes
  <2>3. QuantityOf(v0, v1, q0, q1) = Times(Minus(q1, q0), p)
    BY <1>2, <2>1 DEF PriceOf, QuantityOf
  <2>4. Times(Minus(q1, q0), p) = Minus(Times(p, q1), v0)
    <3>1. IsFraction(Minus(q1, q0))
      BY FractionOps
    <3>2. Times(Minus(q1, q0), p) = Times(p, Minus(q1, q0))
      BY <2>2, <3>1, Distributes
    <3> QED BY <2>2, <3>2, Distributes
  <2>5. IsFraction(Times(p, q1))
    BY <2>2, FractionOps
  <2>6. CASE q1 = Zero
    <3>1. PriceOf(v0, v1, q0, q1) = Zero
      BY <1>2, <2>6 DEF PriceOf, QuantityOf
    <3>2. Times(p, q1) = v1
      BY <2>2, <2>6, TimesLaws
    <3> QED BY <1>0, <2>3, <2>4, <3>1, <3>2, PlusZero
  <2>7. CASE q1 # Zero
    <3>1. PICK r : r = Over(v1, q1)
      OBVIOUS
    <3>2. IsFraction(r) /\ Times(r, q1) = v1
      BY <2>7, <3>1, FractionOps, OverTimes
    <3>3. PriceOf(v0, v1, q0, q1) = Times(Minus(r, p), q1)
      BY <1>2, <2>1, <2>7, <3>1 DEF PriceOf, QuantityOf
    <3>4. Times(Minus(r, p), q1) = Minus(v1, Times(p, q1))
      <4>1. IsFraction(Minus(r, p))
        BY <2>2, <3>2, FractionOps
      <4>2. Times(Minus(r, p), q1) = Times(q1, Minus(r, p))
        BY <4>1, Distributes
      <4>3. Times(q1, Minus(r, p)) = Minus(Times(q1, r), Times(q1, p))
        BY <2>2, <3>2, Distributes
      <4>4. Times(q1, r) = Times(r, q1) /\ Times(q1, p) = Times(p, q1)
        BY <2>2, <3>2, Distributes
      <4> QED BY <3>2, <4>2, <4>3, <4>4
    <3>5. Plus(Minus(v1, Times(p, q1)), Minus(Times(p, q1), v0)) = Minus(v1, v0)
      BY <2>5, MinusChain
    <3> QED BY <1>3, <2>3, <2>4, <3>3, <3>4, <3>5
  <2> QED BY <2>6, <2>7
<1> QED BY <1>1, <1>2, <1>3

\* Half cents are amounts, and add up.
LEMMA CentsAdd ==
  ASSUME NEW n \in Nat, NEW m \in Nat
  PROVE  /\ IsAmount(HalfCents(n)) /\ IsFraction(HalfCents(n))
         /\ Plus(HalfCents(n), HalfCents(m)) = HalfCents(n + m)
<1>1. PICK s \in Nat : s > 0 /\ s = 2 * Cents
  BY ComparisonAssumption
<1> QED BY <1>1, PartFacts DEF HalfCents, IsAmount

\* What is shown of an amount is half a cent away from it at most, and nothing shows as nothing.
LEMMA ShownIsNear ==
  ASSUME NEW x, IsFraction(x)
  PROVE  IsFraction(Shown(x)) /\ Near(Shown(x), x, HalfCents(1)) /\ Near(x, Shown(x), HalfCents(1))
<1>1. Cents \in Nat /\ Cents > 0
  BY ComparisonAssumption
<1>2. /\ IsFraction(Nearest(x, Cents, "even"))
      /\ Near(x, Nearest(x, Cents, "even"), Fraction(1, 2 * Cents))
  BY <1>1, NearestIsNear
<1>3. IsFraction(Shown(x)) /\ Near(x, Shown(x), HalfCents(1))
  BY <1>2 DEF Shown, Rounded, HalfCents
<1>4. IsFraction(HalfCents(1))
  BY CentsAdd
<1> QED BY <1>3, <1>4, NearFacts

LEMMA ShownZero == Shown(Zero) = Zero /\ IsFraction(Zero)
<1>1. PICK s \in Nat : s > 0 /\ s = Cents
  BY ComparisonAssumption
<1>2. Zero[1] = 0 /\ Zero[2] = 1
  BY DEF Zero, Whole
<1>3. (0 * s) \div 1 = 0 /\ (0 * s) % 1 = 0
  BY <1>1
<1>4. Nearest(Zero, s, "even") = Fraction(0, s)
  BY <1>2, <1>3 DEF Nearest
<1>5. At(Fraction(0, s), 0, s) /\ At(Zero, 0, s) /\ s \in Int /\ s # 0 /\ 0 \in Int
  BY <1>1, FractionAt, ZeroAt
<1>6. Fraction(0, s) = Zero
  BY <1>1, <1>5, SameAt
<1> QED BY <1>1, <1>4, <1>6, ZeroAmount DEF Shown, Rounded

\* The sum of what is shown, and what is shown of the sum.
LEMMA ShownAdds ==
  ASSUME NEW S, IsFiniteSet(S), NEW f, NEW g, AreFractions(g, S), \A i \in S : f[i] = Shown(g[i])
  PROVE  Near(SumOver(f, S), Shown(SumOver(g, S)), HalfCents(Cardinality(S) + 1))
<1>1. AreFractions(f, S) /\ \A i \in S : Near(f[i], g[i], HalfCents(1))
  BY ShownIsNear DEF AreFractions
<1>2. PICK t : t = [i \in S |-> HalfCents(1)]
  OBVIOUS
<1>3. AreFractions(t, S) /\ \A i \in S : t[i] = HalfCents(1)
  BY <1>2, CentsAdd DEF AreFractions
<1>4. Near(SumOver(f, S), SumOver(g, S), SumOver(t, S))
  BY <1>1, <1>3, NearSums
<1>5. PICK n \in Nat : n = Cardinality(S)
  BY FS_CardinalityType
<1>6. SumOver(t, S) = HalfCents(n)
  <2>1. PICK s \in Nat : s > 0 /\ s = 2 * Cents
    BY ComparisonAssumption
  <2>2. \A i \in S : t[i] = Fraction(1, s)
    BY <1>3, <2>1 DEF HalfCents
  <2> QED BY <1>5, <2>1, <2>2, PartsOfOne DEF HalfCents
<1>7. IsFraction(SumOver(f, S)) /\ IsFraction(SumOver(g, S))
  BY <1>1, SumType
<1>8. IsFraction(Shown(SumOver(g, S))) /\ Near(SumOver(g, S), Shown(SumOver(g, S)), HalfCents(1))
  BY <1>7, ShownIsNear
<1>9. IsFraction(HalfCents(n)) /\ IsFraction(HalfCents(1)) /\ Plus(HalfCents(n), HalfCents(1)) = HalfCents(n + 1)
  BY CentsAdd
<1> QED BY <1>4, <1>5, <1>6, <1>7, <1>8, <1>9, NearNext

\* What a material is shown to have varied is what its price and its quantity are shown to,
\* but for the cents of the three.
LEMMA EffectsNear ==
  ASSUME NEW v0, NEW v1, NEW q0, NEW q1, IsFraction(v0), IsFraction(v1), IsFraction(q0), IsFraction(q1),
         q0 = Zero => v0 = Zero, q1 = Zero => v1 = Zero
  PROVE  Near(Plus(Effects(v0, v1, q0, q1).price, Effects(v0, v1, q0, q1).quantity),
              Shown(Minus(v1, v0)), HalfCents(3))
<1>1. PICK p, q, v : p = PriceOf(v0, v1, q0, q1) /\ q = QuantityOf(v0, v1, q0, q1) /\ v = Minus(v1, v0)
  OBVIOUS
<1>2. IsFraction(p) /\ IsFraction(q) /\ IsFraction(v) /\ Plus(p, q) = v
  BY <1>1, EffectsAdd, FractionOps
<1>3. Effects(v0, v1, q0, q1).price = Shown(p) /\ Effects(v0, v1, q0, q1).quantity = Shown(q)
  <2>1. CASE q0 = Zero
    <3>1. p = Zero /\ q = Minus(v1, v0)
      BY <1>1, <2>1 DEF PriceOf, QuantityOf
    <3>2. Effects(v0, v1, q0, q1).price = Zero /\ Effects(v0, v1, q0, q1).quantity = Shown(Minus(v1, v0))
      BY <2>1 DEF Effects
    <3> QED BY <3>1, <3>2, ShownZero
  <2>2. CASE q0 # Zero /\ q1 = Zero
    <3>1. p = Zero /\ q = Times(Minus(q1, q0), Over(v0, q0))
      BY <1>1, <2>2 DEF PriceOf, QuantityOf
    <3>2. /\ Effects(v0, v1, q0, q1).price = Zero
          /\ Effects(v0, v1, q0, q1).quantity = Shown(Times(Minus(q1, q0), Over(v0, q0)))
      BY <2>2 DEF Effects
    <3> QED BY <3>1, <3>2, ShownZero
  <2>3. CASE q0 # Zero /\ q1 # Zero
    <3>1. /\ p = Times(Minus(Over(v1, q1), Over(v0, q0)), q1)
          /\ q = Times(Minus(q1, q0), Over(v0, q0))
      BY <1>1, <2>3 DEF PriceOf, QuantityOf
    <3>2. /\ Effects(v0, v1, q0, q1).price = Shown(Times(Minus(Over(v1, q1), Over(v0, q0)), q1))
          /\ Effects(v0, v1, q0, q1).quantity = Shown(Times(Minus(q1, q0), Over(v0, q0)))
      BY <2>3 DEF Effects
    <3> QED BY <3>1, <3>2
  <2> QED BY <2>1, <2>2, <2>3
<1>4. /\ IsFraction(Shown(p)) /\ Near(Shown(p), p, HalfCents(1))
      /\ IsFraction(Shown(q)) /\ Near(Shown(q), q, HalfCents(1))
      /\ IsFraction(Shown(v)) /\ Near(v, Shown(v), HalfCents(1))
  BY <1>2, ShownIsNear
<1>5. /\ IsFraction(HalfCents(1)) /\ IsFraction(HalfCents(2))
      /\ Plus(HalfCents(1), HalfCents(1)) = HalfCents(2) /\ Plus(HalfCents(2), HalfCents(1)) = HalfCents(3)
  BY CentsAdd
<1>6. Near(Plus(Shown(p), Shown(q)), Plus(p, q), Plus(HalfCents(1), HalfCents(1)))
  BY <1>2, <1>4, <1>5, NearPlus
<1>7. Near(Plus(Shown(p), Shown(q)), v, HalfCents(2))
  BY <1>2, <1>5, <1>6
<1>8. IsFraction(Plus(Shown(p), Shown(q)))
  BY <1>4, FractionOps
<1>9. Near(Plus(Shown(p), Shown(q)), Shown(v), Plus(HalfCents(2), HalfCents(1)))
  BY <1>2, <1>4, <1>5, <1>7, <1>8, NearNext
<1> QED BY <1>1, <1>3, <1>5, <1>9

-----------------------------------------------------------------------------
(* Comparison.                                                             *)

TotalKeys == CostElements \cup {"productionCost", "costOfGoodsSold", "grossMargin"}

\* A function with finitely many values, all of them fractions.
Values(g) == IsFiniteSet(DOMAIN g) /\ AreFractions(g, DOMAIN g)

\* The totals of r are those of its detail.
IsResult(r) ==
  /\ DOMAIN r.total = TotalKeys /\ AreFractions(r.total, TotalKeys)
  /\ r.total["productionCost"] = SumOver(r.total, CostElements)
  /\ Values(r.material) /\ Values(r.labour) /\ Values(r.center)
  /\ r.total["rawMaterial"] = SumOver(r.material, DOMAIN r.material)
  /\ r.total["directLabor"] = SumOver(r.labour, DOMAIN r.labour)
  /\ r.total["indirectCosts"] = SumOver(r.center, DOMAIN r.center)

\* The totals of a sheet, key by key.
LEMMA TotalsOf ==
  ASSUME NEW f
  PROVE  /\ DOMAIN Totals(f) = TotalKeys
         /\ \A e \in CostElements : Totals(f)[e] = ElementCost(f)[e]
         /\ Totals(f)["productionCost"] = ProductionCost(f)
         /\ Totals(f)["costOfGoodsSold"] = f.cogs
         /\ Totals(f)["grossMargin"] = Minus(f.sales, f.cogs)
BY DEF Totals, TotalKeys, CostElements

\* What the engine leaves adds up.
LEMMA ResultAdds ==
  ASSUME NEW f, IsSheet(f)
  PROVE  IsResult(Result(f))
<1> DEFINE material == [x \in DOMAIN f.material |-> f.material[x].value]
           center == [c \in DOMAIN f.center |-> f.center[c].applied]
<1>1. /\ Result(f).total = Totals(f) /\ Result(f).material = material
      /\ Result(f).labour = f.labour /\ Result(f).center = center
  <2> HIDE DEF material, center
  <2> QED BY DEF Result, material, center
<1>2. /\ Totals(f)["rawMaterial"] = SumOver(material, DOMAIN f.material)
      /\ Totals(f)["directLabor"] = SumOver(f.labour, DOMAIN f.labour)
      /\ Totals(f)["indirectCosts"] = SumOver(center, DOMAIN f.center)
  <2>1. {"rawMaterial", "directLabor", "indirectCosts"} = CostElements
    BY DEF CostElements
  <2>2. /\ ElementCost(f)["rawMaterial"] = SumOver(material, DOMAIN f.material)
        /\ ElementCost(f)["directLabor"] = SumOver(f.labour, DOMAIN f.labour)
        /\ ElementCost(f)["indirectCosts"] = SumOver(center, DOMAIN f.center)
    BY CostFacts
  <2> HIDE DEF material, center
  <2> QED BY <2>1, <2>2, TotalsOf
<1>3. Values(material) /\ Values(f.labour) /\ Values(center)
  BY DEF IsSheet, IsMaterial, IsCenter, AreFractions, Values
<1>4. DOMAIN material = DOMAIN f.material /\ DOMAIN center = DOMAIN f.center
  OBVIOUS
<1> HIDE DEF material, center
<1>5. AreFractions(Totals(f), TotalKeys)
  <2>1. \A e \in CostElements : IsFraction(Totals(f)[e])
    BY TotalsOf, CostFacts DEF AreFractions
  <2>2. IsFraction(f.cogs) /\ IsFraction(f.sales)
    BY DEF IsSheet
  <2>3. IsFraction(Minus(f.sales, f.cogs)) /\ IsFraction(ProductionCost(f))
    BY <2>2, FractionOps, CostFacts
  <2> QED BY <2>1, <2>2, <2>3, TotalsOf DEF AreFractions, TotalKeys
<1>6. Totals(f)["productionCost"] = SumOver(Totals(f), CostElements)
  <2>1. \A e \in CostElements : Totals(f)[e] = ElementCost(f)[e]
    BY TotalsOf
  <2>2. SumOver(Totals(f), CostElements) = SumOver(ElementCost(f), CostElements)
    BY <2>1, ElementsFinite, SumSame
  <2> QED BY <2>2, TotalsOf DEF ProductionCost
<1> QED BY <1>1, <1>2, <1>3, <1>4, <1>5, <1>6, TotalsOf DEF IsResult

\* Every value of h is k times that of g.
Multiple(g, h, k) == DOMAIN h = DOMAIN g /\ \A x \in DOMAIN g : h[x] = Times(k, g[x])

\* Another money is a multiple.
LEMMA MoneyMultiplies ==
  ASSUME NEW g, NEW s, NEW d, AreFractions(g, DOMAIN g), IsFraction(s), IsPositive(s), IsFraction(d)
  PROVE  Multiple(g, Money(g, s, d), Over(d, s))
<1>1. ASSUME NEW x \in DOMAIN g
      PROVE  Over(Times(g[x], d), s) = Times(Over(d, s), g[x])
  <2>1. IsFraction(g[x])
    BY DEF AreFractions
  <2> QED BY <2>1, OverOfTimes
<1> QED BY <1>1 DEF Multiple, Money

\* The sum of a multiple is the multiple of the sum.
LEMMA MultipleSum ==
  ASSUME NEW g, NEW h, NEW k, NEW S, IsFraction(k), IsFiniteSet(S), AreFractions(g, S),
         S \subseteq DOMAIN g, Multiple(g, h, k)
  PROVE  SumOver(h, S) = Times(k, SumOver(g, S)) /\ AreFractions(h, S)
<1>1. \A x \in S : h[x] = Times(k, g[x])
  BY DEF Multiple
<1>2. SumOver(h, S) = Times(k, SumOver(g, S))
  BY <1>1, SumTimes
<1>3. AreFractions(h, S)
  BY <1>1, FractionOps DEF AreFractions
<1> QED BY <1>2, <1>3

\* In whatever money, the totals are those of the detail.
MultipleResult(r, q, k) ==
  /\ Multiple(r.total, q.total, k) /\ Multiple(r.material, q.material, k)
  /\ Multiple(r.labour, q.labour, k) /\ Multiple(r.center, q.center, k)
LEMMA MultipleAdds ==
  ASSUME NEW r, NEW q, NEW k, IsFraction(k), IsResult(r), MultipleResult(r, q, k)
  PROVE  IsResult(q)
<1>1. /\ Values(r.material) /\ Values(r.labour) /\ Values(r.center)
      /\ DOMAIN r.total = TotalKeys /\ AreFractions(r.total, TotalKeys)
  BY DEF IsResult
<1>2. /\ SumOver(q.material, DOMAIN r.material) = Times(k, SumOver(r.material, DOMAIN r.material))
      /\ AreFractions(q.material, DOMAIN r.material) /\ DOMAIN q.material = DOMAIN r.material
  BY <1>1, MultipleSum DEF MultipleResult, Values, Multiple
<1>3. /\ SumOver(q.labour, DOMAIN r.labour) = Times(k, SumOver(r.labour, DOMAIN r.labour))
      /\ AreFractions(q.labour, DOMAIN r.labour) /\ DOMAIN q.labour = DOMAIN r.labour
  BY <1>1, MultipleSum DEF MultipleResult, Values, Multiple
<1>4. /\ SumOver(q.center, DOMAIN r.center) = Times(k, SumOver(r.center, DOMAIN r.center))
      /\ AreFractions(q.center, DOMAIN r.center) /\ DOMAIN q.center = DOMAIN r.center
  BY <1>1, MultipleSum DEF MultipleResult, Values, Multiple
<1>5. CostElements \subseteq TotalKeys /\ IsFiniteSet(CostElements) /\ AreFractions(r.total, CostElements)
  <2>1. IsFiniteSet(CostElements)
    BY ElementsFinite
  <2> QED BY <1>1, <2>1 DEF TotalKeys, AreFractions
<1>6. SumOver(q.total, CostElements) = Times(k, SumOver(r.total, CostElements))
  BY <1>1, <1>5, MultipleSum DEF MultipleResult
<1>7. DOMAIN q.total = TotalKeys /\ \A x \in TotalKeys : q.total[x] = Times(k, r.total[x])
  BY <1>1 DEF MultipleResult, Multiple
<1>8. AreFractions(q.total, TotalKeys)
  BY <1>1, <1>7, FractionOps DEF AreFractions
<1>9. {"productionCost", "rawMaterial", "directLabor", "indirectCosts"} \subseteq TotalKeys
  BY DEF TotalKeys, CostElements
<1>10. /\ q.total["productionCost"] = Times(k, r.total["productionCost"])
       /\ q.total["rawMaterial"] = Times(k, r.total["rawMaterial"])
       /\ q.total["directLabor"] = Times(k, r.total["directLabor"])
       /\ q.total["indirectCosts"] = Times(k, r.total["indirectCosts"])
  BY <1>7, <1>9
<1>11. /\ r.total["productionCost"] = SumOver(r.total, CostElements)
       /\ r.total["rawMaterial"] = SumOver(r.material, DOMAIN r.material)
       /\ r.total["directLabor"] = SumOver(r.labour, DOMAIN r.labour)
       /\ r.total["indirectCosts"] = SumOver(r.center, DOMAIN r.center)
  BY DEF IsResult
<1> QED BY <1>1, <1>2, <1>3, <1>4, <1>6, <1>7, <1>8, <1>10, <1>11 DEF IsResult, Values

\* What two functions vary, key by key, is what their sums do.
LEMMA MovesAdd ==
  ASSUME NEW g, NEW h, Values(g), Values(h)
  PROVE  /\ IsFiniteSet(DOMAIN Moves(g, h)) /\ AreFractions(Moves(g, h), DOMAIN Moves(g, h))
         /\ SumOver(Moves(g, h), DOMAIN Moves(g, h))
              = Minus(SumOver(h, DOMAIN h), SumOver(g, DOMAIN g))
<1> DEFINE D == DOMAIN g \cup DOMAIN h
           old == [x \in D |-> ValueAt(g, x)]
           new == [x \in D |-> ValueAt(h, x)]
<1>1. DOMAIN Moves(g, h) = D
  BY DEF Moves
<1>2. \A x \in D : Moves(g, h)[x] = Minus(new[x], old[x])
  BY <1>1 DEF Moves
<1>3. IsFiniteSet(D) /\ IsFiniteSet(DOMAIN g) /\ IsFiniteSet(DOMAIN h)
  BY FS_Union DEF Values
<1>4. AreFractions(old, D) /\ AreFractions(new, D)
  BY ZeroAmount DEF Values, AreFractions, ValueAt
<1>5. /\ \A x \in D : x \notin DOMAIN g => old[x] = Zero
      /\ \A x \in D : x \notin DOMAIN h => new[x] = Zero
      /\ \A x \in DOMAIN g : old[x] = g[x]
      /\ \A x \in DOMAIN h : new[x] = h[x]
      /\ DOMAIN g \subseteq D /\ DOMAIN h \subseteq D
  BY DEF ValueAt
<1> HIDE DEF D, old, new
<1>6. SumOver(Moves(g, h), D) = Minus(SumOver(new, D), SumOver(old, D))
  BY <1>2, <1>3, <1>4, SumMinus
<1>9. AreFractions(Moves(g, h), D)
  BY <1>2, <1>4, FractionOps DEF AreFractions
<1>7. SumOver(new, D) = SumOver(new, DOMAIN h) /\ SumOver(old, D) = SumOver(old, DOMAIN g)
  BY <1>3, <1>4, <1>5, SumExtended
<1>8. SumOver(new, DOMAIN h) = SumOver(h, DOMAIN h) /\ SumOver(old, DOMAIN g) = SumOver(g, DOMAIN g)
  BY <1>3, <1>5, SumSame
<1> QED BY <1>1, <1>3, <1>6, <1>7, <1>8, <1>9

\* ... and the lines that are shown explain what is shown of it.
LEMMA LinesExplain ==
  ASSUME NEW g, NEW h, Values(g), Values(h), NEW detail, detail.line = LinesOf(g, h)
  PROVE  Explains(detail, Shown(Minus(SumOver(h, DOMAIN h), SumOver(g, DOMAIN g))))
<1>1. PICK D, f : D = DOMAIN Moves(g, h) /\ f = [x \in D |-> LinesOf(g, h)[x].delta]
  OBVIOUS
<1>2. DOMAIN LinesOf(g, h) = D
  BY <1>1 DEF LinesOf, Moves
<1>3. \A x \in D : f[x] = Shown(Moves(g, h)[x])
  BY <1>1 DEF LinesOf, Moves, Delta
<1>4. /\ IsFiniteSet(D) /\ AreFractions(Moves(g, h), D)
      /\ SumOver(Moves(g, h), D) = Minus(SumOver(h, DOMAIN h), SumOver(g, DOMAIN g))
  BY <1>1, MovesAdd
<1>5. Near(SumOver(f, D), Shown(SumOver(Moves(g, h), D)), HalfCents(Cardinality(D) + 1))
  BY <1>3, <1>4, ShownAdds
<1>6. SumOfDeltas(detail) = SumOver(f, D) /\ DOMAIN detail.line = D
  BY <1>1, <1>2 DEF SumOfDeltas
<1> QED BY <1>4, <1>5, <1>6 DEF Explains

\* What the older month is compared as, and when the months have units to divide by.
Older(f, s, d) == IF Given(s) /\ Given(d) THEN Reexpressed(Result(f), s, d) ELSE Result(f)
CanDivide(u) == Given(u) /\ IsPositive(u)

\* The months and indices that are compared.
IsIndex(x) == x = NoData \/ (IsFraction(x) /\ IsPositive(x))
Asked(f, g, s, d, factor) ==
  /\ IsSheet(f) /\ IsSheet(g) /\ IsIndex(s) /\ IsIndex(d) /\ IsFraction(factor) /\ IsPositive(factor)

\* The parts of a comparison.
Assembled(homogeneous, comparable, total, components, unit, from, to, materials, departments, centers, of) ==
  [shown |-> TRUE, homogeneous |-> homogeneous, comparable |-> comparable, total |-> total,
   components |-> components, unit |-> unit, units |-> [from |-> from, to |-> to],
   materials |-> materials, departments |-> departments, centers |-> centers, of |-> of]

\* What c shows of the totals, of the detail, and of what it compares.
ShowsTotals(c, a, b, ua, ub, s, d, factor) ==
  /\ c.homogeneous <=> Given(s) /\ Given(d)
  /\ c.comparable <=> CanDivide(ua) /\ CanDivide(ub)
  /\ c.total = [x \in DOMAIN a.total |-> Delta(a.total[x], b.total[x])]
  /\ c.comparable => c.unit = ByUnit(a.total, b.total, ua, ub, factor)
  /\ Given(ua) => c.units.from = Over(ua, factor)
  /\ Given(ub) => c.units.to = Over(ub, factor)
ShowsDetail(c, a, b, qa, qb) ==
  /\ c.materials.line = LinesOf(a.material, b.material)
  /\ c.materials.effect = [x \in DOMAIN a.material \cup DOMAIN b.material |->
       Effects(ValueAt(a.material, x), ValueAt(b.material, x), ValueAt(qa, x), ValueAt(qb, x))]
  /\ c.departments.line = LinesOf(a.labour, b.labour)
  /\ c.centers.line = LinesOf(a.center, b.center)
ShowsMonths(c, f, g, s, d) ==
  c.of.from = f /\ c.of.to = g /\ c.of.source = s /\ c.of.destination = d

\* A comparison, part by part.
LEMMA ComparedParts ==
  ASSUME NEW f, NEW g, NEW s, NEW d, NEW factor, NEW c, c = Comparing(f, g, s, d, factor)
  PROVE  /\ ShowsTotals(c, Older(f, s, d), Result(g), UnitsOf(f), UnitsOf(g), s, d, factor)
         /\ ShowsDetail(c, Older(f, s, d), Result(g), Quantity(f), Quantity(g))
         /\ ShowsMonths(c, f, g, s, d)
<1> DEFINE a == Older(f, s, d)
           b == Result(g)
           ua == UnitsOf(f)
           ub == UnitsOf(g)
           total == [x \in DOMAIN a.total |-> Delta(a.total[x], b.total[x])]
           move == Moves(a.total, b.total)
           moved == SumOver(move, CostElements)
           components == Contributions([e \in CostElements |-> move[e]], moved)
           comparable == Given(ua) /\ Given(ub) /\ IsPositive(ua) /\ IsPositive(ub)
           unit == IF comparable THEN ByUnit(a.total, b.total, ua, ub, factor) ELSE total
           from == IF Given(ua) THEN Over(ua, factor) ELSE NoData
           to == IF Given(ub) THEN Over(ub, factor) ELSE NoData
           materials == Materials(a.material, b.material, Quantity(f), Quantity(g), moved)
           departments == Lines(a.labour, b.labour, move["directLabor"])
           centers == Lines(a.center, b.center, move["indirectCosts"])
           of == [from |-> f, to |-> g, source |-> s, destination |-> d]
           homogeneous == Given(s) /\ Given(d)
<1>1. c = Assembled(homogeneous, comparable, total, components, unit, from, to, materials,
                    departments, centers, of)
  BY Zenon DEF Comparing, Older, Assembled
<1>2. /\ materials.line = LinesOf(a.material, b.material)
      /\ materials.effect = [x \in DOMAIN a.material \cup DOMAIN b.material |->
           Effects(ValueAt(a.material, x), ValueAt(b.material, x),
                   ValueAt(Quantity(f), x), ValueAt(Quantity(g), x))]
      /\ departments.line = LinesOf(a.labour, b.labour) /\ centers.line = LinesOf(a.center, b.center)
  <2> HIDE DEF a, b, move, moved, total
  <2> QED BY DEF Materials, Lines
<1>3. of.from = f /\ of.to = g /\ of.source = s /\ of.destination = d
  OBVIOUS
<1>4. comparable <=> CanDivide(ua) /\ CanDivide(ub)
  BY Zenon DEF CanDivide
<1>5. comparable => unit = ByUnit(a.total, b.total, ua, ub, factor)
  BY Zenon
<1>6. (Given(ua) => from = Over(ua, factor)) /\ (Given(ub) => to = Over(ub, factor))
  BY Zenon
<1> HIDE DEF homogeneous, components, comparable, unit, from, to, materials, departments, centers, of, total, move, moved
<1>7. /\ c.homogeneous = homogeneous /\ c.comparable = comparable /\ c.total = total
      /\ c.unit = unit /\ c.units.from = from /\ c.units.to = to
      /\ c.materials = materials /\ c.departments = departments /\ c.centers = centers /\ c.of = of
  <2>1. PICK h, k, t, p, u, m, n, x, y, z, o :
          /\ h = homogeneous /\ k = comparable /\ t = total /\ p = components /\ u = unit /\ m = from
          /\ n = to /\ x = materials /\ y = departments /\ z = centers /\ o = of
    BY Zenon
  <2>2. c = Assembled(h, k, t, p, u, m, n, x, y, z, o)
    BY <1>1, <2>1, Zenon
  <2>3. /\ c.homogeneous = h /\ c.comparable = k /\ c.total = t /\ c.unit = u
        /\ c.units.from = m /\ c.units.to = n
        /\ c.materials = x /\ c.departments = y /\ c.centers = z /\ c.of = o
    BY <2>2 DEF Assembled
  <2> QED BY <2>1, <2>3, Zenon
<1> QED BY <1>2, <1>3, <1>4, <1>5, <1>6, <1>7, Zenon
   DEF total, homogeneous, ShowsTotals, ShowsDetail, ShowsMonths

\* The units a month is divided by.
LEMMA UnitsAre ==
  ASSUME NEW f, IsSheet(f), CanDivide(UnitsOf(f))
  PROVE  Given(UnitsOf(f)) /\ IsAmount(UnitsOf(f)) /\ IsFraction(UnitsOf(f)) /\ UnitsOf(f) # Zero
<1>1. UnitsOf(f) \in {f.produced, f.sold}
  BY DEF UnitsOf, Default
<1>2. IsOptional(f.produced) /\ IsOptional(f.sold) /\ ~Given(NoData)
  BY DEF IsSheet, Given
<1>3. Given(UnitsOf(f)) /\ IsPositive(UnitsOf(f))
  BY DEF CanDivide
<1>4. IsAmount(UnitsOf(f)) /\ IsFraction(UnitsOf(f))
  BY <1>1, <1>2, <1>3 DEF IsOptional, IsAmount, Given
<1> QED BY <1>3, <1>4, PositiveFacts

\* An amount of a unit of management, times the units of management.
LEMMA UnitsMakeUp ==
  ASSUME NEW x, NEW u, NEW factor, IsFraction(x), IsAmount(u), IsFraction(u), u # Zero,
         IsFraction(factor), IsPositive(factor)
  PROVE  MakeUp(Times(Shown(Over(x, u)), factor), Over(u, factor), u, Shown(x))
<1>1. PICK p, y : p = Over(x, u) /\ y = Shown(p)
  OBVIOUS
<1>2. IsFraction(p) /\ Times(p, u) = x
  BY <1>1, FractionOps, OverTimes
<1>3. IsFraction(y) /\ Near(y, p, HalfCents(1))
  BY <1>1, <1>2, ShownIsNear
<1>4. Times(Times(y, factor), Over(u, factor)) = Times(y, u)
  BY <1>3, UnitsConverted
<1>5. IsFraction(HalfCents(1))
  BY CentsAdd
<1>6. Near(Times(y, u), Times(p, u), Times(HalfCents(1), u))
  BY <1>2, <1>3, <1>5, NearTimes
<1>7. IsFraction(Times(y, u)) /\ IsFraction(Times(HalfCents(1), u))
  BY <1>3, <1>5, FractionOps
<1>8. IsFraction(Shown(x)) /\ Near(x, Shown(x), HalfCents(1))
  BY ShownIsNear
<1>9. Near(Times(y, u), Shown(x), Plus(Times(HalfCents(1), u), HalfCents(1)))
  BY <1>2, <1>5, <1>6, <1>7, <1>8, NearNext
<1> QED BY <1>1, <1>4, <1>9 DEF MakeUp

\* The factor that reexpresses.
LEMMA IndexFactor ==
  ASSUME NEW s, NEW d, IsIndex(s), IsIndex(d), Given(s), Given(d)
  PROVE  IsFraction(s) /\ IsPositive(s) /\ IsFraction(d) /\ IsFraction(Over(d, s))
<1>1. IsFraction(s) /\ IsPositive(s) /\ IsFraction(d)
  BY DEF IsIndex, Given
<1> QED BY <1>1, PositiveFacts, FractionOps

\* The older month, in either money: its totals are its detail, and what was not consumed is
\* worth nothing.
LEMMA OlderFacts ==
  ASSUME NEW f, NEW s, NEW d, IsSheet(f), IsIndex(s), IsIndex(d)
  PROVE  /\ IsResult(Older(f, s, d)) /\ DOMAIN Older(f, s, d).material = DOMAIN f.material
         /\ \A x \in DOMAIN f.material :
              f.material[x].quantity = Zero => Older(f, s, d).material[x] = Zero
         /\ Given(s) /\ Given(d) =>
              \A x \in TotalKeys : Older(f, s, d).total[x] = Times(Over(d, s), Totals(f)[x])
<1>1. PICK r : r = Result(f)
  OBVIOUS
<1>2. IsResult(r) /\ r.total = Totals(f)
  BY <1>1, ResultAdds DEF Result
<1>3. DOMAIN r.material = DOMAIN f.material /\ \A x \in DOMAIN f.material : r.material[x] = f.material[x].value
  BY <1>1 DEF Result
<1>4. \A x \in DOMAIN f.material : f.material[x].quantity = Zero => r.material[x] = Zero
  BY <1>3 DEF IsSheet, IsMaterial
<1>5. CASE ~(Given(s) /\ Given(d))
  <2>1. Older(f, s, d) = r
    BY <1>1, <1>5 DEF Older
  <2> QED BY <1>2, <1>3, <1>4, <1>5, <2>1
<1>6. CASE Given(s) /\ Given(d)
  <2>1. PICK k : k = Over(d, s)
    OBVIOUS
  <2>2. IsFraction(s) /\ IsPositive(s) /\ IsFraction(d) /\ IsFraction(k)
    BY <1>6, <2>1, IndexFactor
  <2>3. PICK q : q = Reexpressed(r, s, d)
    OBVIOUS
  <2>4. Older(f, s, d) = q
    BY <1>1, <1>6, <2>3 DEF Older
  <2>5. /\ q.total = Money(r.total, s, d) /\ q.material = Money(r.material, s, d)
        /\ q.labour = Money(r.labour, s, d) /\ q.center = Money(r.center, s, d)
    BY <2>3 DEF Reexpressed
  <2>6. /\ DOMAIN r.total = TotalKeys /\ AreFractions(r.total, DOMAIN r.total)
        /\ AreFractions(r.material, DOMAIN r.material) /\ AreFractions(r.labour, DOMAIN r.labour)
        /\ AreFractions(r.center, DOMAIN r.center)
    BY <1>2 DEF IsResult, Values
  <2>7. MultipleResult(r, q, k)
    BY <2>1, <2>2, <2>5, <2>6, MoneyMultiplies DEF MultipleResult
  <2>8. IsResult(q)
    BY <1>2, <2>2, <2>7, MultipleAdds
  <2>9. /\ DOMAIN q.material = DOMAIN r.material
        /\ \A x \in DOMAIN r.material : q.material[x] = Times(k, r.material[x])
        /\ \A x \in TotalKeys : q.total[x] = Times(k, r.total[x])
    BY <2>6, <2>7 DEF MultipleResult, Multiple
  <2>10. Times(k, Zero) = Zero
    BY <2>2, TimesLaws
  <2> QED BY <1>2, <1>3, <1>4, <2>1, <2>4, <2>8, <2>9, <2>10
<1> QED BY <1>5, <1>6

\* What varied in the detail is what varied in total.
Moved(g, h) == Minus(SumOver(h, DOMAIN h), SumOver(g, DOMAIN g))
TotalsAdd(a, b, total) ==
  /\ Near(SumOver([e \in CostElements |-> total[e].delta], CostElements),
          total["productionCost"].delta, HalfCents(4))
  /\ total["rawMaterial"].delta = Shown(Moved(a.material, b.material))
  /\ total["directLabor"].delta = Shown(Moved(a.labour, b.labour))
  /\ total["indirectCosts"].delta = Shown(Moved(a.center, b.center))

\* So it is between any two results.
LEMMA TotalsExplained ==
  ASSUME NEW a, NEW b, IsResult(a), IsResult(b), NEW total,
         total = [x \in DOMAIN a.total |-> Delta(a.total[x], b.total[x])]
  PROVE  TotalsAdd(a, b, total)
<1>1. /\ DOMAIN a.total = TotalKeys /\ AreFractions(a.total, TotalKeys)
      /\ DOMAIN b.total = TotalKeys /\ AreFractions(b.total, TotalKeys)
  BY DEF IsResult
<1>2. \A x \in TotalKeys : total[x].delta = Shown(Minus(b.total[x], a.total[x]))
  BY <1>1 DEF Delta
<1>3. CostElements \subseteq TotalKeys
      /\ {"productionCost", "rawMaterial", "directLabor", "indirectCosts"} \subseteq TotalKeys
  BY DEF TotalKeys, CostElements
<1>4. PICK shows, moves : /\ shows = [e \in CostElements |-> total[e].delta]
                          /\ moves = [e \in CostElements |-> Minus(b.total[e], a.total[e])]
  OBVIOUS
<1>5. \A e \in CostElements : shows[e] = Shown(moves[e]) /\ moves[e] = Minus(b.total[e], a.total[e])
  BY <1>2, <1>3, <1>4
<1>6. AreFractions(a.total, CostElements) /\ AreFractions(b.total, CostElements)
  BY <1>1, <1>3 DEF AreFractions
<1>7. /\ SumOver(moves, CostElements)
           = Minus(SumOver(b.total, CostElements), SumOver(a.total, CostElements))
      /\ AreFractions(moves, CostElements)
  <2>1. SumOver(moves, CostElements)
          = Minus(SumOver(b.total, CostElements), SumOver(a.total, CostElements))
    BY <1>5, <1>6, ElementsFinite, SumMinus
  <2>2. AreFractions(moves, CostElements)
    BY <1>5, <1>6, FractionOps DEF AreFractions
  <2> QED BY <2>1, <2>2
<1>8. Near(SumOver(shows, CostElements), Shown(SumOver(moves, CostElements)), HalfCents(4))
  <2>1. Cardinality(CostElements) = 3
    <3>1. IsFiniteSet({}) /\ Cardinality({}) = 0
      BY FS_EmptySet
    <3>2. PICK one : one = {} \cup {"rawMaterial"}
      OBVIOUS
    <3>3. PICK two : two = one \cup {"directLabor"}
      OBVIOUS
    <3>7. "rawMaterial" \notin {} /\ "directLabor" \notin one /\ "indirectCosts" \notin two
      BY <3>2, <3>3
    <3>8. IsFiniteSet(one) /\ Cardinality(one) = 0 + 1
      BY <3>1, <3>2, <3>7, FS_AddElement, Zenon
    <3>4. IsFiniteSet(two) /\ Cardinality(two) = Cardinality(one) + 1
      BY <3>8, <3>3, <3>7, FS_AddElement, Zenon
    <3>9. Cardinality(two \cup {"indirectCosts"}) = Cardinality(two) + 1
      BY <3>4, <3>7, FS_AddElement, Zenon
    <3>5. Cardinality(two \cup {"indirectCosts"}) = 3
      BY <3>8, <3>4, <3>9
    <3>6. two \cup {"indirectCosts"} = CostElements
      BY <3>2, <3>3 DEF CostElements
    <3> QED BY <3>5, <3>6
  <2>2. Near(SumOver(shows, CostElements), Shown(SumOver(moves, CostElements)),
             HalfCents(Cardinality(CostElements) + 1))
    BY <1>5, <1>7, ElementsFinite, ShownAdds
  <2> QED BY <2>1, <2>2
<1>9. /\ total["productionCost"].delta = Shown(Minus(b.total["productionCost"], a.total["productionCost"]))
      /\ total["rawMaterial"].delta = Shown(Minus(b.total["rawMaterial"], a.total["rawMaterial"]))
      /\ total["directLabor"].delta = Shown(Minus(b.total["directLabor"], a.total["directLabor"]))
      /\ total["indirectCosts"].delta = Shown(Minus(b.total["indirectCosts"], a.total["indirectCosts"]))
  BY <1>2, <1>3
<1>10. /\ a.total["productionCost"] = SumOver(a.total, CostElements)
       /\ b.total["productionCost"] = SumOver(b.total, CostElements)
       /\ a.total["rawMaterial"] = SumOver(a.material, DOMAIN a.material)
       /\ a.total["directLabor"] = SumOver(a.labour, DOMAIN a.labour)
       /\ a.total["indirectCosts"] = SumOver(a.center, DOMAIN a.center)
       /\ b.total["rawMaterial"] = SumOver(b.material, DOMAIN b.material)
       /\ b.total["directLabor"] = SumOver(b.labour, DOMAIN b.labour)
       /\ b.total["indirectCosts"] = SumOver(b.center, DOMAIN b.center)
  BY DEF IsResult
<1> QED BY <1>4, <1>7, <1>8, <1>9, <1>10 DEF TotalsAdd, Moved

\* Price and quantity explain the materials, line by line.
LEMMA MaterialsExplained ==
  ASSUME NEW f, NEW g, NEW s, NEW d, IsSheet(f), IsSheet(g), IsIndex(s), IsIndex(d),
         NEW x \in DOMAIN f.material \cup DOMAIN g.material
  PROVE  LET a == Older(f, s, d).material
             b == Result(g).material
             e == Effects(ValueAt(a, x), ValueAt(b, x), ValueAt(Quantity(f), x), ValueAt(Quantity(g), x))
         IN Near(Plus(e.price, e.quantity), LinesOf(a, b)[x].delta, HalfCents(3))
<1>1. PICK a, b : a = Older(f, s, d).material /\ b = Result(g).material
  OBVIOUS
<1>2. PICK v0, v1, q0, q1 : /\ v0 = ValueAt(a, x) /\ v1 = ValueAt(b, x)
                            /\ q0 = ValueAt(Quantity(f), x) /\ q1 = ValueAt(Quantity(g), x)
  OBVIOUS
<1>3. /\ DOMAIN a = DOMAIN f.material /\ DOMAIN Quantity(f) = DOMAIN f.material
      /\ \A y \in DOMAIN f.material : IsFraction(a[y]) /\ Quantity(f)[y] = f.material[y].quantity
      /\ \A y \in DOMAIN f.material : f.material[y].quantity = Zero => a[y] = Zero
  <2>1. IsResult(Older(f, s, d)) /\ DOMAIN a = DOMAIN f.material
        /\ \A y \in DOMAIN f.material : f.material[y].quantity = Zero => a[y] = Zero
    BY <1>1, OlderFacts
  <2>2. \A y \in DOMAIN f.material : IsFraction(a[y])
    BY <1>1, <2>1 DEF IsResult, Values, AreFractions
  <2> QED BY <2>1, <2>2 DEF Quantity
<1>4. /\ DOMAIN b = DOMAIN g.material /\ DOMAIN Quantity(g) = DOMAIN g.material
      /\ \A y \in DOMAIN g.material : IsFraction(b[y]) /\ Quantity(g)[y] = g.material[y].quantity
      /\ \A y \in DOMAIN g.material : g.material[y].quantity = Zero => b[y] = Zero
  BY <1>1 DEF Result, Quantity, IsSheet, IsMaterial
<1>5. /\ \A y \in DOMAIN f.material : IsFraction(f.material[y].quantity)
      /\ \A y \in DOMAIN g.material : IsFraction(g.material[y].quantity)
  BY DEF IsSheet, IsMaterial
<1>6. IsFraction(v0) /\ IsFraction(q0) /\ (q0 = Zero => v0 = Zero)
  BY <1>2, <1>3, <1>5, ZeroAmount DEF ValueAt
<1>7. IsFraction(v1) /\ IsFraction(q1) /\ (q1 = Zero => v1 = Zero)
  BY <1>2, <1>4, <1>5, ZeroAmount DEF ValueAt
<1>8. Near(Plus(Effects(v0, v1, q0, q1).price, Effects(v0, v1, q0, q1).quantity),
           Shown(Minus(v1, v0)), HalfCents(3))
  BY <1>6, <1>7, EffectsNear
<1>9. LinesOf(a, b)[x].delta = Shown(Minus(v1, v0))
  BY <1>2, <1>3, <1>4 DEF LinesOf, Delta
<1> QED BY <1>1, <1>2, <1>8, <1>9

\* What costs k times as much has k times the totals.
LEMMA InflatedTotals ==
  ASSUME NEW f, NEW g, NEW k, IsSheet(f), IsSheet(g), IsFraction(k), g = Inflated(f, k)
  PROVE  \A x \in TotalKeys : Totals(g)[x] = Times(k, Totals(f)[x])
<1>1. PICK h : h = Scaled(f, k)
  OBVIOUS
<1>2. IsScaled(f, h, k) /\ Rest(f, h) /\ DOMAIN h = DOMAIN f
  BY <1>1, ScaledParts
<1>3. DOMAIN f = {"material", "labour", "center", "cogs", "sales", "produced", "sold"}
  BY DEF IsSheet
<1>4. g = [h EXCEPT !.cogs = Times(k, h.cogs), !.sales = Times(k, h.sales)]
  BY <1>1 DEF Inflated
<1>5. /\ g.material = h.material /\ g.labour = h.labour /\ g.center = h.center
      /\ g.cogs = Times(k, f.cogs) /\ g.sales = Times(k, f.sales)
  BY <1>2, <1>3, <1>4 DEF Rest
<1>6. IsScaled(f, g, k)
  BY <1>2, <1>5 DEF IsScaled, ScaledMaterial, ScaledLabour, ScaledCenter
<1>7. /\ \A e \in CostElements : ElementCost(g)[e] = Times(k, ElementCost(f)[e])
      /\ ProductionCost(g) = Times(k, ProductionCost(f))
  BY <1>6, ScaledCost
<1>8. Minus(g.sales, g.cogs) = Times(k, Minus(f.sales, f.cogs))
  <2>1. IsFraction(f.sales) /\ IsFraction(f.cogs)
    BY DEF IsSheet
  <2> QED BY <1>5, <2>1, Distributes
<1> QED BY <1>5, <1>7, <1>8, TotalsOf DEF TotalKeys

\* The statement about one comparison.
Explained(c) ==
  LET k == Over(c.of.destination, c.of.source)
  IN /\ Near(SumOver([e \in CostElements |-> c.total[e].delta], CostElements),
             c.total["productionCost"].delta, HalfCents(4))
     /\ Explains(c.materials, c.total["rawMaterial"].delta)
     /\ Explains(c.departments, c.total["directLabor"].delta)
     /\ Explains(c.centers, c.total["indirectCosts"].delta)
     /\ \A x \in DOMAIN c.materials.effect :
          Near(Plus(c.materials.effect[x].price, c.materials.effect[x].quantity),
               c.materials.line[x].delta, HalfCents(3))
     /\ c.comparable => \A x \in DOMAIN c.total :
          /\ MakeUp(c.unit[x].a, c.units.from, UnitsOf(c.of.from), c.total[x].a)
          /\ MakeUp(c.unit[x].b, c.units.to, UnitsOf(c.of.to), c.total[x].b)
     /\ (c.homogeneous /\ c.of.to = Inflated(c.of.from, k)) =>
          \A x \in DOMAIN c.total : c.total[x].delta = Zero

\* Whatever two months are compared, in whatever money, the statement holds.
LEMMA ComparingExplains ==
  ASSUME NEW f, NEW g, NEW s, NEW d, NEW factor, Asked(f, g, s, d, factor), NEW c,
         c = Comparing(f, g, s, d, factor)
  PROVE  Explained(c)
<1>1. PICK a, b, ua, ub : a = Older(f, s, d) /\ b = Result(g) /\ ua = UnitsOf(f) /\ ub = UnitsOf(g)
  OBVIOUS
<1>2. IsSheet(f) /\ IsSheet(g) /\ IsIndex(s) /\ IsIndex(d) /\ IsFraction(factor) /\ IsPositive(factor)
  BY DEF Asked
<1>0. /\ ShowsTotals(c, a, b, ua, ub, s, d, factor)
      /\ ShowsDetail(c, a, b, Quantity(f), Quantity(g)) /\ ShowsMonths(c, f, g, s, d)
  BY <1>1, ComparedParts, Zenon
<1>3. /\ c.homogeneous <=> Given(s) /\ Given(d)
      /\ c.comparable <=> CanDivide(ua) /\ CanDivide(ub)
      /\ c.total = [x \in DOMAIN a.total |-> Delta(a.total[x], b.total[x])]
      /\ c.comparable => c.unit = ByUnit(a.total, b.total, ua, ub, factor)
      /\ Given(ua) => c.units.from = Over(ua, factor)
      /\ Given(ub) => c.units.to = Over(ub, factor)
  BY <1>0, Zenon DEF ShowsTotals
<1>4. /\ c.materials.line = LinesOf(a.material, b.material)
      /\ c.materials.effect = [x \in DOMAIN a.material \cup DOMAIN b.material |->
           Effects(ValueAt(a.material, x), ValueAt(b.material, x),
                   ValueAt(Quantity(f), x), ValueAt(Quantity(g), x))]
      /\ c.departments.line = LinesOf(a.labour, b.labour)
      /\ c.centers.line = LinesOf(a.center, b.center)
  BY <1>0, Zenon DEF ShowsDetail
<1>5. c.of.from = f /\ c.of.to = g /\ c.of.source = s /\ c.of.destination = d
  BY <1>0, Zenon DEF ShowsMonths
<1>6. IsResult(a) /\ IsResult(b) /\ DOMAIN a.material = DOMAIN f.material
  BY <1>1, <1>2, OlderFacts, ResultAdds
<1>7. /\ Near(SumOver([e \in CostElements |-> c.total[e].delta], CostElements),
              c.total["productionCost"].delta, HalfCents(4))
      /\ Explains(c.materials, c.total["rawMaterial"].delta)
      /\ Explains(c.departments, c.total["directLabor"].delta)
      /\ Explains(c.centers, c.total["indirectCosts"].delta)
  <2>1. PICK total : total = c.total
    OBVIOUS
  <2>2. total = [x \in DOMAIN a.total |-> Delta(a.total[x], b.total[x])]
    BY <1>3, <2>1
  <2>3. TotalsAdd(a, b, total)
    BY <1>6, <2>2, TotalsExplained, Zenon
  <2>4. /\ Values(a.material) /\ Values(a.labour) /\ Values(a.center)
        /\ Values(b.material) /\ Values(b.labour) /\ Values(b.center)
    BY <1>6 DEF IsResult
  <2>5. /\ Explains(c.materials, Shown(Moved(a.material, b.material)))
        /\ Explains(c.departments, Shown(Moved(a.labour, b.labour)))
        /\ Explains(c.centers, Shown(Moved(a.center, b.center)))
    BY <1>4, <2>4, LinesExplain DEF Moved
  <2> QED BY <2>1, <2>3, <2>5, Zenon DEF TotalsAdd
<1>8. ASSUME NEW x \in DOMAIN c.materials.effect
      PROVE  Near(Plus(c.materials.effect[x].price, c.materials.effect[x].quantity),
                  c.materials.line[x].delta, HalfCents(3))
  <2>1. DOMAIN b.material = DOMAIN g.material
    BY <1>1 DEF Result
  <2>2. x \in DOMAIN f.material \cup DOMAIN g.material /\ x \in DOMAIN a.material \cup DOMAIN b.material
    BY <1>4, <1>6, <2>1
  <2>3. PICK e : e = Effects(ValueAt(a.material, x), ValueAt(b.material, x),
                             ValueAt(Quantity(f), x), ValueAt(Quantity(g), x))
    OBVIOUS
  <2>4. Near(Plus(e.price, e.quantity), LinesOf(a.material, b.material)[x].delta, HalfCents(3))
    BY <1>1, <1>2, <2>2, <2>3, MaterialsExplained
  <2>5. c.materials.effect[x] = e
    BY <1>4, <2>2, <2>3
  <2> QED BY <1>4, <2>4, <2>5
<1>9. /\ DOMAIN a.total = TotalKeys /\ AreFractions(a.total, TotalKeys) /\ AreFractions(b.total, TotalKeys)
      /\ DOMAIN c.total = TotalKeys
      /\ \A x \in TotalKeys :
           /\ c.total[x].a = Shown(a.total[x]) /\ c.total[x].b = Shown(b.total[x])
           /\ c.total[x].delta = Shown(Minus(b.total[x], a.total[x]))
  BY <1>3, <1>6 DEF IsResult, Delta
<1>10. ASSUME c.comparable, NEW x \in DOMAIN c.total
       PROVE  /\ MakeUp(c.unit[x].a, c.units.from, UnitsOf(c.of.from), c.total[x].a)
              /\ MakeUp(c.unit[x].b, c.units.to, UnitsOf(c.of.to), c.total[x].b)
  <2>1. /\ Given(ua) /\ IsAmount(ua) /\ IsFraction(ua) /\ ua # Zero
        /\ Given(ub) /\ IsAmount(ub) /\ IsFraction(ub) /\ ub # Zero
    BY <1>1, <1>2, <1>3, <1>10, UnitsAre
  <2>2. IsFraction(a.total[x]) /\ IsFraction(b.total[x]) /\ x \in TotalKeys
    BY <1>9 DEF AreFractions
  <2>3. c.unit = ByUnit(a.total, b.total, ua, ub, factor)
        /\ c.units.from = Over(ua, factor) /\ c.units.to = Over(ub, factor)
    BY <1>3, <1>10, <2>1
  <2>4. /\ c.unit[x].a = Times(Shown(Over(a.total[x], ua)), factor)
        /\ c.unit[x].b = Times(Shown(Over(b.total[x], ub)), factor)
    BY <1>9, <2>2, <2>3 DEF ByUnit, Delta
  <2>5. /\ MakeUp(Times(Shown(Over(a.total[x], ua)), factor), Over(ua, factor), ua, Shown(a.total[x]))
        /\ MakeUp(Times(Shown(Over(b.total[x], ub)), factor), Over(ub, factor), ub, Shown(b.total[x]))
    BY <1>2, <2>1, <2>2, UnitsMakeUp
  <2> QED BY <1>1, <1>5, <1>9, <2>2, <2>3, <2>4, <2>5
<1>11. ASSUME c.homogeneous, c.of.to = Inflated(c.of.from, Over(c.of.destination, c.of.source)),
              NEW x \in DOMAIN c.total
       PROVE  c.total[x].delta = Zero
  <2>1. PICK k : k = Over(d, s)
    OBVIOUS
  <2>2. Given(s) /\ Given(d) /\ IsFraction(k) /\ g = Inflated(f, k)
    BY <1>2, <1>3, <1>5, <1>11, <2>1, IndexFactor
  <2>3. x \in TotalKeys
    BY <1>9
  <2>4. a.total[x] = Times(k, Totals(f)[x])
    BY <1>1, <1>2, <2>1, <2>2, <2>3, OlderFacts
  <2>5. b.total[x] = Times(k, Totals(f)[x])
    <3>1. b.total = Totals(g)
      BY <1>1 DEF Result
    <3> QED BY <1>2, <2>2, <2>3, <3>1, InflatedTotals
  <2>6. IsFraction(a.total[x])
    BY <1>9, <2>3 DEF AreFractions
  <2>7. Minus(b.total[x], a.total[x]) = Zero
    BY <2>4, <2>5, <2>6, MinusChain
  <2> QED BY <1>9, <2>3, <2>7, ShownZero
<1> QED BY <1>7, <1>8, <1>10, <1>11, Zenon DEF Explained

\* A comparison is of two sheets, in indices of the series.
ComparedInv ==
  /\ AlertInv
  /\ compared # NotCompared =>
       \E f, g, s, d, factor : Asked(f, g, s, d, factor) /\ compared = Comparing(f, g, s, d, factor)

\* Nothing is compared at the start.
LEMMA ComparedStart == ComparisonInit => ComparedInv
BY AlertStart DEF ComparisonInit, ComparedInv

\* A comparison leaves the months alone, and is of what they show.
LEMMA ComparedStep == ComparedInv /\ [ComparisonNext]_comparisonVars => ComparedInv'
<1> SUFFICES ASSUME ComparedInv, [ComparisonNext]_comparisonVars PROVE ComparedInv'
  OBVIOUS
<1>1. AlertInv /\ (compared # NotCompared =>
        \E f, g, s, d, factor : Asked(f, g, s, d, factor) /\ compared = Comparing(f, g, s, d, factor))
  BY DEF ComparedInv
<1>2. ASSUME NEW m \in 1 .. opened, NEW n \in 1 .. opened, NEW series \in Series, NEW factor \in Factors,
             Compare(m, n, series, factor)
      PROVE  ComparedInv'
  <2>1. PICK f \in Sides(m), g \in Sides(n) :
          compared' = Comparing(f, g, IndexOf(series, m), IndexOf(series, n), factor)
    BY <1>2, Zenon DEF Compare
  <2>2. f \in Sheets /\ g \in Sheets
    BY <1>1 DEF Sides, AlertInv
  <2>3. PICK s, d : s = IndexOf(series, m) /\ d = IndexOf(series, n)
    OBVIOUS
  <2>4. IsIndex(s) /\ IsIndex(d)
    BY <2>3, ComparisonAssumption DEF IndexOf, IsIndex
  <2>5. Asked(f, g, s, d, factor)
    BY <2>2, <2>4, AnomaliesAssumption, ComparisonAssumption DEF Asked
  <2>6. compared' = Comparing(f, g, s, d, factor)
    BY <2>1, <2>3, Zenon
  <2>7. AlertInv'
    <3>1. UNCHANGED anomalyVars
      BY <1>2, Zenon DEF Compare
    <3> QED BY <1>1, <3>1, AlertStep
  <2> QED BY <2>5, <2>6, <2>7, Zenon DEF ComparedInv
<1>3. CASE compared = NotCompared /\ AnomaliesNext /\ UNCHANGED compared
  BY <1>1, <1>3, AlertStep DEF ComparedInv
<1>4. CASE UNCHANGED comparisonVars
  <2>1. UNCHANGED anomalyVars /\ UNCHANGED compared
    BY <1>4 DEF comparisonVars
  <2>2. AlertInv'
    BY <1>1, <2>1, AlertStep
  <2> QED BY <1>1, <2>1, <2>2, Zenon DEF ComparedInv
<1> QED BY <1>2, <1>3, <1>4, Zenon DEF ComparisonNext

\* Whatever was compared is explained.
LEMMA ComparedExplains == ComparedInv => VariationIsExplained
<1> SUFFICES ASSUME ComparedInv, compared # NotCompared PROVE Explained(compared)
  BY Zenon DEF VariationIsExplained, Explained
<1>1. PICK f, g, s, d, factor : Asked(f, g, s, d, factor) /\ compared = Comparing(f, g, s, d, factor)
  BY Zenon DEF ComparedInv
<1> QED BY <1>1, ComparingExplains

\* What varied between two months (period-comparison.ts) is explained to the end: by the three
\* elements, by the detail of each, of every material by its price and its quantity, in one
\* money and by unit of management.
THEOREM VariationExplained == ComparisonSpec => []VariationIsExplained
<1>1. ComparedInv /\ [ComparisonNext]_comparisonVars => ComparedInv'
  BY ComparedStep
<1> QED BY <1>1, ComparedStart, ComparedExplains, PTL DEF ComparisonSpec
=============================================================================
