------------------------------ MODULE Calendar ------------------------------
(***************************************************************************)
(* The months of the structures of a company as dates: the rhythm of the   *)
(* company and that of each structure (effective-rhythm.ts), the codes     *)
(* and bounds of a period (period-calendar.ts), and how the opening of the *)
(* next one goes through them while the rhythm may be changed              *)
(* (company-service.ts, update).                                           *)
(*                                                                         *)
(* A code is <<form, year, a, b>>: form M with the month, Q with the month *)
(* and the half, T with the quarter, C with the month and the day.  A day  *)
(* is a number (a Date at midnight UTC).                                   *)
(***************************************************************************)
EXTENDS Integers, Sequences

CONSTANTS
  Structures,   \* structures of the company
  Today,        \* dates <<year, month, day>> a structure may be created on
  OwnRhythms,   \* rhythms a structure may have of its own: [kind, lengthDays, anchor]
  Inherited,    \* a null rhythm
  MaxChain      \* bound on the periods of a structure

ASSUME CalendarAssumption ==
  /\ MaxChain \in Nat
  /\ \A date \in Today : date[1] \in Nat \ {0} /\ date[2] \in 1 .. 12 /\ date[3] \in 1 .. 31
  /\ \A r \in OwnRhythms :
       \/ r.kind \in {"MONTHLY", "BIWEEKLY", "QUARTERLY"}
       \/ r.kind = "CUSTOM_DAYS" /\ r.lengthDays \in 1 .. 366 /\ r.anchor \in Int

VARIABLES
  rhythm,     \* periodicity of the company
  change,     \* local of its update: the rhythm to be written, or "none"
  own,        \* periodicity, periodLengthDays and periodAnchorDate of a structure
  born,       \* its period as created, the day and the rhythm of then
  opening,    \* local of openNext: the code it is going to create, or NoCode
  periods,    \* its cost_periods, in the order they were opened: [code, start, end]
  mixed       \* history: a rhythm was changed, or a period opened, on an old reading

calendarVars == <<rhythm, change, own, born, opening, periods, mixed>>

Rhythms == {"MONTHLY", "BIWEEKLY", "QUARTERLY"}
Plain(kind) == [kind |-> kind, lengthDays |-> 0, anchor |-> 0]
NoCode  == <<"none", 0, 0, 0>>
Unborn  == [code |-> NoCode, day |-> 0, rhythm |-> "none"]

CalendarInit ==
  /\ rhythm \in Rhythms
  /\ change = "none"
  /\ own \in [Structures -> OwnRhythms \union {Inherited}]
  /\ born = [s \in Structures |-> Unborn]
  /\ opening = [s \in Structures |-> NoCode]
  /\ periods = [s \in Structures |-> << >>]
  /\ mixed = FALSE

-----------------------------------------------------------------------------
(* Date.UTC, getUTCMonth and their kin.                                      *)

Leap(y) == y % 4 = 0 /\ (y % 100 # 0 \/ y % 400 = 0)
DaysOf(y, m) == IF m = 2 THEN IF Leap(y) THEN 29 ELSE 28
                ELSE IF m \in {4, 6, 9, 11} THEN 30 ELSE 31
Before(y, m) == LET b[i \in 1 .. 12] == IF i = 1 THEN 0 ELSE b[i - 1] + DaysOf(y, i - 1) IN b[m]
Utc(y, m, d) == 365 * y + (y - 1) \div 4 - (y - 1) \div 100 + (y - 1) \div 400 + Before(y, m) + d
DateOf(day) ==
  LET y == CHOOSE z \in day \div 366 - 1 .. day \div 365 + 1 : Utc(z, 1, 1) <= day /\ day < Utc(z + 1, 1, 1)
      m == CHOOSE i \in 1 .. 12 : Utc(y, i, 1) <= day /\ day < Utc(y, i, 1) + DaysOf(y, i)
  IN <<y, m, day - Utc(y, m, 1) + 1>>

-----------------------------------------------------------------------------
(* Codes and bounds.                                                         *)

IsoCode(day) == LET d == DateOf(day) IN <<"C", d[1], d[2], d[3]>>
StartOfCode(code) == Utc(code[2], code[3], code[4])
CycleStartFor(day, r) == r.anchor + ((day - r.anchor) \div r.lengthDays) * r.lengthDays

CodeFromDate(day, r) ==
  LET d == DateOf(day)
  IN CASE r.kind = "MONTHLY"   -> <<"M", d[1], d[2], 0>>
       [] r.kind = "BIWEEKLY"  -> <<"Q", d[1], d[2], IF d[3] <= 15 THEN 1 ELSE 2>>
       [] r.kind = "QUARTERLY" -> <<"T", d[1], (d[2] - 1) \div 3 + 1, 0>>
       [] OTHER           -> IsoCode(CycleStartFor(day, r))

\* An old code read with another rhythm: of a month, and only of a month.
NormalizeLegacyCode(code, r) ==
  IF code[1] # "M" THEN code
  ELSE CASE r.kind = "MONTHLY"   -> code
         [] r.kind = "BIWEEKLY"  -> <<"Q", code[2], code[3], 1>>
         [] r.kind = "QUARTERLY" -> <<"T", code[2], (code[3] - 1) \div 3 + 1, 0>>
         [] OTHER           -> IsoCode(CycleStartFor(Utc(code[2], code[3], 1), r))

\* InvalidPeriodCodeError otherwise.
IsCodeOf(code, r) ==
  CASE r.kind = "MONTHLY"   -> code[1] = "M"
    [] r.kind = "BIWEEKLY"  -> code[1] = "Q"
    [] r.kind = "QUARTERLY" -> code[1] = "T"
    [] OTHER           -> code[1] = "C" /\ (StartOfCode(code) - r.anchor) % r.lengthDays = 0

PeriodBounds(code, r) ==
  LET y == code[2]
      m == IF code[1] = "T" THEN (code[3] - 1) * 3 + 1 ELSE code[3]
      start == CASE code[1] = "C" -> StartOfCode(code)
                 [] code[1] = "Q" /\ code[4] = 2 -> Utc(y, m, 16)
                 [] OTHER -> Utc(y, m, 1)
      last  == IF code[1] = "T" THEN m + 2 ELSE m
      end   == CASE code[1] = "C" -> start + r.lengthDays - 1
                 [] code[1] = "Q" /\ code[4] = 1 -> Utc(y, m, 15)
                 [] OTHER -> Utc(y, last, DaysOf(y, last))
  IN [code |-> code, start |-> start, end |-> end]

FollowingMonth(y, m) == IF m = 12 THEN <<y + 1, 1>> ELSE <<y, m + 1>>

\* Mutant: after December comes January of the same year.
NextPeriodCodeSameYear(code, r) ==
  LET next == <<code[2], (code[3] % 12) + 1>>
  IN CASE code[1] = "C" -> IsoCode(StartOfCode(code) + r.lengthDays)
       [] code[1] = "M" -> <<"M", next[1], next[2], 0>>
       [] code[1] = "Q" -> IF code[4] = 1 THEN [code EXCEPT ![4] = 2] ELSE <<"Q", next[1], next[2], 1>>
       [] OTHER -> IF code[3] = 4 THEN <<"T", code[2], 1, 0>> ELSE [code EXCEPT ![3] = @ + 1]

NextPeriodCode(code, r) ==
  LET next == FollowingMonth(code[2], code[3])
  IN CASE code[1] = "C" -> IsoCode(StartOfCode(code) + r.lengthDays)
       [] code[1] = "M" -> <<"M", next[1], next[2], 0>>
       [] code[1] = "Q" -> IF code[4] = 1 THEN [code EXCEPT ![4] = 2] ELSE <<"Q", next[1], next[2], 1>>
       [] OTHER -> IF code[3] = 4 THEN <<"T", code[2] + 1, 1, 0>> ELSE [code EXCEPT ![3] = @ + 1]

\* orderBy code: the order of the strings 2026-07, 2026-07-05, 2026-07-Q1, 2026-T3.
Rank(code) == 10000 * code[2] + 100 * (IF code[1] = "T" THEN 12 + code[3] ELSE code[3])
              + (IF code[1] = "Q" THEN 31 + code[4] ELSE code[4])

-----------------------------------------------------------------------------
(* Who writes.                                                               *)

EffectiveRhythm(s) == IF own[s] = Inherited THEN Plain(rhythm) ELSE own[s]

\* create: the code of today at the rhythm of the company, whatever its own will be.
CreateStructure(s, date) ==
  /\ born[s] = Unborn
  /\ LET day == Utc(date[1], date[2], date[3])
     IN born' = [born EXCEPT ![s] = [code |-> CodeFromDate(day, Plain(rhythm)), day |-> day,
                                     rhythm |-> rhythm]]
  /\ UNCHANGED <<rhythm, change, own, opening, periods, mixed>>

\* update: a company with periods keeps its rhythm.  They are counted first ...
ChangeRhythmRead(r) ==
  /\ change = "none" /\ r # rhythm
  /\ \A s \in Structures : periods[s] = << >>
  /\ change' = r
  /\ UNCHANGED <<rhythm, own, born, opening, periods, mixed>>

\* ... and the company is written later.
ChangeRhythmWrite ==
  /\ change # "none"
  /\ rhythm' = change
  /\ change' = "none"
  /\ mixed' = (mixed \/ \E s \in Structures : periods[s] # << >> \/ opening[s] # NoCode)
  /\ UNCHANGED <<own, born, opening, periods>>

Newest(s) == CHOOSE p \in {periods[s][i] : i \in DOMAIN periods[s]} :
               \A i \in DOMAIN periods[s] : Rank(periods[s][i].code) <= Rank(p.code)

\* openNext up to its transaction: the code after the newest period, or the one of the
\* structure; with a rhythm it does not belong to, it throws.
OpenRead(s) ==
  /\ born[s] # Unborn /\ opening[s] = NoCode /\ Len(periods[s]) < MaxChain
  /\ LET r    == EffectiveRhythm(s)
         code == IF periods[s] = << >> THEN NormalizeLegacyCode(born[s].code, r)
                 ELSE NormalizeLegacyCode(Newest(s).code, r)
         next == IF periods[s] = << >> THEN code ELSE NextPeriodCode(code, r)
     IN /\ IsCodeOf(code, r)
        /\ opening' = [opening EXCEPT ![s] = next]
  /\ UNCHANGED <<rhythm, change, own, born, periods, mixed>>

\* The insertion, with the bounds of the rhythm that was read; a code that is there fails.
OpenWrite(s) ==
  /\ opening[s] # NoCode
  /\ IF \E i \in DOMAIN periods[s] : periods[s][i].code = opening[s] THEN UNCHANGED periods
     ELSE periods' = [periods EXCEPT ![s] = Append(@, PeriodBounds(opening[s], EffectiveRhythm(s)))]
  /\ opening' = [opening EXCEPT ![s] = NoCode]
  /\ UNCHANGED <<rhythm, change, own, born, mixed>>

CalendarNext ==
  \/ \E r \in Rhythms : ChangeRhythmRead(r)
  \/ ChangeRhythmWrite
  \/ \E s \in Structures :
       \/ \E date \in Today : CreateStructure(s, date)
       \/ OpenRead(s) \/ OpenWrite(s)

CalendarSpec == CalendarInit /\ [][CalendarNext]_calendarVars

-----------------------------------------------------------------------------
(* Properties.                                                               *)

\* No day without its period and none in two: each period starts the day after the one
\* before ends, and the first one holds the day the structure was created, when its rhythm
\* is still the one of then.
PeriodsTileTheDays ==
  ~mixed =>
    \A s \in Structures : \A i \in DOMAIN periods[s] :
      /\ periods[s][i].start <= periods[s][i].end
      /\ i > 1 => periods[s][i].start = periods[s][i - 1].end + 1
      /\ i = 1 /\ Plain(born[s].rhythm) = EffectiveRhythm(s) =>
           periods[s][1].start <= born[s].day /\ born[s].day <= periods[s][1].end
=============================================================================
