---------------------------- MODULE Departments ----------------------------
(***************************************************************************)
(* The chain of departments of a structure of the PROCESSES system         *)
(* (process-department-service.ts and the setup of                         *)
(* process-setup-service.ts): who comes after whom is the sequence, which  *)
(* is unique in the structure, deleted rows included.                      *)
(*                                                                         *)
(* A handler looks at the chain, and at whether there are calculations,    *)
(* before its transaction: the two steps of each action here.  A request   *)
(* is crossed by a removal, or by the first calculation, that comes        *)
(* between them, and what it then writes is kept in contested.             *)
(***************************************************************************)
EXTENDS Integers, FiniteSets, SequencesExt

CONSTANTS
  Rooms,       \* departments that may be
  Clerks       \* requests in flight

ASSUME DepartmentsAssumption == IsFiniteSet(Rooms)

Places == 1 .. Cardinality(Rooms)

VARIABLES
  place,      \* sequence: 0 while it is not there, negative once it is deleted
  frozen,     \* the order that the first calculation saw, or << >>
  clerk,      \* locals of the requests in flight
  contested   \* history: a write rested on a chain that was no longer there

departmentsVars == <<place, frozen, clerk, contested>>

Work(at, room, order) == [at |-> at, room |-> room, order |-> order, crossed |-> FALSE]
NoWork == Work("idle", "none", << >>)

DepartmentsInit ==
  /\ place = [d \in Rooms |-> 0]
  /\ frozen = << >>
  /\ clerk = [c \in Clerks |-> NoWork]
  /\ contested = FALSE

Live    == {d \in Rooms : place[d] > 0}
Absent  == {d \in Rooms : place[d] = 0 /\ \A c \in Clerks : clerk[c].room # d}
\* findMany ... orderBy sequence: the rooms of a set, from the first to the last.
InOrder(rooms) == [i \in 1 .. Cardinality(rooms) |->
  CHOOSE d \in rooms : Cardinality({e \in rooms : place[e] < place[d]}) = i - 1]
Chain   == InOrder(Live)
LowestPlace   == CHOOSE n \in {0} \union {place[d] : d \in Rooms} :
                   \A d \in Rooms : n <= place[d] /\ n <= 0
HighestPlace  == CHOOSE n \in {0} \union {place[d] : d \in Rooms} :
                   \A d \in Rooms : n >= place[d] /\ n >= 0
HasRuns == frozen # << >>

\* Those in `steps` no longer stand on what they had read.
Crossing(c, steps) ==
  clerk' = [k \in Clerks |-> IF k = c THEN NoWork
                             ELSE [clerk[k] EXCEPT !.crossed = @ \/ clerk[k].at \in steps]]

\* The transaction of clerk c, which crosses those in `steps`.
Writes(c, steps) ==
  /\ Crossing(c, steps)
  /\ contested' = (contested \/ clerk[c].crossed)

Starts(c, work) ==
  /\ clerk[c] = NoWork
  /\ clerk' = [clerk EXCEPT ![c] = work]
  /\ UNCHANGED <<place, frozen, contested>>

Fails(c) ==
  /\ clerk' = [clerk EXCEPT ![c] = NoWork]
  /\ UNCHANGED <<place, frozen, contested>>

-----------------------------------------------------------------------------
(* create: at the end.  The last sequence is read in the transaction, which  *)
(* others may still overtake; a sequence that is taken fails it.             *)

CreateRead(c, d) ==
  /\ d \in Absent
  /\ Starts(c, Work("create", d, <<HighestPlace + 1>>))

CreateWrite(c) ==
  /\ clerk[c].at = "create"
  /\ IF \E d \in Rooms : place[d] = clerk[c].order[1] THEN Fails(c)
     ELSE /\ place' = [place EXCEPT ![clerk[c].room] = clerk[c].order[1]]
          /\ Writes(c, {})
          /\ UNCHANGED frozen

-----------------------------------------------------------------------------
(* remove and reorder, refused once there are calculations.                  *)

\* resequence, both passes: 1..n in the order given; the rest stay where they are.
Resequenced(from, order) ==
  [d \in Rooms |-> IF d \in ToSet(order) THEN CHOOSE i \in DOMAIN order : order[i] = d ELSE from[d]]
\* The second pass meets a department that was not in the order.
Clashes(from, order) == \E d \in Rooms \ ToSet(order) : from[d] \in DOMAIN order

RemoveRead(c, d) ==
  /\ d \in Live
  /\ ~HasRuns
  /\ Starts(c, Work("remove", d, << >>))

\* Mutant: the hole stays.
RemoveWriteWithoutClosing(c) ==
  /\ clerk[c].at = "remove"
  /\ place' = [place EXCEPT ![clerk[c].room] = LowestPlace - 1]
  /\ Writes(c, {"create", "setup", "reorder"})
  /\ UNCHANGED frozen

\* The row goes below the lowest, and those that are left close the hole.
RemoveWrite(c) ==
  /\ clerk[c].at = "remove"
  /\ LET d == clerk[c].room
     IN place' = Resequenced([place EXCEPT ![d] = LowestPlace - 1], InOrder(Live \ {d}))
  /\ Writes(c, {"create", "setup", "reorder"})
  /\ UNCHANGED frozen

\* All of them, once each.
ReorderRead(c, order) ==
  /\ ~HasRuns
  /\ order # Chain
  /\ Starts(c, Work("reorder", "none", order))

ReorderWrite(c) ==
  /\ clerk[c].at = "reorder"
  /\ IF Clashes(place, clerk[c].order) THEN Fails(c)
     ELSE /\ place' = Resequenced(place, clerk[c].order)
          /\ Writes(c, {})
          /\ UNCHANGED frozen

-----------------------------------------------------------------------------
(* complete, of the setup: the sequences 1..n of the form that are not there *)
(* are added; those that are keep their department.                          *)

SetupRead(c, n) ==
  /\ \E i \in 1 .. n : \A d \in Live : place[d] # i
  /\ Starts(c, Work("setup", "none", SetToSeq({i \in 1 .. n : \A d \in Live : place[d] # i})))

SetupWrite(c) ==
  /\ clerk[c].at = "setup"
  /\ LET missing == ToSet(clerk[c].order)
     IN IF \E d \in Rooms : place[d] \in missing THEN Fails(c)
        ELSE /\ \E f \in [missing -> Absent] :
                  /\ \A i, j \in missing : f[i] = f[j] => i = j
                  /\ place' = [d \in Rooms |-> IF \E i \in missing : f[i] = d
                                               THEN CHOOSE i \in missing : f[i] = d ELSE place[d]]
             /\ Writes(c, {})
             /\ UNCHANGED frozen

\* The first calculation.  A request that has already looked is crossed by it.
FirstRun ==
  /\ ~HasRuns /\ Live # {}
  /\ frozen' = Chain
  /\ Crossing("nobody", {"remove", "reorder"})
  /\ UNCHANGED <<place, contested>>

DepartmentsNext ==
  \/ FirstRun
  \/ \E c \in Clerks :
       \/ \E d \in Rooms : CreateRead(c, d) \/ RemoveRead(c, d)
       \/ \E order \in SetToSeqs(Live) : ReorderRead(c, order)
       \/ \E n \in Places : SetupRead(c, n)
       \/ CreateWrite(c) \/ RemoveWrite(c) \/ ReorderWrite(c) \/ SetupWrite(c)

DepartmentsSpec == DepartmentsInit /\ [][DepartmentsNext]_departmentsVars

-----------------------------------------------------------------------------
(* Properties.                                                               *)

\* "La cadena tiene que ser SIEMPRE continua": 1, 2, 3... without a hole or a repeated
\* place, through creations, removals, reorderings and setups that did not cross.
ChainIsContinuous ==
  ~contested => {place[d] : d \in Live} = 1 .. Cardinality(Live)

\* The order that a calculation rested on is still the beginning of the chain, unless a
\* request had looked before the calculation was there.
CalculatedChainStands ==
  HasRuns /\ ~contested => IsPrefix(frozen, Chain)

\* The chain of departments stands: without a hole, and in the order of its calculations.
ChainStands == ChainIsContinuous /\ CalculatedChainStands
=============================================================================
