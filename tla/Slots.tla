------------------------------- MODULE Slots -------------------------------
(***************************************************************************)
(* What a limiter of concurrent calls promises: at most MaxConcurrent      *)
(* calls hold a slot, a call gives its slot back once, and a slot that is   *)
(* given back may go to a call that was waiting in the same instant.       *)
(***************************************************************************)
EXTENDS Naturals, FiniteSets

CONSTANTS Calls, MaxConcurrent

VARIABLES waiting, holding

Init == waiting = {} /\ holding = {}

\* A call that finds a free slot takes it, one that does not waits.
Arrive(c) ==
  /\ c \notin waiting \cup holding
  /\ \/ /\ Cardinality(holding) < MaxConcurrent
        /\ waiting = {}
        /\ holding' = holding \cup {c}
        /\ UNCHANGED waiting
     \/ /\ Cardinality(holding) >= MaxConcurrent
        /\ waiting' = waiting \cup {c}
        /\ UNCHANGED holding

\* A call ends; when somebody waits the slot is handed over, never left free.
Leave(c) ==
  /\ c \in holding
  /\ \/ /\ waiting = {}
        /\ holding' = holding \ {c}
        /\ UNCHANGED waiting
     \/ \E w \in waiting : /\ waiting' = waiting \ {w}
                           /\ holding' = (holding \ {c}) \cup {w}

Next == \E c \in Calls : Arrive(c) \/ Leave(c)

Spec == Init /\ [][Next]_<<waiting, holding>>
=============================================================================
