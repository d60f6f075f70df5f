---------------------------- MODULE GroqLimiter ----------------------------
(***************************************************************************)
(* groq-rate-limiter.ts: the semaphore and the retries every call to the   *)
(* language model goes through, in one process.                            *)
(*                                                                         *)
(* JavaScript runs a function up to its next await without interruption,   *)
(* so each action is what happens between two awaits.  A closure of the     *)
(* queue is the call that pushed it.                                       *)
(***************************************************************************)
EXTENDS Naturals, Sequences, FiniteSets

CONSTANTS
  Calls,          \* the callers, each makes one call after another
  MaxConcurrent,  \* MAX_CONCURRENT
  MaxRetries      \* MAX_RETRIES

ASSUME LimiterAssumption ==
  /\ MaxConcurrent \in Nat \ {0}
  /\ MaxRetries \in Nat

VARIABLES
  activeRequests,  \* the counter of the module
  waitQueue,       \* the queue of the module
  at,              \* per call: where it is
  attempt,         \* per call: the local of groqFetch
  sent,            \* history, per call: requests it sent
  answer           \* per call: what groqFetch gave back last

limiterVars == <<activeRequests, waitQueue, at, attempt, sent, answer>>

\* "resumed": its promise is resolved and it has not run yet.
Places  == {"idle", "waiting", "resumed", "fetching", "backoff"}
Answers == {"none", "response", "429", "error"}

LimiterTypeOK ==
  /\ activeRequests \in Nat
  /\ waitQueue \in Seq(Calls)
  /\ at \in [Calls -> Places]
  /\ attempt \in [Calls -> 0 .. MaxRetries + 1]
  /\ sent \in [Calls -> Nat]
  /\ answer \in [Calls -> Answers]

LimiterInit ==
  /\ activeRequests = 0
  /\ waitQueue = <<>>
  /\ at = [c \in Calls |-> "idle"]
  /\ attempt = [c \in Calls |-> 0]
  /\ sent = [c \in Calls |-> 0]
  /\ answer = [c \in Calls |-> "none"]

-----------------------------------------------------------------------------

\* groqFetch up to its first await: acquireSlot takes a slot or queues.
AcquireSlot(c) ==
  /\ at[c] = "idle"
  /\ IF activeRequests < MaxConcurrent
     THEN /\ activeRequests' = activeRequests + 1
          /\ at' = [at EXCEPT ![c] = "resumed"]
          /\ UNCHANGED waitQueue
     ELSE /\ waitQueue' = Append(waitQueue, c)
          /\ at' = [at EXCEPT ![c] = "waiting"]
          /\ UNCHANGED activeRequests
  /\ attempt' = [attempt EXCEPT ![c] = 0]
  /\ sent' = [sent EXCEPT ![c] = 0]
  /\ answer' = [answer EXCEPT ![c] = "none"]

\* A new round of the loop: the request is sent.
Send(c) ==
  /\ at[c] \in {"resumed", "backoff"}
  /\ at' = [at EXCEPT ![c] = "fetching"]
  /\ sent' = [sent EXCEPT ![c] = @ + 1]
  /\ UNCHANGED <<activeRequests, waitQueue, attempt, answer>>

\* Mutants: the next of the queue is not woken; the one that came last is.
ReleaseSlotSilently(c) ==
  /\ at' = [at EXCEPT ![c] = "idle"]
  /\ activeRequests' = activeRequests - 1
  /\ UNCHANGED waitQueue

ReleaseSlotToLast(c) ==
  IF waitQueue = <<>>
  THEN /\ activeRequests' = activeRequests - 1
       /\ at' = [at EXCEPT ![c] = "idle"]
       /\ UNCHANGED waitQueue
  ELSE /\ at' = [at EXCEPT ![c] = "idle", ![waitQueue[Len(waitQueue)]] = "resumed"]
       /\ waitQueue' = SubSeq(waitQueue, 1, Len(waitQueue) - 1)
       /\ UNCHANGED activeRequests

\* The finally block: the counter goes down and, when somebody waits, the
\* closure at the head of the queue takes it up again in the same instant.
ReleaseSlot(c) ==
  IF waitQueue = <<>>
  THEN /\ activeRequests' = activeRequests - 1
       /\ at' = [at EXCEPT ![c] = "idle"]
       /\ UNCHANGED waitQueue
  ELSE /\ UNCHANGED activeRequests
       /\ at' = [at EXCEPT ![c] = "idle", ![Head(waitQueue)] = "resumed"]
       /\ waitQueue' = Tail(waitQueue)

\* The response is not a 429, whatever else it is.
Respond(c) ==
  /\ at[c] = "fetching"
  /\ answer' = [answer EXCEPT ![c] = "response"]
  /\ ReleaseSlot(c)
  /\ UNCHANGED <<attempt, sent>>

\* Mutant: an error leaves without its finally.
RejectKeepingSlot(c) ==
  /\ at[c] = "fetching"
  /\ answer' = [answer EXCEPT ![c] = "error"]
  /\ at' = [at EXCEPT ![c] = "idle"]
  /\ UNCHANGED <<activeRequests, waitQueue, attempt, sent>>

\* fetch rejects: the error leaves through the finally.
Reject(c) ==
  /\ at[c] = "fetching"
  /\ answer' = [answer EXCEPT ![c] = "error"]
  /\ ReleaseSlot(c)
  /\ UNCHANGED <<attempt, sent>>

\* The retries are exhausted.
GiveUp(n) == n > MaxRetries

\* A 429: sleep and try again, or hand it to the caller.
TooManyRequests(c) ==
  /\ at[c] = "fetching"
  /\ attempt' = [attempt EXCEPT ![c] = @ + 1]
  /\ IF GiveUp(attempt[c] + 1)
     THEN answer' = [answer EXCEPT ![c] = "429"] /\ ReleaseSlot(c)
     ELSE /\ at' = [at EXCEPT ![c] = "backoff"]
          /\ UNCHANGED <<activeRequests, waitQueue, answer>>
  /\ UNCHANGED sent

Settle(c) == Respond(c) \/ Reject(c) \/ TooManyRequests(c)

LimiterNext == \E c \in Calls : AcquireSlot(c) \/ Send(c) \/ Settle(c)

\* A resolved promise and a timer of at most MAX_BACKOFF_MS do run, and fetch
\* settles (its client has its own time limits).  Nobody has to call.
LimiterFairness == \A c \in Calls : WF_limiterVars(Send(c)) /\ WF_limiterVars(Settle(c))

LimiterSpec == LimiterInit /\ [][LimiterNext]_limiterVars /\ LimiterFairness

-----------------------------------------------------------------------------
(* PROPERTIES *)

Holding == {c \in Calls : at[c] \in {"resumed", "fetching", "backoff"}}
Waiting == {c \in Calls : at[c] = "waiting"}

\* The limiter implements the abstract slots: never more than MaxConcurrent
\* calls between acquire and release, no slot leaked by an error or a retry,
\* and no slot left free while somebody waits.
S == INSTANCE Slots WITH waiting <- Waiting, holding <- Holding
ImplementsSlots == S!Spec

\* The counter that the health check shows is the number of calls in course,
\* and calls wait only while every slot is taken.
CounterIsExact ==
  /\ activeRequests = Cardinality(Holding)
  /\ activeRequests <= MaxConcurrent
  /\ waitQueue # <<>> => activeRequests = MaxConcurrent

\* c waits, and d waits behind it or has not even called.
Ahead(c, d) ==
  /\ at[c] = "waiting"
  /\ \/ at[d] = "idle"
     \/ \E i, j \in DOMAIN waitQueue :
          i < j /\ waitQueue[i] = c /\ waitQueue[j] = d

\* Nobody is overtaken: a call does not get its slot while another one that
\* asked before keeps waiting.
NoOvertaking ==
  [][\A c, d \in Calls :
       Ahead(c, d) /\ d \in Holding' => at'[c] # "waiting"]_limiterVars

\* A caller receives a 429 only after the first request and every retry met
\* one, and no call ever sends more requests than that.
FullEffortBefore429 ==
  \A c \in Calls :
    /\ sent[c] <= MaxRetries + 1
    /\ answer[c] = "429" => sent[c] = MaxRetries + 1

\* Every call that asks for a slot ends, however many others keep calling.
EveryCallEnds == \A c \in Calls : at[c] # "idle" ~> at[c] = "idle"
=============================================================================
