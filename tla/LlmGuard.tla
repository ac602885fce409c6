------------------------------- MODULE LlmGuard -------------------------------
(***************************************************************************)
(* _llm of agents/shared/llm.py, called at the same time by the specialist *)
(* nodes of a cycle: the daily token budget, the circuit breaker and the   *)
(* degradation flag.  Each critical section (one lock at a time) is a      *)
(* step, and the API request between them is many steps of other callers.  *)
(*                                                                         *)
(* Time is relative: `wait` is what is left of paused_until, and a clock   *)
(* tick shortens it, so that the clock needs no bound.  A new day is a     *)
(* flag until the first locked section that notices it.                    *)
(***************************************************************************)
EXTENDS Integers, FiniteSets

CONSTANTS
  Callers,      \* the threads that call _llm
  Threshold,    \* _CIRCUIT_BREAKER_THRESHOLD
  Pause,        \* _CIRCUIT_BREAKER_PAUSE, in clock ticks
  RetryAfters,  \* the Retry-After values a 429 may carry, in clock ticks
  MaxDaily,     \* _token_counter["max_daily"]
  Usages,       \* the tokens one API turn may use
  MaxTurns      \* _WEB_SEARCH_MAX_TURNS

ASSUME GuardAssumption ==
  /\ IsFiniteSet(Callers)
  /\ Threshold \in Nat \ {0} /\ Pause \in Nat \ {0}
  /\ RetryAfters \subseteq Nat \ {0}
  /\ MaxDaily \in Nat /\ MaxTurns \in Nat \ {0}
  /\ IsFiniteSet(Usages) /\ Usages \subseteq Nat /\ Usages # {}

VARIABLES
  tokens,    \* _token_counter, input and output together
  newDay,    \* today is not _token_counter["reset_date"]
  failures,  \* _circuit_breaker["consecutive_failures"]
  wait,      \* ticks until _circuit_breaker["paused_until"], 0 when it is past
  degraded,  \* _degradation_status: "no" or its reason
  pc,        \* caller -> where it is in _llm
  turn,      \* caller -> API turns made by this call
  \* History, read by the properties only.
  soloOwed   \* ticks left of the longest Retry-After received with no other request in flight

gvars == <<tokens, newDay, failures, wait, degraded, pc, turn, soloOwed>>

Longest(a, b) == IF a > b THEN a ELSE b
InFlight == {c \in Callers : pc[c] \in {"request", "answered"}}
At(c, place) == pc[c] = place
Go(c, place) == pc' = [pc EXCEPT ![c] = place]

-----------------------------------------------------------------------------
\* Tokens counted today, after _reset_token_counter_if_new_day.
Today == IF newDay THEN 0 ELSE tokens
OverBudget == Today > MaxDaily

\* The budget check, entered by a new call.
CheckBudget(c) ==
  /\ At(c, "idle")
  /\ tokens' = Today
  /\ newDay' = FALSE
  /\ IF OverBudget
     THEN /\ degraded' = "token_budget"
          /\ UNCHANGED pc
     ELSE /\ Go(c, "breaker")
          /\ UNCHANGED degraded
  /\ UNCHANGED <<failures, wait, turn, soloOwed>>

OpenForGood == failures >= Threshold
Open == failures >= Threshold /\ wait > 0

\* The count of failures a request starts from: again from nothing after a pause.
CountKept == failures
CountAtStart == IF failures >= Threshold THEN 0 ELSE failures

\* The breaker check: refused while open, and the count starts again once the
\* pause is over.
CheckBreaker(c) ==
  /\ At(c, "breaker")
  /\ IF Open
     THEN /\ degraded' = "circuit_breaker"
          /\ Go(c, "idle")
          /\ UNCHANGED failures
     ELSE /\ failures' = CountAtStart
          /\ Go(c, "request")
          /\ UNCHANGED degraded
  /\ turn' = [turn EXCEPT ![c] = 0]
  /\ UNCHANGED <<tokens, newDay, wait, soloOwed>>

\* One API turn answered.  A tool_use answer makes another turn, up to MaxTurns.
AnyTurn(c) == TRUE
AnotherTurn(c) == turn[c] + 1 < MaxTurns

Answer(c) ==
  /\ At(c, "request")
  /\ \E u \in Usages : tokens' = Today + u
  /\ newDay' = FALSE
  /\ turn' = [turn EXCEPT ![c] = @ + 1]
  /\ \/ Go(c, "answered")
     \/ AnotherTurn(c) /\ UNCHANGED pc
  /\ UNCHANGED <<failures, wait, degraded, soloOwed>>

\* Success: the breaker is reset, whatever it was, then the flag is cleared.
ResetBreaker(c) ==
  /\ At(c, "answered")
  /\ failures' = 0
  /\ Go(c, "clear")
  /\ UNCHANGED <<tokens, newDay, wait, degraded, turn, soloOwed>>

ClearDegradation(c) ==
  /\ At(c, "clear")
  /\ degraded' = "no"
  /\ Go(c, "idle")
  /\ UNCHANGED <<tokens, newDay, failures, wait, turn, soloOwed>>

\* HTTP 429: the breaker is forced open for Retry-After.
OneMoreFailure == failures + 1
ForcedOpen == Threshold

RateLimited(c) ==
  /\ At(c, "request")
  /\ \E w \in RetryAfters :
       /\ wait' = w
       /\ soloOwed' = IF InFlight = {c} THEN Longest(soloOwed, w) ELSE soloOwed
  /\ failures' = ForcedOpen
  /\ Go(c, "degrade")
  /\ UNCHANGED <<tokens, newDay, degraded, turn>>

\* Any other API error or timeout: the third in a row opens the breaker.
ApiError(c) ==
  /\ At(c, "request")
  /\ failures' = failures + 1
  /\ wait' = IF failures + 1 >= Threshold THEN Pause ELSE wait
  /\ Go(c, "degrade")
  /\ UNCHANGED <<tokens, newDay, degraded, turn, soloOwed>>

Degrade(c) ==
  /\ At(c, "degrade")
  /\ degraded' = "circuit_breaker"
  /\ Go(c, "idle")
  /\ UNCHANGED <<tokens, newDay, failures, wait, turn, soloOwed>>

\* An exception _llm does not handle leaves through it.
Raise(c) ==
  /\ At(c, "request")
  /\ Go(c, "idle")
  /\ UNCHANGED <<tokens, newDay, failures, wait, degraded, turn, soloOwed>>

-----------------------------------------------------------------------------
Shorter(n) == IF n > 0 THEN n - 1 ELSE 0

Tick ==
  /\ wait > 0 \/ soloOwed > 0
  /\ wait' = Shorter(wait)
  /\ soloOwed' = Shorter(soloOwed)
  /\ UNCHANGED <<tokens, newDay, failures, degraded, pc, turn>>

Midnight ==
  /\ newDay' = TRUE
  /\ UNCHANGED <<tokens, failures, wait, degraded, pc, turn, soloOwed>>

Init ==
  /\ tokens = 0 /\ newDay = TRUE
  /\ failures = 0 /\ wait = 0
  /\ degraded = "no"
  /\ pc = [c \in Callers |-> "idle"]
  /\ turn = [c \in Callers |-> 0]
  /\ soloOwed = 0

Call(c) ==
  \/ CheckBudget(c) \/ CheckBreaker(c)
  \/ Answer(c) \/ ResetBreaker(c) \/ ClearDegradation(c)
  \/ RateLimited(c) \/ ApiError(c) \/ Degrade(c) \/ Raise(c)

Next == (\E c \in Callers : Call(c)) \/ Tick \/ Midnight

\* The agent loop keeps calling, a request ends (the client times out after a
\* minute), the clock and the calendar advance.
Fairness == (\A c \in Callers : WF_gvars(Call(c))) /\ WF_gvars(Tick) /\ WF_gvars(Midnight)

Spec == Init /\ [][Next]_gvars /\ Fairness

-----------------------------------------------------------------------------
(* Properties. *)

Places == {"idle", "breaker", "request", "answered", "clear", "degrade"}

\* The type invariant.  The failure count exceeds the threshold only by the
\* requests that were in flight when it was reached.
TypeOK ==
  /\ tokens \in Nat /\ newDay \in BOOLEAN
  /\ failures \in 0..(Threshold + Cardinality(Callers) - 1)
  /\ wait \in Nat /\ soloOwed \in Nat
  /\ degraded \in {"no", "token_budget", "circuit_breaker"}
  /\ pc \in [Callers -> Places]
  /\ turn \in [Callers -> 0..MaxTurns]

MaxUsage == CHOOSE u \in Usages : \A v \in Usages : v <= u

\* "A daily token budget cap prevents runaway costs": the check is made before a
\* call and the tokens are counted after it, so the cap can be passed, but only
\* by the calls that were past the check: MaxTurns turns of every caller.
BudgetOvershootBounded ==
  tokens <= MaxDaily + Cardinality(Callers) * MaxTurns * MaxUsage

RequestStarts == \E c \in Callers : pc[c] = "breaker" /\ pc'[c] = "request"

\* A 429 received while no other request is in flight keeps every request out
\* until its Retry-After is over, whatever the other callers do meanwhile.
SoloRetryAfterHonoured == [][RequestStarts => soloOwed = 0]_gvars

\* A tripped breaker does not stay so: whatever the requests in flight still do
\* to it, callers that keep calling get through once a pause is over.
BreakerCloses == failures >= Threshold ~> failures < Threshold
=============================================================================
