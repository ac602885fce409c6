------------------------------ MODULE Controller ------------------------------
(***************************************************************************)
(* The agent thread (_agent_loop of runtime/controller.py) and what other  *)
(* threads do to it: the pause and mode switches of api/routes/control.py, *)
(* the opening hours of core/session.py.  Each critical section of         *)
(* _controller_lock is a step, and so is each other read of shared state.  *)
(* The graph run of a cycle is TradingCycle; here it returns, raises, or   *)
(* finds the portfolio dead.  No route sets the `step` flag, which is      *)
(* therefore left out.                                                     *)
(***************************************************************************)
EXTENDS Integers

CONSTANTS
  SimSleep,   \* ticks slept between cycles in SIM
  RealSleep,  \* AGENT_INTERVAL, in ticks
  MaxCycles   \* bound on the cycles of one behaviour

ASSUME ControllerAssumption ==
  SimSleep \in Nat \ {0} /\ RealSleep \in Nat \ {0} /\ MaxCycles \in Nat

VARIABLES
  at,        \* what _agent_loop does next
  left,      \* ticks left to sleep
  paused,    \* _ctrl["paused"]
  cycle,     \* _ctrl["cycle"]
  thinking,  \* _state["thinking"]
  dead,      \* portfolio.is_dead
  sim,       \* get_simulation_mode()
  open,      \* is_cash_session_open()
  \* History, read by the properties only.
  held       \* the pause in force did not find a cycle Starting

cvars == <<at, left, paused, cycle, thinking, dead, sim, open, held>>
Outside == <<paused, sim, open>>
Shown == <<cycle, thinking, dead>>

Go(place) == at' = place

\* Between the reading of the pause flag and the start of the cycle.
Starting == at \in {"session", "start"}

-----------------------------------------------------------------------------
(* _agent_loop. *)

\* The wait for a resume; the flag may change as soon as it has been read.
Gate ==
  /\ at = "gate"
  /\ IF dead THEN Go("halted") ELSE ~paused /\ Go("session")
  /\ UNCHANGED <<left, Outside, Shown, held>>

ClosedEvenForSim == ~open
SessionClosed == ~sim /\ ~open

Session ==
  /\ at = "session"
  /\ Go(IF SessionClosed THEN "wait" ELSE "start")
  /\ UNCHANGED <<left, Outside, Shown, held>>

\* A minute later the loop begins again with the gate.
StraightOn == "session"
BackTo == "gate"

WaitForSession ==
  /\ at = "wait"
  /\ Go(BackTo)
  /\ UNCHANGED <<left, Outside, Shown, held>>

StartCycle ==
  /\ at = "start"
  /\ cycle < MaxCycles
  /\ cycle' = cycle + 1
  /\ Go("think")
  /\ UNCHANGED <<left, Outside, thinking, dead, held>>

Think ==
  /\ at = "think"
  /\ thinking' = TRUE
  /\ Go("graph")
  /\ UNCHANGED <<left, Outside, cycle, dead, held>>

\* check_death, somewhere inside graph.invoke.
Die ==
  /\ at = "graph"
  /\ dead' = TRUE
  /\ UNCHANGED <<at, left, Outside, cycle, thinking, held>>

GraphReturns ==
  /\ at = "graph"
  /\ thinking' = FALSE
  /\ Go("done")
  /\ UNCHANGED <<left, Outside, cycle, dead, held>>

StillThinking == thinking
ThinkingAfterError == FALSE

GraphRaises ==
  /\ at = "graph"
  /\ thinking' = ThinkingAfterError
  /\ Go("done")
  /\ UNCHANGED <<left, Outside, cycle, dead, held>>

\* The sleep is chosen by the mode of this moment, however it changes later.
EndCycle ==
  /\ at = "done"
  /\ IF dead THEN Go("halted") /\ UNCHANGED left
     ELSE Go("sleep") /\ left' = IF sim THEN SimSleep ELSE RealSleep
  /\ UNCHANGED <<Outside, Shown, held>>

\* Sleeping does not advance while paused.
Sleep ==
  /\ at = "sleep" /\ ~paused
  /\ left' = left - 1
  /\ Go(IF left = 1 THEN BackTo ELSE "sleep")
  /\ UNCHANGED <<Outside, Shown, held>>

AgentLoop ==
  \/ Gate \/ Session \/ WaitForSession \/ StartCycle \/ Think
  \/ GraphReturns \/ GraphRaises \/ EndCycle \/ Sleep

-----------------------------------------------------------------------------
(* The other threads, and the clock. *)

Pause ==
  /\ paused' = TRUE
  /\ held' = IF paused THEN held ELSE ~Starting
  /\ UNCHANGED <<at, left, sim, open, Shown>>

Resume ==
  /\ paused' = FALSE
  /\ held' = FALSE
  /\ UNCHANGED <<at, left, sim, open, Shown>>

SwitchMode ==
  /\ sim' = ~sim
  /\ UNCHANGED <<at, left, paused, open, Shown, held>>

SessionBell ==
  /\ open' = ~open
  /\ UNCHANGED <<at, left, paused, sim, Shown, held>>

ControllerInit ==
  /\ at = "gate" /\ left = 0
  /\ paused = FALSE
  /\ cycle = 0 /\ thinking = FALSE /\ dead = FALSE
  /\ sim = TRUE /\ open \in BOOLEAN
  /\ held = FALSE

ControllerNext == AgentLoop \/ Die \/ Pause \/ Resume \/ SwitchMode \/ SessionBell

-----------------------------------------------------------------------------
(* Properties. *)

Places == {"gate", "session", "wait", "start", "think", "graph", "done", "sleep", "halted"}

ControllerTypeOK ==
  /\ at \in Places
  /\ left \in 0..(SimSleep + RealSleep)
  /\ paused \in BOOLEAN /\ thinking \in BOOLEAN /\ dead \in BOOLEAN
  /\ sim \in BOOLEAN /\ open \in BOOLEAN
  /\ cycle \in 0..MaxCycles /\ held \in BOOLEAN

\* "thinking was set True before graph.invoke() - an exception here must still
\* clear it, or the UI's thinking indicator stays lit": it is lit during the graph
\* run only, however the run ends.
ThinkingOnlyInGraph == thinking => at = "graph"

\* A pause acknowledged while no cycle was about to start (held) lets none start
\* until it is lifted: neither the wait for the session nor the end of the sleep
\* between two cycles passes it by.  One acknowledged after the flag was read for
\* the next cycle does not stop that cycle, and none stops a graph run under way:
\* the premise leaves out the first and Starting the second.
PauseHolds == paused /\ held => ~Starting

\* While it is not paused and its session is open (SIM needs none), the agent
\* goes on to another cycle until the portfolio dies.
AgentKeepsCycling ==
  <>[](~paused /\ (sim \/ open)) => <>(dead \/ cycle = MaxCycles)
=============================================================================
