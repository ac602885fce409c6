-------------------------------- MODULE Modes --------------------------------
(***************************************************************************)
(* The runtime mode: two flags in memory, their copies in the .env file,   *)
(* the requests of POST /api/control/mode that change both, and the boot   *)
(* of the process, which reads the file and then forces SIM                *)
(* (agents/shared/modes.py, api/routes/control.py, api/main.py).           *)
(*                                                                         *)
(* The handlers run in a thread pool and the flags have no lock, so every  *)
(* assignment is a step: the only critical section is one write of .env.   *)
(***************************************************************************)
EXTENDS Integers, Sequences

CONSTANTS
  Requests,     \* the threads that serve POST /api/control/mode
  MaxSwitches,  \* bound on the requests of one behaviour
  MaxCrashes    \* bound on the process stops of one behaviour

ASSUME ModesAssumption == MaxSwitches \in Nat /\ MaxCrashes \in Nat

Lifespan == "lifespan"
Threads == Requests \cup {Lifespan}
Flags == {"sim", "paper"}
ModeNames == {"live", "paper", "sim"}

VARIABLES
  memory,    \* flag -> BOOLEAN: _sim_mode and _paper_mode
  env,       \* flag -> BOOLEAN: SIMULATION_MODE and PAPER_MODE in .env
  todo,      \* thread -> the assignments it has still to make
  server,    \* "starting" (lifespan), then "running"
  switches, crashes,
  \* History, read by the properties only.
  lastAsked, \* the mode asked for last, SIM after a boot
  asked,     \* the modes asked for since the boot, SIM included
  clean      \* since the boot no two switches overlapped and no write failed

mvars == <<memory, env, todo, server, switches, crashes, lastAsked, asked, clean>>

\* get_runtime_mode, and what a boot makes of the file: PAPER wins over SIM.
ModeOf(flags) == IF flags["paper"] THEN "paper" ELSE IF flags["sim"] THEN "sim" ELSE "live"

NoFlags == [f \in Flags |-> FALSE]
AtImport(file) == [file EXCEPT !["sim"] = @ /\ ~file["paper"]]

-----------------------------------------------------------------------------
(* The assignments a switch is made of, in the order of the code.          *)

Mem(f, on) == [cell |-> "memory", flag |-> f, on |-> on]
Env(f, on) == [cell |-> "env", flag |-> f, on |-> on]

SetSimulationModeAlone(on) == <<Mem("sim", on), Env("sim", on)>>
SetSimulationModeUnsaved(on) ==
  IF on THEN <<Mem("sim", TRUE), Mem("paper", FALSE), Env("sim", TRUE)>>
        ELSE <<Mem("sim", FALSE), Env("sim", FALSE)>>
SetSimulationMode(on) ==
  IF on THEN <<Mem("sim", TRUE), Mem("paper", FALSE), Env("paper", FALSE), Env("sim", TRUE)>>
        ELSE <<Mem("sim", FALSE), Env("sim", FALSE)>>

SetPaperMode(on) ==
  IF on THEN <<Mem("paper", TRUE), Mem("sim", FALSE), Env("sim", FALSE), Env("paper", TRUE)>>
        ELSE <<Mem("paper", FALSE), Env("paper", FALSE)>>

SetMode(mode) ==
  CASE mode = "sim"   -> SetSimulationMode(TRUE)
    [] mode = "paper" -> SetPaperMode(TRUE)
    [] mode = "live"  -> SetSimulationMode(FALSE) \o SetPaperMode(FALSE)

\* What lifespan does before it starts the controller.
NoBootMode == <<>>
BootMode == SetSimulationMode(TRUE)
StartedAtOnce == TRUE
LifespanDone == todo[Lifespan] = <<>>

-----------------------------------------------------------------------------
Busy == {t \in Threads : todo[t] # <<>>}

\* POST /api/control/mode, once the server accepts requests.
Request(r, mode) ==
  /\ server = "running"
  /\ todo[r] = <<>>
  /\ switches < MaxSwitches
  /\ todo' = [todo EXCEPT ![r] = SetMode(mode)]
  /\ switches' = switches + 1
  /\ lastAsked' = mode
  /\ asked' = asked \cup {mode}
  /\ clean' = (clean /\ Busy = {})
  /\ UNCHANGED <<memory, env, server, crashes>>

\* One assignment.  A write of .env is best effort: an error is only logged.
Assign(t) ==
  /\ t \in Busy
  /\ LET a == Head(todo[t])
     IN \/ /\ a.cell = "memory"
           /\ memory' = [memory EXCEPT ![a.flag] = a.on]
           /\ UNCHANGED <<env, clean>>
        \/ /\ a.cell = "env"
           /\ \/ env' = [env EXCEPT ![a.flag] = a.on] /\ UNCHANGED clean
              \/ clean' = FALSE /\ UNCHANGED env
           /\ UNCHANGED memory
  /\ todo' = [todo EXCEPT ![t] = Tail(@)]
  /\ UNCHANGED <<server, switches, crashes, lastAsked, asked>>

\* lifespan has forced SIM: start_controller starts the agent, requests come in.
StartController ==
  /\ server = "starting"
  /\ LifespanDone
  /\ server' = "running"
  /\ UNCHANGED <<memory, env, todo, switches, crashes, lastAsked, asked, clean>>

\* The process stops and starts again.  write_text truncates the file before it
\* fills it: a stop inside a write leaves it empty.
Crash ==
  /\ crashes < MaxCrashes
  /\ crashes' = crashes + 1
  /\ \/ UNCHANGED env
     \/ /\ \E t \in Busy : Head(todo[t]).cell = "env"
        /\ env' = NoFlags
  /\ memory' = AtImport(env')
  /\ todo' = [t \in Threads |-> IF t = Lifespan THEN BootMode ELSE <<>>]
  /\ server' = "starting"
  /\ lastAsked' = "sim"
  /\ asked' = {"sim"}
  /\ clean' = TRUE
  /\ UNCHANGED switches

Init ==
  /\ env \in [Flags -> BOOLEAN]
  /\ memory = AtImport(env)
  /\ todo = [t \in Threads |-> IF t = Lifespan THEN BootMode ELSE <<>>]
  /\ server = "starting"
  /\ switches = 0 /\ crashes = 0
  /\ lastAsked = "sim"
  /\ asked = {"sim"}
  /\ clean = TRUE

Next ==
  \/ \E r \in Requests, mode \in ModeNames : Request(r, mode)
  \/ \E t \in Threads : Assign(t)
  \/ StartController
  \/ Crash

Spec == Init /\ [][Next]_mvars

-----------------------------------------------------------------------------
(* Properties. *)

TypeOK ==
  /\ memory \in [Flags -> BOOLEAN]
  /\ env \in [Flags -> BOOLEAN]
  /\ server \in {"starting", "running"}
  /\ server = "running" => todo[Lifespan] = <<>>
  /\ server = "starting" => Busy \subseteq {Lifespan}
  /\ switches \in 0..MaxSwitches /\ crashes \in 0..MaxCrashes
  /\ lastAsked \in asked /\ asked \subseteq ModeNames
  /\ \A t \in Threads : Len(todo[t]) <= 4

AtRest == server = "running" /\ Busy = {}

\* However switches overlap, when they are done SIM and PAPER are not both on:
\* each setter sets its own flag before it clears the other one.
NeverBothOn == AtRest => ~(memory["sim"] /\ memory["paper"])

\* Switches made one after the other leave memory in the mode asked for last and
\* .env naming the same mode: "a restart resumes the mode the process was last
\* switched to" as far as the file goes.
SerialSwitchesPersist ==
  AtRest /\ clean => ModeOf(memory) = lastAsked /\ ModeOf(env) = lastAsked

\* Whatever the file says, and even if a stop emptied it, the agent thread is
\* started in SIM: no boot runs a cycle, or calls the LLM, in LIVE.
BootsInSim == [][server = "starting" /\ server' = "running" => ModeOf(memory) = "sim"]_mvars

\* What the project says of LIVE: "never auto-start in LIVE (burns Anthropic
\* credits) ... the user can switch to PAPER/LIVE from the topbar".  If nobody
\* has asked for LIVE since the boot, the process is not in LIVE once the
\* switches are done.
LiveOnlyOnRequest == AtRest /\ ModeOf(memory) = "live" => "live" \in asked
=============================================================================
