------------------------------- MODULE Broadcast -------------------------------
(***************************************************************************)
(* The WebSocket broadcaster over the Controller: poll_and_broadcast and   *)
(* ConnectionManager (api/broadcaster.py), the /ws endpoint                *)
(* (api/routes/ws.py) and the browser's side of a connection               *)
(* (frontend/src/hooks/useWebSocket.ts).  The coroutines of one event loop *)
(* interleave where they await: between two sends.                         *)
(*                                                                         *)
(* A snapshot is abstracted to the cycle and the death flag it shows.  The *)
(* agent_votes message, which the browser ignores, is left out, and so are *)
(* exceptions of serialize_state, which a well-formed book never raises.   *)
(***************************************************************************)
EXTENDS Controller, FiniteSets

CONSTANTS
  Clients,  \* the browsers
  Steady    \* those whose connection never stalls

ASSUME BroadcastAssumption == Steady \subseteq Clients

VARIABLES
  link,     \* client -> what the browser believes: "open" or "closed"
  view,     \* client -> the last snapshot it received
  stalled,  \* the clients whose connection takes nothing at the moment
  active,   \* ConnectionManager.active
  polling,  \* the broadcaster: "asleep", "serialize" or "send"
  message,  \* the snapshot being sent
  pending,  \* the clients it has still to be sent to
  failed    \* those a send of this broadcast failed for

bvars == <<link, view, stalled, active, polling, message, pending, failed>>
vars == <<cvars, bvars>>

Snapshot == [cycle : 0..MaxCycles, dead : BOOLEAN]
Blank == [cycle |-> 0, dead |-> FALSE]
Now == [cycle |-> cycle, dead |-> dead]

Sockets == <<link, stalled>>
Sending == <<polling, message, pending, failed>>

\* From the reading of the controller to the first send the broadcaster does not
\* await: meanwhile only the agent's thread moves.
LoopFree == polling # "serialize"

-----------------------------------------------------------------------------
(* The endpoint and the browser. *)

NotIncluded(c) == pending
IncludedLate(c) == IF polling = "send" THEN pending \cup {c} ELSE pending
Recipients(c) == NotIncluded(c)

\* The browser connects: accepted, registered, and sent the state of this moment.
\* A broadcast in progress goes on with the clients it began with.
Connect(c) ==
  /\ LoopFree /\ link[c] = "closed"
  /\ link' = [link EXCEPT ![c] = "open"]
  /\ active' = active \cup {c}
  /\ view' = [view EXCEPT ![c] = Now]
  /\ pending' = Recipients(c)
  /\ UNCHANGED <<cvars, stalled, polling, message, failed>>

NeverRemoved(c) == active
Remaining(c) == active \ {c}

\* The connection closes: onclose on one side, WebSocketDisconnect on the other.
\* The next connection is another socket: no send of this one concerns it.
Close(c) ==
  /\ LoopFree /\ link[c] = "open"
  /\ link' = [link EXCEPT ![c] = "closed"]
  /\ active' = Remaining(c)
  /\ stalled' = stalled \ {c}
  /\ pending' = pending \ {c}
  /\ failed' = failed \ {c}
  /\ UNCHANGED <<cvars, view, polling, message>>

Stall(c) ==
  /\ link[c] = "open" /\ c \notin stalled \cup Steady
  /\ stalled' = stalled \cup {c}
  /\ UNCHANGED <<cvars, link, view, active, Sending>>

Unstall(c) ==
  /\ c \in stalled
  /\ stalled' = stalled \ {c}
  /\ UNCHANGED <<cvars, link, view, active, Sending>>

-----------------------------------------------------------------------------
(* poll_and_broadcast. *)

\* Every half second: the controller's fields, under its lock.
Poll ==
  /\ polling = "asleep" /\ active # {}
  /\ polling' = "serialize"
  /\ message' = [Blank EXCEPT !.cycle = cycle]
  /\ UNCHANGED <<cvars, Sockets, view, active, pending, failed>>

\* serialize_state, under the portfolio's lock, then the list of clients.
Serialize ==
  /\ polling = "serialize"
  /\ polling' = "send"
  /\ message' = [message EXCEPT !.dead = dead]
  /\ pending' = active
  /\ failed' = {}
  /\ UNCHANGED <<cvars, Sockets, view, active>>

\* The sends run concurrently.
Send(c) ==
  /\ polling = "send" /\ c \in pending /\ c \notin stalled
  /\ view' = [view EXCEPT ![c] = message]
  /\ pending' = pending \ {c}
  /\ UNCHANGED <<cvars, Sockets, active, polling, message, failed>>

\* _SEND_TIMEOUT_SEC ends a send that makes no progress.
NoTimeout(c) == FALSE
TimedOut(c) == c \in stalled

SendFails(c) ==
  /\ polling = "send" /\ c \in pending /\ TimedOut(c)
  /\ failed' = failed \cup {c}
  /\ pending' = pending \ {c}
  /\ UNCHANGED <<cvars, Sockets, view, active, polling, message>>

\* Once every send has ended, the clients it failed for are disconnected: taken
\* off the list, their socket left as it is.
EndBroadcast ==
  /\ polling = "send" /\ pending = {}
  /\ active' = active \ failed
  /\ polling' = "asleep"
  /\ failed' = {}
  /\ message' = Blank
  /\ UNCHANGED <<cvars, Sockets, view, pending>>

-----------------------------------------------------------------------------
Init ==
  /\ ControllerInit
  /\ link = [c \in Clients |-> "closed"]
  /\ view = [c \in Clients |-> Blank]
  /\ stalled = {} /\ active = {}
  /\ polling = "asleep" /\ message = Blank /\ pending = {} /\ failed = {}

Broadcaster ==
  Poll \/ Serialize \/ EndBroadcast \/ (\E c \in Clients : Send(c) \/ SendFails(c))

Next ==
  \/ ControllerNext /\ UNCHANGED bvars
  \/ \E c \in Clients : Connect(c) \/ Close(c) \/ Stall(c) \/ Unstall(c)
  \/ Broadcaster

\* The agent thread and the event loop run; each send is a task of its own, which
\* wait_for ends one way or the other.  A pause, a switch, a death or a new
\* connection need never happen.
Fairness ==
  /\ WF_vars(AgentLoop /\ UNCHANGED bvars)
  /\ WF_vars(Poll \/ Serialize \/ EndBroadcast)
  /\ \A c \in Clients : WF_vars(Send(c) \/ SendFails(c))

Spec == Init /\ [][Next]_vars /\ Fairness

-----------------------------------------------------------------------------
(* Properties. *)

TypeOK ==
  /\ ControllerTypeOK
  /\ link \in [Clients -> {"open", "closed"}]
  /\ view \in [Clients -> Snapshot]
  /\ stalled \subseteq Clients /\ active \subseteq Clients
  /\ polling \in {"asleep", "serialize", "send"}
  /\ message \in Snapshot
  /\ pending \subseteq Clients /\ failed \subseteq Clients
  /\ \A c \in active : link[c] = "open"

\* What a browser shows never goes back to an earlier cycle, nor from dead to
\* alive, though the snapshot of its connection and that of a broadcast are read
\* and sent by different coroutines.
ViewsNeverGoBack ==
  [][\A c \in Clients : view'[c].cycle >= view[c].cycle
                        /\ (view[c].dead => view'[c].dead)]_vars

\* The death of the agent reaches every browser whose own connection never stalls,
\* whatever those of the others do: "a single stalled client must not freeze delivery to
\* every other connected client" (_SEND_TIMEOUT_SEC).
DeathIsShown ==
  \A c \in Steady : dead ~> (view[c].dead \/ link[c] = "closed")

\* What the README says of the frontend, that it "refreshes live over a WebSocket
\* connection": a browser that holds its connection open comes to show the death
\* of the agent, also after a stall that is over.
StallsAreOvercome ==
  \A c \in Clients :
    <>[](dead /\ link[c] = "open" /\ c \notin stalled) => <>(view[c].dead)
=============================================================================
