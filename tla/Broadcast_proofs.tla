--------------------------- MODULE Broadcast_proofs ---------------------------
(***************************************************************************)
(* Safety of the agent thread and of what the browsers are shown, for any  *)
(* number of browsers and cycles.                                          *)
(***************************************************************************)
EXTENDS Broadcast, TLAPS

Snapshots == [cycle : Nat, dead : BOOLEAN]

\* y shows nothing older than x.
Older(x, y) == x.cycle <= y.cycle /\ (x.dead => y.dead)

ViewTypes ==
  /\ cycle \in Nat /\ dead \in BOOLEAN
  /\ link \in [Clients -> {"open", "closed"}]
  /\ view \in [Clients -> Snapshots]
  /\ message \in Snapshots
  /\ polling \in {"asleep", "serialize", "send"}
  /\ active \subseteq Clients /\ pending \subseteq Clients

\* Whoever is on the list or still to be sent to has its connection open, so that
\* it does not connect meanwhile.
ListedAreOpen == \A c \in active \cup pending : link[c] = "open"

\* A browser shows nothing newer than the agent's state; until its dead flag is
\* read, the message is as recent as every view; from then on, as the view of
\* those it has still to reach.
ViewsBehind ==
  /\ \A c \in Clients : Older(view[c], Now)
  /\ polling = "serialize" =>
       message.cycle <= cycle /\ \A c \in Clients : view[c].cycle <= message.cycle
  /\ polling = "send" =>
       Older(message, Now) /\ \A c \in pending : Older(view[c], message)

ViewInvariant == ViewTypes /\ ListedAreOpen /\ ViewsBehind

-----------------------------------------------------------------------------
\* The agent's state only advances.
LEMMA AgentAdvances ==
  ASSUME ViewTypes, ControllerNext
  PROVE  cycle' \in Nat /\ dead' \in BOOLEAN /\ Older(Now, Now')
<1>1. cycle' = cycle \/ cycle' = cycle + 1
  BY DEF ControllerNext, AgentLoop, Gate, Session, WaitForSession, StartCycle, Think,
         GraphReturns, GraphRaises, EndCycle, Sleep, Die, Pause, Resume, SwitchMode, SessionBell,
         Shown
<1>2. dead' \in BOOLEAN /\ (dead => dead')
  <2>1. CASE Die
    BY <2>1 DEF Die
  <2>2. CASE AgentLoop
    BY <2>2 DEF AgentLoop, Gate, Session, WaitForSession, StartCycle, Think, GraphReturns,
       GraphRaises, EndCycle, Sleep, Shown, ViewTypes
  <2>3. CASE Pause \/ Resume \/ SwitchMode \/ SessionBell
    BY <2>3 DEF Pause, Resume, SwitchMode, SessionBell, Shown, ViewTypes
  <2> QED BY <2>1, <2>2, <2>3 DEF ControllerNext
<1>3. cycle' \in Nat /\ cycle <= cycle' /\ dead' \in BOOLEAN /\ (dead => dead')
  BY <1>1, <1>2 DEF ViewTypes
<1> QED BY <1>3 DEF Older, Now

\* Snapshots are ordered by their number.
LEMMA OlderIsTransitive ==
  ASSUME NEW x \in Snapshots, NEW y \in Snapshots, NEW z \in Snapshots, Older(x, y), Older(y, z)
  PROVE  Older(x, z)
BY DEF Older, Snapshots

\* No step of the agent thread or a mode request disturbs what clients were sent.
LEMMA AgentKeepsViews ==
  ASSUME ViewInvariant, ControllerNext, UNCHANGED bvars
  PROVE  ViewInvariant'
<1>1. cycle' \in Nat /\ dead' \in BOOLEAN /\ Older(Now, Now')
  BY AgentAdvances DEF ViewInvariant
<1>2. Now \in Snapshots /\ Now' \in Snapshots
  BY <1>1 DEF ViewInvariant, ViewTypes, Now, Snapshots
<1>3. ViewTypes' /\ ListedAreOpen'
  BY <1>1 DEF ViewInvariant, ViewTypes, ListedAreOpen, bvars
<1>4. \A c \in Clients : Older(view'[c], Now')
  BY <1>1, <1>2, OlderIsTransitive DEF ViewInvariant, ViewTypes, ViewsBehind, bvars
<1>5. polling' = "serialize" =>
        message'.cycle <= cycle' /\ \A c \in Clients : view'[c].cycle <= message'.cycle
  BY <1>1 DEF ViewInvariant, ViewTypes, ViewsBehind, bvars, Older, Now, Snapshots
<1>6. polling' = "send" => Older(message', Now') /\ \A c \in pending' : Older(view'[c], message')
  BY <1>1, <1>2, OlderIsTransitive DEF ViewInvariant, ViewTypes, ViewsBehind, bvars
<1> QED BY <1>3, <1>4, <1>5, <1>6 DEF ViewInvariant, ViewsBehind

\* Nor does a connection that opens, closes, stalls or recovers (routes/ws.py).
LEMMA EndpointKeepsViews ==
  ASSUME ViewInvariant, NEW c \in Clients, Connect(c) \/ Close(c) \/ Stall(c) \/ Unstall(c)
  PROVE  ViewInvariant'
<1>1. CASE Connect(c)
  <2>1. c \notin pending /\ polling # "serialize"
    BY <1>1 DEF Connect, LoopFree, ViewInvariant, ListedAreOpen
  <2>2. /\ cycle' = cycle /\ dead' = dead /\ message' = message /\ polling' = polling
        /\ link' = [link EXCEPT ![c] = "open"] /\ active' = active \cup {c}
        /\ view' = [view EXCEPT ![c] = Now] /\ pending' = pending
    BY <1>1 DEF Connect, Recipients, NotIncluded, cvars
  <2>3. Now \in Snapshots /\ Now' = Now
    BY <2>2 DEF ViewInvariant, ViewTypes, Now, Snapshots
  <2>4. ViewTypes'
    BY <2>2, <2>3 DEF ViewInvariant, ViewTypes
  <2>5. ListedAreOpen'
    BY <2>2 DEF ViewInvariant, ViewTypes, ListedAreOpen
  <2>6. ViewsBehind'
    <3>1. Older(Now, Now)
      BY <2>3 DEF Older, Snapshots
    <3>2. \A d \in Clients : view'[d] = IF d = c THEN Now ELSE view[d]
      BY <2>2 DEF ViewInvariant, ViewTypes
    <3> QED BY <2>1, <2>2, <2>3, <3>1, <3>2 DEF ViewInvariant, ViewTypes, ViewsBehind
  <2> QED BY <2>4, <2>5, <2>6 DEF ViewInvariant
<1>2. CASE Close(c)
  BY <1>2 DEF Close, Remaining, ViewInvariant, ViewTypes, ListedAreOpen, ViewsBehind, Older, Now,
     cvars
<1>3. CASE Stall(c) \/ Unstall(c)
  BY <1>3 DEF Stall, Unstall, Sending, ViewInvariant, ViewTypes, ListedAreOpen, ViewsBehind,
     Older, Now, cvars
<1> QED BY <1>1, <1>2, <1>3

\* Nor does a step of poll_and_broadcast (broadcaster.py).
LEMMA BroadcasterKeepsViews ==
  ASSUME ViewInvariant, Broadcaster
  PROVE  ViewInvariant'
<1> USE DEF Sockets
<1>1. CASE Poll
  <2>1. /\ cycle' = cycle /\ dead' = dead /\ link' = link /\ view' = view
        /\ active' = active /\ pending' = pending /\ polling' = "serialize"
    BY <1>1 DEF Poll, cvars
  <2>2. message' \in Snapshots /\ message'.cycle = cycle
    BY <1>1 DEF Poll, Blank, Snapshots, ViewInvariant, ViewTypes
  <2> QED
    BY <2>1, <2>2 DEF ViewInvariant, ViewTypes, ListedAreOpen, ViewsBehind, Older, Now
<1>2. CASE Serialize
  BY <1>2 DEF Serialize, ViewInvariant, ViewTypes, ListedAreOpen, ViewsBehind, Older, Now,
     Snapshots, cvars
<1>3. CASE EndBroadcast
  BY <1>3 DEF EndBroadcast, Blank, ViewInvariant, ViewTypes, ListedAreOpen, ViewsBehind, Older,
     Now, Snapshots, cvars
<1>4. ASSUME NEW c \in Clients, Send(c) PROVE ViewInvariant'
  BY <1>4 DEF Send, ViewInvariant, ViewTypes, ListedAreOpen, ViewsBehind, Older, Now,
     Snapshots, cvars
<1>5. ASSUME NEW c \in Clients, SendFails(c) PROVE ViewInvariant'
  BY <1>5 DEF SendFails, ViewInvariant, ViewTypes, ListedAreOpen, ViewsBehind, Older, Now, cvars
<1> QED BY <1>1, <1>2, <1>3, <1>4, <1>5 DEF Broadcaster

-----------------------------------------------------------------------------
\* The inductive invariant behind what the browsers show: it relates the agent's
\* state, the message under way and every view (api/broadcaster.py, ws.py).
THEOREM ViewInvariantHolds == Spec => []ViewInvariant
<1>1. Init => ViewInvariant
  <2> SUFFICES ASSUME Init PROVE ViewInvariant
    OBVIOUS
  <2>1. ViewTypes /\ ListedAreOpen
    BY DEF Init, ControllerInit, Blank, ViewTypes, ListedAreOpen, Snapshots
  <2>2. polling = "asleep" /\ \A c \in Clients : view[c] = Now
    BY DEF Init, ControllerInit, Blank, Now
  <2>3. Older(Now, Now)
    BY <2>1 DEF Older, Now, ViewTypes
  <2> QED BY <2>1, <2>2, <2>3 DEF ViewInvariant, ViewsBehind
<1>2. ViewInvariant /\ [Next]_vars => ViewInvariant'
  <2> SUFFICES ASSUME ViewInvariant, [Next]_vars PROVE ViewInvariant'
    OBVIOUS
  <2>1. CASE UNCHANGED vars
    BY <2>1 DEF vars, cvars, bvars, ViewInvariant, ViewTypes, ListedAreOpen, ViewsBehind, Older,
       Now
  <2>2. CASE Next
    BY <2>2, AgentKeepsViews, EndpointKeepsViews, BroadcasterKeepsViews DEF Next
  <2> QED BY <2>1, <2>2
<1> QED BY <1>1, <1>2, PTL DEF Spec

\* A view moves only when a snapshot arrives, and none that arrives is older: no
\* browser goes back to an earlier cycle or from dead to alive.
THEOREM ViewsOnlyAdvance == Spec => ViewsNeverGoBack
<1> DEFINE Forward(c) == view'[c].cycle >= view[c].cycle /\ (view[c].dead => view'[c].dead)
<1>1. ViewInvariant /\ [Next]_vars => [\A c \in Clients : Forward(c)]_vars
  <2> SUFFICES ASSUME ViewInvariant, Next, NEW d \in Clients PROVE Forward(d)
    BY DEF vars
  <2>1. CASE view' = view
    BY <2>1 DEF ViewInvariant, ViewTypes, Snapshots
  <2>2. ASSUME NEW c \in Clients, Connect(c) PROVE Forward(d)
    BY <2>2 DEF Connect, ViewInvariant, ViewTypes, ViewsBehind, Older, Now, Snapshots
  <2>3. ASSUME NEW c \in Clients, Send(c) PROVE Forward(d)
    BY <2>3 DEF Send, ViewInvariant, ViewTypes, ViewsBehind, Older, Snapshots
  <2> QED
    BY <2>1, <2>2, <2>3 DEF Next, bvars, Broadcaster, Close, Stall, Unstall, Poll, Serialize,
       EndBroadcast, SendFails
<1> QED BY <1>1, ViewInvariantHolds, PTL DEF Spec, ViewsNeverGoBack

-----------------------------------------------------------------------------
\* The indicator and the pause, with the types their actions need.
AgentInvariant ==
  /\ paused \in BOOLEAN /\ thinking \in BOOLEAN /\ held \in BOOLEAN
  /\ at \in Places
  /\ ThinkingOnlyInGraph /\ PauseHolds

\* The flags the agent thread leaves at each point of its loop (controller.py).
LEMMA AgentInvariantHolds == Spec => []AgentInvariant
<1> USE DEF AgentInvariant, ThinkingOnlyInGraph, PauseHolds, Starting, Places
<1>1. Init => AgentInvariant
  BY DEF Init, ControllerInit
<1>2. AgentInvariant /\ [Next]_vars => AgentInvariant'
  <2> SUFFICES ASSUME AgentInvariant, [Next]_vars PROVE AgentInvariant'
    OBVIOUS
  <2>1. CASE UNCHANGED cvars
    BY <2>1 DEF cvars
  <2>2. CASE AgentLoop
    <3>1. CASE Gate \/ Session \/ WaitForSession \/ StartCycle
      BY <2>2, <3>1 DEF Gate, Session, WaitForSession, BackTo, StartCycle, Go, Outside, Shown
    <3>2. CASE Think \/ GraphReturns \/ GraphRaises
      BY <2>2, <3>2 DEF Think, GraphReturns, GraphRaises, ThinkingAfterError, Go, Outside
    <3>3. CASE EndCycle \/ Sleep
      BY <2>2, <3>3 DEF EndCycle, Sleep, BackTo, Go, Outside, Shown
    <3> QED BY <2>2, <3>1, <3>2, <3>3 DEF AgentLoop
  <2>3. CASE Die \/ Pause \/ Resume \/ SwitchMode \/ SessionBell
    <3>1. CASE Pause
      <4>1. CASE paused
        BY <3>1, <4>1 DEF Pause, Shown
      <4>2. CASE ~paused
        BY <3>1, <4>2 DEF Pause, Shown
      <4> QED BY <4>1, <4>2
    <3>2. CASE Resume
      BY <3>2 DEF Resume, Shown
    <3>3. CASE Die \/ SwitchMode \/ SessionBell
      <4>1. UNCHANGED <<at, paused, thinking, held>>
        BY <3>3 DEF Die, SwitchMode, SessionBell, Outside, Shown
      <4> QED BY <4>1
    <3> QED BY <2>3, <3>1, <3>2, <3>3
  <2>4. CASE Broadcaster
    BY <2>1, <2>4 DEF Broadcaster, Poll, Serialize, EndBroadcast, Send, SendFails
  <2>5. ASSUME NEW c \in Clients, Connect(c) \/ Close(c) \/ Stall(c) \/ Unstall(c)
        PROVE AgentInvariant'
    BY <2>1, <2>5 DEF Connect, Close, Stall, Unstall
  <2>6. CASE UNCHANGED vars
    BY <2>1, <2>6 DEF vars
  <2> HIDE DEF AgentInvariant
  <2> QED BY <2>2, <2>3, <2>4, <2>5, <2>6 DEF Next, ControllerNext
<1> QED BY <1>1, <1>2, PTL DEF Spec

\* The indicator is lit during a graph run only, whichever way the run ends
\* (runtime/controller.py, _agent_loop).
THEOREM IndicatorFollowsGraph == Spec => []ThinkingOnlyInGraph
BY AgentInvariantHolds, PTL DEF AgentInvariant

\* A pause acknowledged while no cycle was about to start keeps every cycle from
\* starting until it is lifted.  Nothing is said of a pause acknowledged between
\* the reading of the flag and the start of a cycle, nor of a run under way
\* (runtime/controller.py, _agent_loop; api/routes/control.py, pause).
THEOREM PauseAlwaysHolds == Spec => []PauseHolds
BY AgentInvariantHolds, PTL DEF AgentInvariant
=============================================================================
