--------------------------- MODULE Watchlist_proofs ---------------------------
(***************************************************************************)
(* Proofs about the runtime mode and the watchlist, for any number of      *)
(* request threads, any number of switches and process stops, and a stop   *)
(* inside a write.                                                         *)
(*                                                                         *)
(* Modes: when nobody is switching, SIM and PAPER are never both on        *)
(* (NeverBothOn); switches made one at a time end in the mode asked for,   *)
(* in memory and in .env (SerialSwitchesPersist); the agent is started in  *)
(* SIM (BootsInSim). The two flags have no lock. What saves them is the    *)
(* order of the assignments: a setter that turns its flag on turns the     *)
(* other one off next. So whenever both are on, some thread is about to    *)
(* turn one off, and this is what the first invariant says                 *)
(* (SomeoneClears). The second one (OneProgram) follows a switch that runs *)
(* alone: the assignments it has made hold, and they are of distinct       *)
(* cells, so none undoes another.                                          *)
(*                                                                         *)
(* Watchlist: a step of it is a step of the modes or leaves them alone, so *)
(* that the above holds of it. A table exceeds its maximum by no more than *)
(* the adds that overlapped (WatchlistLimit); a request that has run alone *)
(* so far still finds the mode, its file and the room in it as it found    *)
(* them (Undisturbed), which is why its yes means that the row is there    *)
(* (YesMeansListed).                                                       *)
(***************************************************************************)
EXTENDS Watchlist, SequenceTheorems, FiniteSetTheorems, TLAPS

Assignment == [cell : {"memory", "env"}, flag : Flags, on : BOOLEAN]

TurnsOn(a, f) == a = Mem(f, TRUE)
TurnsOff(a) == a.cell = "memory" /\ ~a.on

\* A program that turns a flag on turns the other one off right after.
ClearsNext(p) ==
  \A i \in 1..Len(p) : p[i].cell = "memory" /\ p[i].on
                         => i < Len(p) /\ TurnsOff(p[i + 1]) /\ p[i + 1].flag # p[i].flag

Programs == {p \in Seq(Assignment) : ClearsNext(p)}

SomeoneClears ==
  memory["sim"] /\ memory["paper"]
    => \E t \in Threads : todo[t] # <<>> /\ TurnsOff(Head(todo[t]))

FlagsInvariant ==
  /\ memory \in [Flags -> BOOLEAN]
  /\ env \in [Flags -> BOOLEAN]
  /\ todo \in [Threads -> Programs]
  /\ SomeoneClears

-----------------------------------------------------------------------------
(* The programs of the code.                                                *)

\* Tuples are sequences.
LEMMA TwoAndFour ==
  ASSUME NEW S, NEW a \in S, NEW b \in S, NEW c \in S, NEW d \in S
  PROVE  <<a, b>> \in Seq(S) /\ <<a, b, c, d>> \in Seq(S)
OBVIOUS

\* One program after the other is a program.
LEMMA JoinedPrograms ==
  ASSUME NEW p \in Programs, NEW q \in Programs
  PROVE  p \o q \in Programs
<1> DEFINE r == p \o q
<1>1. /\ p \in Seq(Assignment) /\ ClearsNext(p) /\ Len(p) \in Nat
      /\ q \in Seq(Assignment) /\ ClearsNext(q) /\ Len(q) \in Nat
  BY DEF Programs
<1>2. /\ r \in Seq(Assignment) /\ Len(r) = Len(p) + Len(q)
      /\ \A i \in 1..Len(r) : r[i] = IF i <= Len(p) THEN p[i] ELSE q[i - Len(p)]
  BY <1>1
<1>3. ASSUME NEW i \in 1..Len(r), r[i].cell = "memory", r[i].on
      PROVE  i < Len(r) /\ TurnsOff(r[i + 1]) /\ r[i + 1].flag # r[i].flag
  <2>1. CASE i <= Len(p)
    <3>1. r[i] = p[i] /\ i \in 1..Len(p)
      BY <1>2, <2>1
    <3>2. i < Len(p) /\ TurnsOff(p[i + 1]) /\ p[i + 1].flag # p[i].flag
      BY <1>1, <1>3, <3>1 DEF ClearsNext
    <3>3. i + 1 \in 1..Len(r) /\ i + 1 <= Len(p)
      BY <1>1, <1>2, <3>2
    <3>4. r[i + 1] = p[i + 1] /\ i < Len(r)
      BY <1>1, <1>2, <3>3
    <3> QED BY <3>1, <3>2, <3>4
  <2>2. CASE i > Len(p)
    <3> DEFINE j == i - Len(p)
    <3>1. r[i] = q[j] /\ j \in 1..Len(q)
      BY <1>1, <1>2, <2>2
    <3>2. j < Len(q) /\ TurnsOff(q[j + 1]) /\ q[j + 1].flag # q[j].flag
      BY <1>1, <1>3, <3>1 DEF ClearsNext
    <3>3. i + 1 \in 1..Len(r) /\ ~(i + 1 <= Len(p)) /\ (i + 1) - Len(p) = j + 1
      BY <1>1, <1>2, <2>2, <3>2
    <3>4. r[i + 1] = q[j + 1] /\ i < Len(r)
      BY <1>1, <1>2, <3>3
    <3> QED BY <3>1, <3>2, <3>4
  <2> QED BY <1>1, <2>1, <2>2
<1> HIDE DEF r
<1>4. r \in Programs
  BY <1>2, <1>3 DEF Programs, ClearsNext
<1> QED BY <1>4 DEF r

\* Every mode request, and the boot, is a program.
LEMMA ModePrograms ==
  /\ \A mode \in ModeNames : SetMode(mode) \in Programs
  /\ BootMode \in Programs
  /\ <<>> \in Programs
<1>1. /\ Mem("sim", TRUE) \in Assignment /\ Mem("sim", FALSE) \in Assignment
      /\ Mem("paper", TRUE) \in Assignment /\ Mem("paper", FALSE) \in Assignment
      /\ Env("sim", TRUE) \in Assignment /\ Env("sim", FALSE) \in Assignment
      /\ Env("paper", TRUE) \in Assignment /\ Env("paper", FALSE) \in Assignment
  BY DEF Mem, Env, Assignment, Flags
<1>2. SetSimulationMode(TRUE) \in Programs /\ SetPaperMode(TRUE) \in Programs
  <2>1. SetSimulationMode(TRUE) \in Seq(Assignment) /\ SetPaperMode(TRUE) \in Seq(Assignment)
    BY <1>1, TwoAndFour DEF SetSimulationMode, SetPaperMode
  <2>2. ClearsNext(SetSimulationMode(TRUE))
    BY DEF SetSimulationMode, ClearsNext, TurnsOff, Mem, Env
  <2>3. ClearsNext(SetPaperMode(TRUE))
    BY DEF SetPaperMode, ClearsNext, TurnsOff, Mem, Env
  <2> QED BY <2>1, <2>2, <2>3 DEF Programs
<1>3. SetSimulationMode(FALSE) \in Programs /\ SetPaperMode(FALSE) \in Programs
  <2>1. SetSimulationMode(FALSE) \in Seq(Assignment) /\ SetPaperMode(FALSE) \in Seq(Assignment)
    BY <1>1, TwoAndFour DEF SetSimulationMode, SetPaperMode
  <2>2. ClearsNext(SetSimulationMode(FALSE)) /\ ClearsNext(SetPaperMode(FALSE))
    BY DEF SetSimulationMode, SetPaperMode, ClearsNext, Mem, Env
  <2> QED BY <2>1, <2>2 DEF Programs
<1>4. SetSimulationMode(FALSE) \o SetPaperMode(FALSE) \in Programs
  BY <1>3, JoinedPrograms
<1>5. <<>> \in Programs
  BY DEF Programs, ClearsNext
<1> QED BY <1>2, <1>3, <1>4, <1>5 DEF SetMode, BootMode, ModeNames

\* What is left of a program after its first assignment is one.
LEMMA TailProgram ==
  ASSUME NEW p \in Programs, p # <<>>
  PROVE  /\ Tail(p) \in Programs
         /\ Head(p) \in Assignment
         /\ Head(p).cell = "memory" /\ Head(p).on
              => /\ Tail(p) # <<>> /\ TurnsOff(Head(Tail(p)))
                 /\ Head(Tail(p)).flag # Head(p).flag
<1>1. p \in Seq(Assignment) /\ Len(p) \in Nat /\ Len(p) >= 1 /\ ClearsNext(p)
  BY DEF Programs
<1>2. /\ Tail(p) \in Seq(Assignment) /\ Len(Tail(p)) = Len(p) - 1 /\ Head(p) = p[1]
      /\ \A i \in 1..Len(Tail(p)) : Tail(p)[i] = p[i + 1]
  BY <1>1
<1>3. ClearsNext(Tail(p))
  <2> SUFFICES ASSUME NEW i \in 1..Len(Tail(p)), Tail(p)[i].cell = "memory", Tail(p)[i].on
               PROVE  /\ i < Len(Tail(p)) /\ TurnsOff(Tail(p)[i + 1])
                      /\ Tail(p)[i + 1].flag # Tail(p)[i].flag
    BY DEF ClearsNext
  <2>1. i + 1 \in 1..Len(p) /\ Tail(p)[i] = p[i + 1]
    BY <1>1, <1>2
  <2>2. i + 1 < Len(p) /\ TurnsOff(p[i + 1 + 1]) /\ p[i + 1 + 1].flag # p[i + 1].flag
    BY <1>1, <2>1 DEF ClearsNext
  <2>3. i + 1 \in 1..Len(Tail(p)) /\ Tail(p)[i + 1] = p[i + 1 + 1]
    BY <1>1, <1>2, <2>2
  <2> QED BY <1>2, <2>1, <2>2, <2>3
<1>4. Head(p) \in Assignment
  BY <1>1, <1>2
<1>5. ASSUME Head(p).cell = "memory", Head(p).on
      PROVE  /\ Tail(p) # <<>> /\ TurnsOff(Head(Tail(p)))
             /\ Head(Tail(p)).flag # Head(p).flag
  <2>1. 1 < Len(p) /\ TurnsOff(p[1 + 1]) /\ p[1 + 1].flag # p[1].flag
    BY <1>1, <1>2, <1>5 DEF ClearsNext
  <2>2. Len(Tail(p)) >= 1 /\ Tail(p)[1] = p[1 + 1]
    BY <1>1, <1>2, <2>1
  <2>4. Tail(p) # <<>>
    <3>1. Len(<< >>) = 0
      BY EmptySeq
    <3>2. Len(Tail(p)) # Len(<< >>)
      BY <1>1, <1>2, <2>2, <3>1
    <3> QED BY <3>2
  <2>3. Head(Tail(p)) = Tail(p)[1]
    BY <1>2, <2>2
  <2> QED BY <1>2, <2>1, <2>2, <2>3, <2>4
<1> QED BY <1>2, <1>3, <1>4, <1>5 DEF Programs

-----------------------------------------------------------------------------
(* One lemma per action.                                                    *)

\* A request only queues a program.
LEMMA RequestKeepsFlags ==
  ASSUME FlagsInvariant, NEW r \in Requests, NEW mode \in ModeNames, Request(r, mode)
  PROVE  FlagsInvariant'
<1>1. r \in Threads /\ todo[r] = <<>> /\ todo' = [todo EXCEPT ![r] = SetMode(mode)]
      /\ UNCHANGED <<memory, env>>
  BY DEF Request, Threads
<1>2. todo' \in [Threads -> Programs]
  BY <1>1, ModePrograms DEF FlagsInvariant
<1>3. SomeoneClears'
  BY <1>1 DEF FlagsInvariant, SomeoneClears
<1> QED BY <1>1, <1>2, <1>3 DEF FlagsInvariant

\* An assignment that turns a flag on leaves the one that turns the other off next.
LEMMA AssignKeepsFlags ==
  ASSUME FlagsInvariant, NEW t \in Threads, Assign(t)
  PROVE  FlagsInvariant'
<1> DEFINE a == Head(todo[t])
<1>1. todo[t] \in Programs /\ todo[t] # <<>> /\ todo' = [todo EXCEPT ![t] = Tail(@)]
  BY DEF FlagsInvariant, Assign, Busy
<1>2. todo' \in [Threads -> Programs] /\ todo'[t] = Tail(todo[t]) /\ a \in Assignment
  BY <1>1, TailProgram DEF FlagsInvariant
<1>3. \A u \in Threads : u # t => todo'[u] = todo[u]
  BY <1>1 DEF FlagsInvariant
<1>4. a.flag \in Flags /\ a.on \in BOOLEAN
  BY <1>2 DEF Assignment
<1>5. CASE a.cell = "env"
  <2>1. memory' = memory /\ env' \in [Flags -> BOOLEAN]
    BY <1>4, <1>5 DEF Assign, FlagsInvariant
  <2>2. SomeoneClears'
    <3> SUFFICES ASSUME memory["sim"], memory["paper"]
                 PROVE  \E u \in Threads : todo'[u] # <<>> /\ TurnsOff(Head(todo'[u]))
      BY <2>1 DEF SomeoneClears
    <3>1. PICK u \in Threads : todo[u] # <<>> /\ TurnsOff(Head(todo[u]))
      BY DEF FlagsInvariant, SomeoneClears
    <3>2. u # t
      BY <1>5, <3>1 DEF TurnsOff
    <3> QED BY <1>3, <3>1, <3>2
  <2> QED BY <1>2, <2>1, <2>2 DEF FlagsInvariant
<1>6. CASE a.cell = "memory" /\ a.on
  <2>1. memory' = [memory EXCEPT ![a.flag] = a.on] /\ env' = env
    BY <1>6 DEF Assign
  <2>2. todo'[t] # <<>> /\ TurnsOff(Head(todo'[t]))
    BY <1>1, <1>2, <1>6, TailProgram
  <2>3. SomeoneClears'
    BY <2>2 DEF SomeoneClears
  <2>4. memory' \in [Flags -> BOOLEAN]
    BY <1>4, <2>1 DEF FlagsInvariant
  <2> QED BY <1>2, <2>1, <2>3, <2>4 DEF FlagsInvariant
<1>7. CASE a.cell = "memory" /\ ~a.on
  <2>1. memory' = [memory EXCEPT ![a.flag] = a.on] /\ env' = env
    BY <1>7 DEF Assign
  <2>2. memory' \in [Flags -> BOOLEAN] /\ ~memory'[a.flag]
    BY <1>4, <1>7, <2>1 DEF FlagsInvariant
  <2>3. SomeoneClears'
    BY <1>4, <2>2 DEF SomeoneClears, Flags
  <2> QED BY <1>2, <2>1, <2>2, <2>3 DEF FlagsInvariant
<1> QED BY <1>2, <1>4, <1>5, <1>6, <1>7 DEF Assignment

\* A boot, the first one or after a stop: the file's flags, PAPER winning.
LEMMA BootFlags ==
  ASSUME env' \in [Flags -> BOOLEAN], memory' = AtImport(env'),
         todo' = [t \in Threads |-> IF t = Lifespan THEN BootMode ELSE <<>>]
  PROVE  FlagsInvariant'
<1>1. memory' \in [Flags -> BOOLEAN] /\ ~(memory'["sim"] /\ memory'["paper"])
  BY DEF AtImport, Flags
<1>2. todo' \in [Threads -> Programs]
  BY ModePrograms
<1> QED BY <1>1, <1>2 DEF FlagsInvariant, SomeoneClears

\* The import of the process never leaves both flags on.
LEMMA InitFlags == Init => FlagsInvariant
<1> SUFFICES ASSUME Init PROVE FlagsInvariant
  OBVIOUS
<1>1. memory \in [Flags -> BOOLEAN] /\ ~(memory["sim"] /\ memory["paper"])
  BY DEF Init, AtImport, Flags
<1>2. todo \in [Threads -> Programs]
  BY ModePrograms DEF Init
<1> QED BY <1>1, <1>2 DEF Init, FlagsInvariant, SomeoneClears

\* Every step keeps the invariant of the flags.
LEMMA StepKeepsFlags ==
  ASSUME FlagsInvariant, [Next]_mvars
  PROVE  FlagsInvariant'
<1>1. CASE UNCHANGED <<memory, env, todo>>
  BY <1>1 DEF FlagsInvariant, SomeoneClears
<1>2. CASE Crash
  <2>1. env' \in [Flags -> BOOLEAN]
    BY <1>2 DEF Crash, FlagsInvariant, NoFlags
  <2> QED BY <1>2, <2>1, BootFlags DEF Crash
<1> QED BY <1>1, <1>2, RequestKeepsFlags, AssignKeepsFlags DEF Next, StartController, mvars

\* The inductive invariant: whenever both flags are on, a thread is about to
\* clear one of them.
THEOREM FlagsInvariantHolds == Spec => []FlagsInvariant
BY InitFlags, StepKeepsFlags, PTL DEF Spec

\* However many mode requests overlap (api/routes/control.py, set_mode, served by
\* a thread pool), SIM and PAPER are not both on once they are done
\* (agents/shared/modes.py, set_simulation_mode and set_paper_mode).
THEOREM FlagsNeverBothOn == Spec => []NeverBothOn
<1>1. FlagsInvariant => NeverBothOn
  BY DEF FlagsInvariant, SomeoneClears, NeverBothOn, AtRest, Busy
<1> QED BY <1>1, FlagsInvariantHolds, PTL

-----------------------------------------------------------------------------
(* A switch that runs alone.                                                *)

Holds(a) == IF a.cell = "memory" THEN memory[a.flag] = a.on ELSE env[a.flag] = a.on

MadeBy(t) == 4 - Len(todo[t])

\* Thread t is in the middle of the program of the mode asked for last, and what
\* it has done holds; of .env only as long as no write failed.
InProgram(t) ==
  LET P == SetMode(lastAsked)
  IN /\ Len(todo[t]) \in 0..4
     /\ \A i \in 1..Len(todo[t]) : todo[t][i] = P[MadeBy(t) + i]
     /\ \A i \in 1..MadeBy(t) : clean \/ P[i].cell = "memory" => Holds(P[i])

OneProgram ==
  clean \/ server = "starting"
    => \E t \in Threads : /\ InProgram(t)
                          /\ \A u \in Threads : u # t => todo[u] = <<>>
                          /\ server = "starting" => t = Lifespan

SerialInvariant ==
  /\ FlagsInvariant
  /\ lastAsked \in ModeNames
  /\ server = "starting" => lastAsked = "sim"
  /\ OneProgram

\* Two pairs make four.
LEMMA JoinedPairs ==
  ASSUME NEW S, NEW s \in Seq(S), NEW t \in Seq(S), NEW u \in Seq(S),
         Len(s) = 2, Len(t) = 2, Len(u) = 4,
         u[1] = s[1], u[2] = s[2], u[3] = t[1], u[4] = t[2]
  PROVE  s \o t = u
<1> DEFINE r == s \o t
<1>1. r \in Seq(S) /\ Len(r) = 4
      /\ \A i \in 1..4 : r[i] = IF i <= 2 THEN s[i] ELSE t[i - 2]
  <2>1. /\ r \in Seq(S) /\ Len(r) = Len(s) + Len(t)
        /\ \A i \in 1..(Len(s) + Len(t)) : r[i] = IF i <= Len(s) THEN s[i] ELSE t[i - Len(s)]
    BY ConcatProperties
  <2> HIDE DEF r
  <2> QED BY <2>1
<1> HIDE DEF r
<1>2. r[1] = s[1] /\ r[2] = s[2] /\ r[3] = t[1] /\ r[4] = t[2]
  BY <1>1
<1>3. \A i \in 1..Len(u) : r[i] = u[i]
  BY <1>2
<1>4. r = u
  BY <1>1, <1>3, SeqEqual
<1> QED BY <1>4 DEF r

\* The assignments of the two setters, one pair after the other.
LEMMA TwoThenTwo ==
  ASSUME NEW S, NEW a \in S, NEW b \in S, NEW c \in S, NEW d \in S
  PROVE  <<a, b>> \o <<c, d>> = <<a, b, c, d>>
<1> DEFINE s == <<a, b>>
           t == <<c, d>>
           u == <<a, b, c, d>>
<1>1. s \in Seq(S) /\ t \in Seq(S) /\ u \in Seq(S)
  BY TwoAndFour
<1>2. Len(s) = 2 /\ Len(t) = 2 /\ Len(u) = 4
  OBVIOUS
<1>3. u[1] = s[1] /\ u[2] = s[2] /\ u[3] = t[1] /\ u[4] = t[2]
  OBVIOUS
<1> HIDE DEF s, t, u
<1>4. s \o t = u
  BY <1>1, <1>2, <1>3, JoinedPairs
<1> QED BY <1>4 DEF s, t, u

\* What the programs are: four assignments, of the four cells.
LEMMA FourAssignments ==
  ASSUME NEW mode \in ModeNames
  PROVE  /\ SetMode(mode) \in Programs /\ Len(SetMode(mode)) = 4
         /\ \A i \in 1..4 : SetMode(mode)[i] \in Assignment
         /\ \A i, j \in 1..4 :
              i # j => \/ SetMode(mode)[i].cell # SetMode(mode)[j].cell
                      \/ SetMode(mode)[i].flag # SetMode(mode)[j].flag
         /\ (\A i \in 1..4 : SetMode(mode)[i].cell = "memory" => Holds(SetMode(mode)[i]))
              => ModeOf(memory) = mode
         /\ (\A i \in 1..4 : Holds(SetMode(mode)[i])) => ModeOf(env) = mode
<1>1. SetMode(mode) \in Programs /\ SetMode(mode) \in Seq(Assignment)
  BY ModePrograms DEF Programs
<1>2. CASE mode = "sim"
  <2>1. SetMode(mode)
          = <<Mem("sim", TRUE), Mem("paper", FALSE), Env("paper", FALSE), Env("sim", TRUE)>>
    BY <1>2 DEF SetMode, SetSimulationMode
  <2> QED BY <1>1, <1>2, <2>1 DEF Mem, Env, Holds, ModeOf, Assignment, Flags
<1>3. CASE mode = "paper"
  <2>1. SetMode(mode)
          = <<Mem("paper", TRUE), Mem("sim", FALSE), Env("sim", FALSE), Env("paper", TRUE)>>
    BY <1>3 DEF SetMode, SetPaperMode
  <2> QED BY <1>1, <1>3, <2>1 DEF Mem, Env, Holds, ModeOf, Assignment, Flags
<1>4. CASE mode = "live"
  <2>1. SetMode(mode)
          = <<Mem("sim", FALSE), Env("sim", FALSE), Mem("paper", FALSE), Env("paper", FALSE)>>
    <3>1. <<Mem("sim", FALSE), Env("sim", FALSE)>> \o <<Mem("paper", FALSE), Env("paper", FALSE)>>
            = <<Mem("sim", FALSE), Env("sim", FALSE), Mem("paper", FALSE), Env("paper", FALSE)>>
      <4>1. /\ Mem("sim", FALSE) \in Assignment /\ Env("sim", FALSE) \in Assignment
            /\ Mem("paper", FALSE) \in Assignment /\ Env("paper", FALSE) \in Assignment
        BY DEF Mem, Env, Assignment, Flags
      <4> QED BY <4>1, TwoThenTwo
    <3> QED BY <1>4, <3>1 DEF SetMode, SetSimulationMode, SetPaperMode
  <2> QED BY <1>1, <1>4, <2>1 DEF Mem, Env, Holds, ModeOf, Assignment, Flags
<1> QED BY <1>2, <1>3, <1>4 DEF ModeNames

\* The boot is a lone program for SIM, made by nobody else.
LEMMA BootStartsProgram ==
  ASSUME todo' = [t \in Threads |-> IF t = Lifespan THEN BootMode ELSE <<>>],
         lastAsked' = "sim"
  PROVE  OneProgram'
<1>1. BootMode = SetMode("sim") /\ Len(BootMode) = 4
  BY FourAssignments DEF BootMode, SetMode, ModeNames
<1>2. todo'[Lifespan] = SetMode(lastAsked') /\ Len(todo'[Lifespan]) = 4
  BY <1>1 DEF Threads
<1>3. MadeBy(Lifespan)' = 0 /\ Len(todo'[Lifespan]) \in 0..4
  BY <1>2 DEF MadeBy
<1>4. ASSUME NEW i \in 1..Len(todo'[Lifespan])
      PROVE  todo'[Lifespan][i] = SetMode(lastAsked')[0 + i]
  BY <1>2
<1>5. InProgram(Lifespan)'
  BY <1>3, <1>4 DEF InProgram
<1>6. Lifespan \in Threads /\ \A u \in Threads : u # Lifespan => todo'[u] = <<>>
  BY DEF Threads
<1> QED BY <1>5, <1>6 DEF OneProgram

\* A request that comes while nothing is being assigned starts a lone program.
LEMMA RequestStartsProgram ==
  ASSUME SerialInvariant, NEW r \in Requests, NEW mode \in ModeNames, Request(r, mode)
  PROVE  OneProgram'
<1>1. /\ r \in Threads /\ todo[r] = <<>> /\ todo' = [todo EXCEPT ![r] = SetMode(mode)]
      /\ server' = "running" /\ server' # "starting" /\ lastAsked' = mode
  BY DEF Request, Threads
<1>2. SUFFICES ASSUME clean'
               PROVE  InProgram(r)' /\ \A u \in Threads : u # r => todo'[u] = <<>>
  BY <1>1 DEF OneProgram
<1>3. Busy = {}
  BY <1>2 DEF Request
<1>4. \A u \in Threads : u # r => todo'[u] = <<>>
  BY <1>1, <1>3 DEF Busy, SerialInvariant, FlagsInvariant
<1>5. todo'[r] = SetMode(lastAsked') /\ Len(todo'[r]) = 4
  BY <1>1, FourAssignments DEF SerialInvariant, FlagsInvariant
<1>6. InProgram(r)'
  BY <1>5 DEF InProgram, MadeBy
<1> QED BY <1>4, <1>6

\* An assignment that was made holds, and changes no other cell.
LEMMA AssignSets ==
  ASSUME SerialInvariant, NEW t \in Threads, Assign(t),
         NEW a \in Assignment, a = Head(todo[t])
  PROVE  /\ clean' \/ a.cell = "memory" => Holds(a)'
         /\ \A b \in Assignment :
              Holds(b) /\ (b.cell # a.cell \/ b.flag # a.flag) => Holds(b)'
<1>1. a.cell \in {"memory", "env"} /\ a.flag \in Flags
  BY DEF Assignment
<1>2. memory \in [Flags -> BOOLEAN] /\ env \in [Flags -> BOOLEAN]
  BY DEF SerialInvariant, FlagsInvariant
<1>3. CASE a.cell = "memory"
  <2>1. memory' = [memory EXCEPT ![a.flag] = a.on] /\ env' = env
    BY <1>3 DEF Assign
  <2>2. memory'[a.flag] = a.on /\ \A f \in Flags : f # a.flag => memory'[f] = memory[f]
    BY <1>1, <1>2, <2>1
  <2>3. Holds(a)'
    BY <1>3, <2>2 DEF Holds
  <2>4. ASSUME NEW b \in Assignment, Holds(b), b.cell # a.cell \/ b.flag # a.flag
        PROVE  Holds(b)'
    BY <1>3, <2>1, <2>2, <2>4 DEF Holds, Assignment
  <2> QED BY <2>3, <2>4
<1>4. CASE a.cell = "env"
  <2>1. /\ memory' = memory
        /\ env' = [env EXCEPT ![a.flag] = a.on] \/ (~clean' /\ env' = env)
    BY <1>4 DEF Assign
  <2>2. /\ clean' => env'[a.flag] = a.on
        /\ \A f \in Flags : f # a.flag => env'[f] = env[f]
    BY <1>1, <1>2, <2>1
  <2>3. clean' => Holds(a)'
    BY <1>4, <2>2 DEF Holds
  <2>4. ASSUME NEW b \in Assignment, Holds(b), b.cell # a.cell \/ b.flag # a.flag
        PROVE  Holds(b)'
    BY <1>4, <2>1, <2>2, <2>4 DEF Holds, Assignment
  <2> QED BY <1>4, <2>3, <2>4
<1> QED BY <1>1, <1>3, <1>4

\* An assignment of a lone program is its next one, and what it made before still holds.
LEMMA AssignFollowsProgram ==
  ASSUME SerialInvariant, NEW t \in Threads, Assign(t)
  PROVE  OneProgram'
<1>a. PICK P : P = SetMode(lastAsked)
  OBVIOUS
<1>b. todo[t] \in Programs /\ todo[t] # <<>>
  BY DEF SerialInvariant, FlagsInvariant, Assign, Busy
<1>c. PICK a \in Assignment : a = Head(todo[t])
  BY <1>b, TailProgram
<1>1. /\ todo[t] # <<>> /\ todo' = [todo EXCEPT ![t] = Tail(@)]
      /\ UNCHANGED <<server, lastAsked>> /\ (clean' => clean)
      /\ a.cell = "memory" => clean' = clean
  BY <1>c DEF Assign, Busy, Assignment
<1>2. SUFFICES ASSUME clean' \/ server' = "starting"
               PROVE  /\ InProgram(t)' /\ \A u \in Threads : u # t => todo'[u] = <<>>
                      /\ server' = "starting" => t = Lifespan
  BY DEF OneProgram
<1>3. InProgram(t) /\ (\A u \in Threads : u # t => todo[u] = <<>>)
      /\ (server = "starting" => t = Lifespan)
  <2>1. PICK v \in Threads : /\ InProgram(v) /\ \A u \in Threads : u # v => todo[u] = <<>>
                             /\ server = "starting" => v = Lifespan
    BY <1>1, <1>2 DEF SerialInvariant, OneProgram
  <2>2. t = v
    BY <1>1, <2>1
  <2> QED BY <2>1, <2>2
<1>4. \A u \in Threads : u # t => todo'[u] = <<>>
  BY <1>1, <1>3 DEF SerialInvariant, FlagsInvariant
<1>5. todo[t] \in Seq(Assignment) /\ Len(todo[t]) \in Nat /\ Len(todo[t]) >= 1
  BY <1>1 DEF SerialInvariant, FlagsInvariant, Programs
<1>6. todo'[t] = Tail(todo[t])
  BY <1>1 DEF SerialInvariant, FlagsInvariant
<1>7. /\ Len(todo'[t]) = Len(todo[t]) - 1 /\ a = todo[t][1]
      /\ \A i \in 1..Len(todo'[t]) : todo'[t][i] = todo[t][i + 1]
  BY <1>5, <1>6, <1>c
<1>8. PICK k \in Nat : k = MadeBy(t) /\ Len(todo[t]) = 4 - k /\ k < 4
  <2>1. PICK n \in 1..4 : n = Len(todo[t])
    BY <1>3, <1>5 DEF InProgram
  <2>2. PICK m \in Nat : m = 4 - n
    <3>1. 4 - n \in Nat
      OBVIOUS
    <3> QED BY <3>1
  <2>3. MadeBy(t) = m
    BY <2>1, <2>2 DEF MadeBy
  <2>4. Len(todo[t]) = 4 - m /\ m < 4
    BY <2>1, <2>2
  <2> QED BY <2>3, <2>4
<1>9. MadeBy(t)' = k + 1 /\ Len(todo'[t]) \in 0..4
  <2>1. Len(todo'[t]) = 3 - k
    BY <1>7, <1>8
  <2>2. Len(todo'[t]) \in 0..4 /\ 4 - Len(todo'[t]) = k + 1
    BY <1>8, <2>1
  <2> QED BY <2>2 DEF MadeBy
<1>10. a = P[k + 1] /\ k + 1 \in 1..4
  <2>1. todo[t][1] = P[k + 1]
    BY <1>3, <1>5, <1>8, <1>a DEF InProgram
  <2> QED BY <1>7, <1>8, <2>1
<1>11. \A i \in 1..Len(todo'[t]) : todo'[t][i] = P[(k + 1) + i]
  <2> TAKE i \in 1..Len(todo'[t])
  <2>1. i + 1 \in 1..Len(todo[t]) /\ k + (i + 1) = (k + 1) + i
    BY <1>7, <1>8
  <2>2. todo[t][i + 1] = P[k + (i + 1)]
    BY <1>3, <1>8, <1>a, <2>1 DEF InProgram
  <2> QED BY <1>7, <2>1, <2>2
<1>12. ASSUME NEW i \in 1..(k + 1), clean' \/ P[i].cell = "memory"
       PROVE  Holds(P[i])'
  <2>1. i \in 1..4 /\ P[i] \in Assignment
    BY <1>8, <1>a, FourAssignments DEF SerialInvariant
  <2>2. CASE i = k + 1
    <3>1. a = P[i]
      BY <1>10, <2>2
    <3>2. Holds(a)'
      BY <1>12, <1>c, <3>1, AssignSets
    <3> QED BY <3>1, <3>2
  <2>3. CASE i # k + 1
    <3>1. i \in 1..k
      BY <1>8, <2>3
    <3>2. Holds(P[i])
      BY <1>1, <1>3, <1>8, <1>12, <1>a, <3>1 DEF InProgram
    <3>3. P[i].cell # a.cell \/ P[i].flag # a.flag
      BY <1>10, <1>a, <2>1, <2>3, FourAssignments DEF SerialInvariant
    <3> QED BY <1>c, <2>1, <3>2, <3>3, AssignSets
  <2> QED BY <2>2, <2>3
<1>13. InProgram(t)'
  BY <1>1, <1>9, <1>11, <1>12, <1>a DEF InProgram
<1> QED BY <1>1, <1>3, <1>4, <1>13

\* Every step keeps the invariant of the lone program.
LEMMA StepKeepsSerial ==
  ASSUME SerialInvariant, [Next]_mvars
  PROVE  SerialInvariant'
<1>1. FlagsInvariant'
  BY StepKeepsFlags DEF SerialInvariant
<1>2. CASE UNCHANGED mvars
  BY <1>1, <1>2 DEF SerialInvariant, OneProgram, InProgram, MadeBy, Holds, mvars
<1>3. CASE Crash
  BY <1>1, <1>3, BootStartsProgram DEF SerialInvariant, Crash, ModeNames
<1>4. CASE StartController
  BY <1>1, <1>4 DEF SerialInvariant, OneProgram, InProgram, MadeBy, Holds, StartController
<1>5. ASSUME NEW r \in Requests, NEW mode \in ModeNames, Request(r, mode)
      PROVE  SerialInvariant'
  <2>1. lastAsked' \in ModeNames /\ server' # "starting"
    BY <1>5 DEF Request
  <2> QED BY <1>1, <1>5, <2>1, RequestStartsProgram DEF SerialInvariant
<1>6. ASSUME NEW t \in Threads, Assign(t)
      PROVE  SerialInvariant'
  <2>1. UNCHANGED <<lastAsked, server>>
    BY <1>6 DEF Assign
  <2> QED BY <1>1, <1>6, <2>1, AssignFollowsProgram DEF SerialInvariant
<1> QED BY <1>2, <1>3, <1>4, <1>5, <1>6 DEF Next

\* The inductive invariant of a switch that runs alone.
THEOREM SerialInvariantHolds == Spec => []SerialInvariant
<1>1. Init => SerialInvariant
  <2> SUFFICES ASSUME Init PROVE SerialInvariant
    OBVIOUS
  <2>1. BootMode = SetMode("sim") /\ Len(BootMode) = 4
    BY FourAssignments DEF BootMode, SetMode, ModeNames
  <2>2. todo[Lifespan] = SetMode(lastAsked) /\ Len(todo[Lifespan]) = 4
    BY <2>1 DEF Threads, Init
  <2>3. InProgram(Lifespan)
    BY <2>2 DEF InProgram, MadeBy
  <2>4. Lifespan \in Threads /\ \A u \in Threads : u # Lifespan => todo[u] = <<>>
    BY DEF Threads, Init
  <2>5. OneProgram
    BY <2>3, <2>4 DEF OneProgram
  <2> QED BY <2>5, InitFlags DEF Init, SerialInvariant, ModeNames
<1> QED BY <1>1, StepKeepsSerial, PTL DEF Spec

\* Where the switch has made all its assignments, they all hold.
LEMMA ProgramDone ==
  ASSUME SerialInvariant, NEW t \in Threads, InProgram(t), todo[t] = <<>>
  PROVE  ModeOf(memory) = lastAsked /\ (clean => ModeOf(env) = lastAsked)
<1>1. Len(todo[t]) = 0 /\ MadeBy(t) = 4
  <2>1. Len(<< >>) = 0
    BY EmptySeq
  <2> QED BY <2>1 DEF MadeBy
<1>2. \A i \in 1..4 : clean \/ SetMode(lastAsked)[i].cell = "memory" => Holds(SetMode(lastAsked)[i])
  BY <1>1 DEF InProgram
<1>3. lastAsked \in ModeNames
  BY DEF SerialInvariant
<1> QED BY <1>2, <1>3, FourAssignments

\* Mode requests made one after the other (api/routes/control.py, set_mode), none
\* of whose writes of .env failed, leave memory and .env in the mode asked for
\* last, across any number of process stops.
THEOREM SerialSwitchesAlwaysPersist == Spec => []SerialSwitchesPersist
<1>1. SerialInvariant => SerialSwitchesPersist
  <2> SUFFICES ASSUME SerialInvariant, AtRest, clean
               PROVE  ModeOf(memory) = lastAsked /\ ModeOf(env) = lastAsked
    BY DEF SerialSwitchesPersist
  <2>1. PICK t \in Threads : InProgram(t)
    BY DEF SerialInvariant, OneProgram
  <2>2. todo[t] = <<>>
    BY DEF AtRest, Busy
  <2> QED BY <2>1, <2>2, ProgramDone
<1> QED BY <1>1, SerialInvariantHolds, PTL

\* Whatever .env says, even emptied by a stop inside a write, lifespan starts the
\* agent thread in SIM (api/main.py).
THEOREM AgentStartsInSim == Spec => BootsInSim
<1>1. SerialInvariant /\ [Next]_mvars
        => [server = "starting" /\ server' = "running" => ModeOf(memory) = "sim"]_mvars
  <2> SUFFICES ASSUME SerialInvariant, [Next]_mvars, server = "starting", server' = "running"
               PROVE  ModeOf(memory) = "sim"
    OBVIOUS
  <2>1. StartController
    BY DEF Next, mvars, Request, Assign, Crash
  <2>2. InProgram(Lifespan) /\ Lifespan \in Threads /\ todo[Lifespan] = <<>>
    BY <2>1 DEF SerialInvariant, OneProgram, StartController, LifespanDone, Threads
  <2>3. lastAsked = "sim"
    BY DEF SerialInvariant
  <2> QED BY <2>2, <2>3, ProgramDone
<1> QED BY <1>1, SerialInvariantHolds, PTL DEF Spec, BootsInSim

-----------------------------------------------------------------------------
(* The watchlist.  Its requests run among the mode switches, so whatever is *)
(* proved of the modes holds here too; a request that runs alone sees one    *)
(* file from its first access to its last.                                   *)

Steps == {"looking", "write", "writing"}

Ops ==
  [kind : {"idle"}, ok : BOOLEAN]
  \cup [kind : {"add", "remove"}, symbol : Symbols, step : Steps, paper : BOOLEAN,
        alone : BOOLEAN, blind : BOOLEAN]

\* What an add that is alone has seen of the table, if its read succeeded, still
\* stands.
StillRoom(o) ==
  o.kind = "add" /\ o.step \in {"write", "writing"} /\ ~o.blind
    => /\ Cardinality(tables[ModeOf(memory)]) < MaxSymbols
       /\ o.symbol \notin tables[ModeOf(memory)]

\* A request that is alone: nothing else is under way, its file is open and is the
\* file it will resolve.
Undisturbed(c) ==
  /\ \A d \in Clients : d # c => op[d].kind = "idle"
  /\ Busy = {} /\ server = "running"
  /\ ModeOf(memory) \in opened
  /\ op[c].paper = memory["paper"]
  /\ StillRoom(op[c])

WatchlistTyped ==
  /\ tables \in [Files -> SUBSET Symbols]
  /\ op \in [Clients -> Ops]
  /\ unchecked \in Nat

WatchlistInvariant ==
  /\ WatchlistTyped
  /\ WatchlistLimit
  /\ \A c \in Clients : op[c].kind # "idle" /\ op[c].alone => Undisturbed(c)

\* Every step of the whole is a step of the modes, or none.
LEMMA WatchlistStepImplements == [WatchlistNext]_wvars => [Next]_mvars
BY DEF WatchlistNext, wvars, wlvars, Serve, Look, Retry, Invalid, BeginWrite, Insert, Delete, Visit,
       SwitchAmongRequests, Switch, Stop, Next

\* The watchlist's runs are runs of the modes: the theorems above hold of them.
THEOREM WatchlistImplementsModes == WatchlistSpec => Spec
<1>1. WatchlistInit => Init
  BY DEF WatchlistInit
<1> QED BY <1>1, WatchlistStepImplements, PTL DEF WatchlistSpec, Spec

\* Switches keep their promises among watchlist requests.
THEOREM WatchlistKeepsModes == WatchlistSpec => [](NeverBothOn /\ SerialSwitchesPersist)
BY WatchlistImplementsModes, FlagsNeverBothOn, SerialSwitchesAlwaysPersist, PTL

\* Rows are finitely many; one more, one less.
LEMMA Rows ==
  ASSUME NEW S \in SUBSET Symbols, NEW s
  PROVE  /\ IsFiniteSet(S) /\ Cardinality(S) \in Nat
         /\ s \notin S => Cardinality(S \cup {s}) = Cardinality(S) + 1
         /\ Cardinality(S \ {s}) \in Nat /\ Cardinality(S \ {s}) <= Cardinality(S)
<1>1. IsFiniteSet(S)
  BY WatchlistAssumption, FS_Subset
<1>2. S \ {s} \in SUBSET Symbols /\ S \ {s} \subseteq S
  OBVIOUS
<1>3. IsFiniteSet(S \ {s})
  BY <1>1, <1>2, FS_Subset
<1> QED BY <1>1, <1>2, <1>3, FS_Subset, FS_AddElement, FS_CardinalityType

\* Opening a file keeps the limit: what it seeds is an empty table, with Defaults.
LEMMA SeedKeepsLimit ==
  ASSUME WatchlistInvariant, EnsureDb, unchecked' = unchecked
  PROVE  /\ tables' \in [Files -> SUBSET Symbols] /\ WatchlistLimit'
         /\ ModeOf(memory) \in opened'
         /\ ModeOf(memory) \in opened => tables' = tables /\ opened' = opened
<1>1. tables \in [Files -> SUBSET Symbols] /\ unchecked \in Nat
  BY DEF WatchlistInvariant, WatchlistTyped
<1>2. CASE ModeOf(memory) \in opened
  BY <1>1, <1>2 DEF EnsureDb, WatchlistInvariant, WatchlistLimit
<1>3. CASE ModeOf(memory) \notin opened
  <2>1. /\ tables' = [f \in Files |-> IF tables[f] = {} THEN Defaults ELSE tables[f]]
        /\ opened' = opened \cup {ModeOf(memory)}
    BY <1>3 DEF EnsureDb
  <2>2. /\ Defaults \in SUBSET Symbols /\ MaxSymbols \in Nat
        /\ Cardinality(Defaults) <= MaxSymbols /\ Cardinality(Defaults) \in Nat
    BY WatchlistAssumption, Rows
  <2>3. tables' \in [Files -> SUBSET Symbols]
    BY <1>1, <2>1, <2>2
  <2>4. ASSUME NEW f \in Files PROVE Cardinality(tables'[f]) <= MaxSymbols + unchecked'
    <3>1. CASE tables[f] = {}
      <4>1. tables'[f] = Defaults
        BY <2>1, <3>1
      <4> QED BY <1>1, <2>2, <4>1
    <3>2. CASE tables[f] # {}
      BY <2>1, <3>2 DEF WatchlistInvariant, WatchlistLimit
    <3> QED BY <3>1, <3>2
  <2> QED BY <1>3, <2>1, <2>3, <2>4 DEF WatchlistLimit
<1> QED BY <1>2, <1>3

\* A client that has something under way is the only one that may be alone.
LEMMA OnlyOneAlone ==
  ASSUME WatchlistInvariant, NEW c \in Clients, op[c].kind # "idle",
         NEW d \in Clients, d # c
  PROVE  ~(op[d].kind # "idle" /\ op[d].alone)
BY DEF WatchlistInvariant, Undisturbed

\* A request under way has a symbol and a step.
LEMMA UnderWay ==
  ASSUME WatchlistTyped, NEW c \in Clients, op[c].kind # "idle"
  PROVE  op[c] \in [kind : {"add", "remove"}, symbol : Symbols, step : Steps,
                    paper : BOOLEAN, alone : BOOLEAN, blind : BOOLEAN]
BY DEF WatchlistTyped, Ops

\* An answer ends the request; what it says of the others stays.
LEMMA AnswerKeeps ==
  ASSUME WatchlistInvariant, NEW c \in Clients, NEW ok \in BOOLEAN, Answer(c, ok),
         op[c].kind # "idle", UNCHANGED mvars
  PROVE  /\ op' \in [Clients -> Ops] /\ op'[c] = Answered(ok)
         /\ \A d \in Clients : ~(op'[d].kind # "idle" /\ op'[d].alone)
<1>1. op \in [Clients -> Ops] /\ op' = [op EXCEPT ![c] = Answered(ok)]
  BY DEF Answer, WatchlistInvariant, WatchlistTyped
<1>2. Answered(ok) \in Ops /\ Answered(ok).kind = "idle"
  BY DEF Answered, Ops
<1> QED BY <1>1, <1>2, OnlyOneAlone

\* Nobody is alone any more.
LEMMA NothingAloneTyped ==
  ASSUME WatchlistInvariant
  PROVE  /\ NothingAlone \in [Clients -> Ops]
         /\ \A d \in Clients : /\ NothingAlone[d].kind = op[d].kind
                               /\ ~(NothingAlone[d].kind # "idle" /\ NothingAlone[d].alone)
<1>1. op \in [Clients -> Ops]
  BY DEF WatchlistInvariant, WatchlistTyped
<1>2. ASSUME NEW d \in Clients
      PROVE  /\ NothingAlone[d] \in Ops /\ NothingAlone[d].kind = op[d].kind
             /\ ~(NothingAlone[d].kind # "idle" /\ NothingAlone[d].alone)
  <2>1. CASE d \in Active
    <3>1. NothingAlone[d] = [op[d] EXCEPT !.alone = FALSE, !.blind = FALSE]
      BY <2>1 DEF NothingAlone
    <3>2. op[d] \in [kind : {"add", "remove"}, symbol : Symbols, step : Steps,
                     paper : BOOLEAN, alone : BOOLEAN, blind : BOOLEAN]
      BY <2>1, UnderWay DEF Active, WatchlistInvariant
    <3> QED BY <3>1, <3>2 DEF Ops
  <2>2. CASE d \notin Active
    BY <1>1, <2>2 DEF NothingAlone, Active, Answered, Ops
  <2> QED BY <2>1, <2>2
<1> QED BY <1>2 DEF NothingAlone

\* A request starts, alone or not.
LEMMA ServeKeeps ==
  ASSUME WatchlistInvariant, FlagsInvariant, NEW c \in Clients,
         NEW kind \in {"add", "remove"}, NEW s \in Symbols, Serve(c, kind, s)
  PROVE  WatchlistInvariant'
<1> DEFINE new == [kind |-> kind, symbol |-> s,
                   step |-> IF kind = "add" THEN "looking" ELSE "writing",
                   paper |-> memory["paper"], alone |-> Active = {} /\ Busy = {},
                   blind |-> FALSE]
<1>1. /\ server = "running" /\ EnsureDb /\ UNCHANGED <<mvars, unchecked>>
      /\ op' = [NothingAlone EXCEPT ![c] = new]
  BY DEF Serve
<1>2. /\ op \in [Clients -> Ops] /\ unchecked \in Nat
  BY DEF WatchlistInvariant, WatchlistTyped
<1>3. new \in Ops /\ new.kind # "idle" /\ new.paper = memory["paper"]
      /\ (new.alone <=> Active = {} /\ Busy = {})
      /\ (kind = "add" => new.step = "looking")  /\ new.kind = kind
  BY DEF Ops, Steps, FlagsInvariant, Flags
<1> HIDE DEF new
<1>4. /\ op' \in [Clients -> Ops] /\ op'[c] = new
      /\ \A d \in Clients : d # c => op'[d] = NothingAlone[d]
      /\ \A d \in Clients : /\ NothingAlone[d].kind = op[d].kind
                            /\ ~(NothingAlone[d].kind # "idle" /\ NothingAlone[d].alone)
  BY <1>1, <1>2, <1>3, NothingAloneTyped DEF WatchlistInvariant
<1>5. /\ tables' \in [Files -> SUBSET Symbols] /\ WatchlistLimit' /\ ModeOf(memory) \in opened'
  BY <1>1, SeedKeepsLimit
<1>6. ASSUME new.alone PROVE Undisturbed(c)'
  <2>1. \A d \in Clients : d # c => op'[d].kind = "idle"
    BY <1>3, <1>4, <1>6 DEF Active
  <2>2. Busy' = {} /\ server' = "running" /\ memory' = memory
    BY <1>1, <1>3, <1>6 DEF mvars, Busy
  <2>3. StillRoom(op[c])'
    <3>1. ~(new.kind = "add" /\ new.step \in {"write", "writing"})
      BY <1>3
    <3> QED BY <1>4, <3>1 DEF StillRoom
  <2>4. op'[c].paper = memory'["paper"] /\ ModeOf(memory') \in opened'
    BY <1>3, <1>4, <1>5, <2>2
  <2> QED BY <2>1, <2>2, <2>3, <2>4 DEF Undisturbed
<1>7. ASSUME NEW d \in Clients, op'[d].kind # "idle", op'[d].alone PROVE Undisturbed(d)'
  <2>1. d = c
    BY <1>4, <1>7
  <2> QED BY <1>4, <1>6, <1>7, <2>1
<1> QED BY <1>1, <1>2, <1>4, <1>5, <1>7 DEF WatchlistInvariant, WatchlistTyped

\* The end of a request leaves nobody alone.
LEMMA AnsweredKeeps ==
  ASSUME WatchlistInvariant, NEW c \in Clients, NEW ok \in BOOLEAN, Answer(c, ok),
         op[c].kind # "idle", UNCHANGED <<mvars, tables, unchecked>>
  PROVE  WatchlistInvariant'
<1>1. /\ op' \in [Clients -> Ops]
      /\ \A d \in Clients : ~(op'[d].kind # "idle" /\ op'[d].alone)
  BY AnswerKeeps
<1> QED BY <1>1 DEF WatchlistInvariant, WatchlistTyped, WatchlistLimit

\* A request that is alone resolves the file of the mode.
LEMMA AloneResolves ==
  ASSUME WatchlistInvariant, NEW c \in Clients, op[c].kind # "idle", op[c].alone
  PROVE  ResolvedFile(c) = ModeOf(memory)
BY DEF WatchlistInvariant, Undisturbed, ResolvedFile, ModeOf

\* A look at the table, before the call of yfinance.
LEMMA LookKeeps ==
  ASSUME WatchlistInvariant, NEW c \in Clients, Look(c)
  PROVE  WatchlistInvariant'
<1>1. /\ op[c].kind = "add" /\ op[c].step = "looking" /\ op[c].kind # "idle"
      /\ UNCHANGED <<mvars, tables, unchecked>> /\ opened' = opened
  BY DEF Look
<1>2. CASE Answer(c, TRUE)
  BY <1>1, <1>2, AnsweredKeeps
<1>3. CASE Answer(c, FALSE)
  BY <1>1, <1>3, AnsweredKeeps
<1>4. ASSUME NEW failed \in BOOLEAN,
             failed \/ (/\ op[c].symbol \notin tables[ResolvedFile(c)]
                        /\ HasRoom(tables[ResolvedFile(c)])),
             op' = [op EXCEPT ![c].step = "write", ![c].blind = failed /\ op[c].alone]
      PROVE  WatchlistInvariant'
  <2>1. op \in [Clients -> Ops]
    BY DEF WatchlistInvariant, WatchlistTyped
  <2>2. op[c] \in [kind : {"add", "remove"}, symbol : Symbols, step : Steps,
                   paper : BOOLEAN, alone : BOOLEAN, blind : BOOLEAN]
    BY <1>1, UnderWay DEF WatchlistInvariant
  <2>3. /\ op'[c] \in Ops /\ op'[c].kind = "add" /\ op'[c].symbol = op[c].symbol
        /\ op'[c].paper = op[c].paper /\ op'[c].alone = op[c].alone
        /\ op'[c].blind = (failed /\ op[c].alone)
    BY <1>1, <1>4, <2>1, <2>2 DEF Ops, Steps
  <2>4. /\ op' \in [Clients -> Ops] /\ \A d \in Clients : d # c => op'[d] = op[d]
    BY <1>4, <2>1, <2>3
  <2>5. ASSUME op[c].alone PROVE Undisturbed(c)'
    <3>1. ResolvedFile(c) = ModeOf(memory) /\ Undisturbed(c)
      BY <1>1, <2>5, AloneResolves DEF WatchlistInvariant
    <3>2. memory' = memory /\ Busy' = Busy /\ server' = server /\ tables' = tables
      BY <1>1 DEF mvars, Busy
    <3>3. StillRoom(op[c])'
      BY <1>4, <2>3, <2>5, <3>1, <3>2 DEF StillRoom, HasRoom
    <3> QED BY <1>1, <2>3, <2>4, <3>1, <3>2, <3>3 DEF Undisturbed
  <2>6. \A d \in Clients : op'[d].kind # "idle" /\ op'[d].alone => Undisturbed(d)'
    BY <1>1, <2>3, <2>4, <2>5, OnlyOneAlone
  <2> QED BY <1>1, <2>4, <2>6 DEF WatchlistInvariant, WatchlistTyped, WatchlistLimit
<1> QED BY <1>2, <1>3, <1>4 DEF Look, LookAt, Persisted

\* A locked file: a request that is alone resolves it as before.
LEMMA RetryKeeps ==
  ASSUME WatchlistInvariant, FlagsInvariant, NEW c \in Clients, Retry(c)
  PROVE  WatchlistInvariant'
<1>1. /\ op[c].kind # "idle" /\ UNCHANGED <<mvars, tables, opened, unchecked>>
      /\ op' = [op EXCEPT ![c].paper = memory["paper"]]
  BY DEF Retry, ResolveAgain
<1>2. op \in [Clients -> Ops]
  BY DEF WatchlistInvariant, WatchlistTyped
<1>3. op[c] \in [kind : {"add", "remove"}, symbol : Symbols, step : Steps,
                 paper : BOOLEAN, alone : BOOLEAN, blind : BOOLEAN]
  BY <1>1, UnderWay DEF WatchlistInvariant
<1>4. memory["paper"] \in BOOLEAN
  BY DEF FlagsInvariant, Flags
<1>5. /\ op'[c] \in Ops /\ op'[c].kind = op[c].kind /\ op'[c].symbol = op[c].symbol
      /\ op'[c].step = op[c].step /\ op'[c].blind = op[c].blind
      /\ op'[c].paper = memory["paper"] /\ op'[c].alone = op[c].alone
  BY <1>1, <1>2, <1>3, <1>4 DEF Ops, Steps
<1>6. op' \in [Clients -> Ops] /\ \A d \in Clients : d # c => op'[d] = op[d]
  BY <1>1, <1>2, <1>5
<1>7. ASSUME op[c].alone PROVE Undisturbed(c)'
  <2>1. Undisturbed(c)
    BY <1>1, <1>7 DEF WatchlistInvariant
  <2>2. memory' = memory /\ Busy' = Busy /\ server' = server
    BY <1>1 DEF mvars, Busy
  <2>3. StillRoom(op[c])'
    BY <1>1, <1>5, <2>1, <2>2 DEF Undisturbed, StillRoom
  <2> QED BY <1>1, <1>5, <1>6, <2>1, <2>2, <2>3 DEF Undisturbed
<1>8. \A d \in Clients : op'[d].kind # "idle" /\ op'[d].alone => Undisturbed(d)'
  BY <1>1, <1>5, <1>6, <1>7, OnlyOneAlone
<1> QED BY <1>1, <1>6, <1>8 DEF WatchlistInvariant, WatchlistTyped, WatchlistLimit

\* The second access of an add resolves its file again.
LEMMA BeginWriteKeeps ==
  ASSUME WatchlistInvariant, FlagsInvariant, NEW c \in Clients, BeginWrite(c)
  PROVE  WatchlistInvariant'
<1>1. /\ op[c].kind = "add" /\ op[c].step = "write" /\ op[c].kind # "idle" /\ EnsureDb
      /\ UNCHANGED <<mvars, unchecked>>
      /\ op' = [op EXCEPT ![c].step = "writing", ![c].paper = memory["paper"]]
  BY DEF BeginWrite
<1>2. op \in [Clients -> Ops] /\ unchecked \in Nat
  BY DEF WatchlistInvariant, WatchlistTyped
<1>3. op[c] \in [kind : {"add", "remove"}, symbol : Symbols, step : Steps,
                 paper : BOOLEAN, alone : BOOLEAN, blind : BOOLEAN]
  BY <1>1, UnderWay DEF WatchlistInvariant
<1>4. memory["paper"] \in BOOLEAN
  BY DEF FlagsInvariant, Flags
<1>5. /\ op'[c] \in Ops /\ op'[c].kind = "add" /\ op'[c].symbol = op[c].symbol
      /\ op'[c].paper = memory["paper"] /\ op'[c].alone = op[c].alone
      /\ op'[c].blind = op[c].blind
  BY <1>1, <1>2, <1>3, <1>4 DEF Ops, Steps
<1>6. op' \in [Clients -> Ops] /\ \A d \in Clients : d # c => op'[d] = op[d]
  BY <1>1, <1>2, <1>5
<1>7. /\ tables' \in [Files -> SUBSET Symbols] /\ WatchlistLimit'
      /\ ModeOf(memory) \in opened => tables' = tables /\ opened' = opened
  BY <1>1, SeedKeepsLimit
<1>8. ASSUME op[c].alone PROVE Undisturbed(c)'
  <2>1. Undisturbed(c)
    BY <1>1, <1>8 DEF WatchlistInvariant
  <2>2. memory' = memory /\ Busy' = Busy /\ server' = server
    BY <1>1 DEF mvars, Busy
  <2>3. tables' = tables /\ opened' = opened
    BY <1>7, <2>1 DEF Undisturbed
  <2>4. StillRoom(op[c])'
    BY <1>1, <1>5, <2>1, <2>2, <2>3 DEF Undisturbed, StillRoom
  <2> QED BY <1>5, <1>6, <2>1, <2>2, <2>3, <2>4 DEF Undisturbed
<1>9. \A d \in Clients : op'[d].kind # "idle" /\ op'[d].alone => Undisturbed(d)'
  BY <1>1, <1>5, <1>6, <1>8, OnlyOneAlone
<1> QED BY <1>1, <1>2, <1>6, <1>7, <1>9 DEF WatchlistInvariant, WatchlistTyped

\* The INSERT: alone and after a look that saw the table, into the room it saw; else
\* counted.
LEMMA InsertKeeps ==
  ASSUME WatchlistInvariant, FlagsInvariant, NEW c \in Clients, Insert(c)
  PROVE  WatchlistInvariant'
<1> DEFINE f == ResolvedFile(c)
<1>1. /\ op[c].kind = "add" /\ op[c].step = "writing" /\ op[c].kind # "idle"
      /\ UNCHANGED mvars
  BY DEF Insert
<1>2. CASE Answer(c, FALSE) /\ UNCHANGED <<tables, unchecked>>
  BY <1>1, <1>2, AnsweredKeeps
<1>3. CASE /\ op[c].symbol \notin tables[f] /\ Answer(c, TRUE)
           /\ tables' = [tables EXCEPT ![f] = @ \cup {op[c].symbol}]
           /\ unchecked' = IF op[c].alone /\ ~op[c].blind THEN unchecked ELSE unchecked + 1
  <2>1. /\ op' \in [Clients -> Ops]
        /\ \A d \in Clients : ~(op'[d].kind # "idle" /\ op'[d].alone)
    BY <1>1, <1>3, AnswerKeeps
  <2>2. /\ tables \in [Files -> SUBSET Symbols] /\ unchecked \in Nat /\ MaxSymbols \in Nat
        /\ \A g \in Files : Cardinality(tables[g]) <= MaxSymbols + unchecked
    BY WatchlistAssumption DEF WatchlistInvariant, WatchlistTyped, WatchlistLimit
  <2>3. op[c].symbol \in Symbols /\ f \in Files
    BY <1>1, UnderWay DEF WatchlistInvariant, ResolvedFile, Files, ModeNames
  <2> HIDE DEF f
  <2>4. tables' \in [Files -> SUBSET Symbols] /\ unchecked' \in Nat /\ unchecked' >= unchecked
    BY <1>3, <2>2, <2>3
  <2>5. tables[f] \in SUBSET Symbols /\ Cardinality(tables[f]) <= MaxSymbols + unchecked
    BY <2>2, <2>3
  <2>6. /\ Cardinality(tables[f]) \in Nat
        /\ Cardinality(tables[f] \cup {op[c].symbol}) = Cardinality(tables[f]) + 1
    BY <1>3, <2>5, Rows
  <2>7. Cardinality(tables[f] \cup {op[c].symbol}) <= MaxSymbols + unchecked'
    <3>1. CASE op[c].alone /\ ~op[c].blind
      <4>1. Cardinality(tables[f]) < MaxSymbols
        BY <1>1, <3>1, AloneResolves DEF f, WatchlistInvariant, Undisturbed, StillRoom
      <4> QED BY <1>3, <2>2, <2>6, <3>1, <4>1
    <3>2. CASE ~(op[c].alone /\ ~op[c].blind)
      BY <1>3, <2>2, <2>5, <2>6, <3>2
    <3> QED BY <3>1, <3>2
  <2>8. ASSUME NEW g \in Files PROVE Cardinality(tables'[g]) <= MaxSymbols + unchecked'
    <3>1. CASE g = f
      BY <1>3, <2>2, <2>3, <2>7, <3>1
    <3>2. CASE g # f
      <4>1. tables'[g] = tables[g] /\ Cardinality(tables[g]) \in Nat
        BY <1>3, <2>2, <3>2, Rows
      <4> QED BY <2>2, <2>4, <4>1
    <3> QED BY <3>1, <3>2
  <2> QED BY <2>1, <2>4, <2>8 DEF WatchlistInvariant, WatchlistTyped, WatchlistLimit
<1> QED BY <1>2, <1>3 DEF Insert

\* A removal takes at most a row away.
LEMMA DeleteKeeps ==
  ASSUME WatchlistInvariant, NEW c \in Clients, Delete(c)
  PROVE  WatchlistInvariant'
<1> DEFINE f == ResolvedFile(c)
<1>1. /\ op[c].kind = "remove" /\ op[c].kind # "idle"
      /\ UNCHANGED mvars /\ unchecked' = unchecked
  BY DEF Delete
<1>2. CASE Answer(c, FALSE) /\ UNCHANGED tables
  BY <1>1, <1>2, AnsweredKeeps
<1>3. CASE /\ Answer(c, TRUE)
           /\ tables' = [tables EXCEPT ![f] = @ \ {op[c].symbol}]
  <2>1. /\ op' \in [Clients -> Ops]
        /\ \A d \in Clients : ~(op'[d].kind # "idle" /\ op'[d].alone)
    BY <1>1, <1>3, AnswerKeeps
  <2>2. /\ tables \in [Files -> SUBSET Symbols] /\ unchecked \in Nat /\ MaxSymbols \in Nat
        /\ \A g \in Files : Cardinality(tables[g]) <= MaxSymbols + unchecked
    BY WatchlistAssumption DEF WatchlistInvariant, WatchlistTyped, WatchlistLimit
  <2> HIDE DEF f
  <2>3. tables' \in [Files -> SUBSET Symbols]
    BY <1>3, <2>2
  <2>4. ASSUME NEW g \in Files PROVE Cardinality(tables'[g]) <= MaxSymbols + unchecked'
    <3>1. /\ tables[g] \in SUBSET Symbols
          /\ tables'[g] = tables[g] \/ tables'[g] = tables[g] \ {op[c].symbol}
      BY <1>3, <2>2
    <3>2. /\ Cardinality(tables[g]) \in Nat /\ Cardinality(tables[g] \ {op[c].symbol}) \in Nat
          /\ Cardinality(tables[g] \ {op[c].symbol}) <= Cardinality(tables[g])
      BY <3>1, Rows
    <3>3. Cardinality(tables[g]) <= MaxSymbols + unchecked'
      BY <1>1, <2>2
    <3>4. CASE tables'[g] = tables[g]
      BY <3>3, <3>4
    <3>5. CASE tables'[g] = tables[g] \ {op[c].symbol}
      <4>1. Cardinality(tables'[g]) \in Nat /\ Cardinality(tables'[g]) <= Cardinality(tables[g])
        BY <3>2, <3>5
      <4>2. MaxSymbols + unchecked' \in Nat
        BY <1>1, <2>2
      <4> QED BY <3>2, <3>3, <4>1, <4>2
    <3> QED BY <3>1, <3>4, <3>5
  <2>5. WatchlistTyped'
    BY <1>1, <2>1, <2>2, <2>3 DEF WatchlistTyped
  <2>6. WatchlistLimit'
    BY <2>4 DEF WatchlistLimit
  <2> QED BY <2>1, <2>5, <2>6 DEF WatchlistInvariant
<1> QED BY <1>2, <1>3 DEF Delete

\* Another access of the process opens a file only while no request is alone.
LEMMA VisitKeeps ==
  ASSUME WatchlistInvariant, Visit
  PROVE  WatchlistInvariant'
<1>1. /\ ModeOf(memory) \notin opened /\ EnsureDb /\ UNCHANGED <<mvars, op, unchecked>>
  BY DEF Visit
<1>2. \A d \in Clients : ~(op[d].kind # "idle" /\ op[d].alone)
  BY <1>1 DEF WatchlistInvariant, Undisturbed
<1>3. tables' \in [Files -> SUBSET Symbols] /\ WatchlistLimit'
  BY <1>1, SeedKeepsLimit
<1> QED BY <1>1, <1>2, <1>3 DEF WatchlistInvariant, WatchlistTyped

\* Every step keeps the invariant.
LEMMA StepKeepsWatchlist ==
  ASSUME WatchlistInvariant, FlagsInvariant, [WatchlistNext]_wvars
  PROVE  WatchlistInvariant'
<1>1. ASSUME NEW c \in Clients, NEW kind \in {"add", "remove"}, NEW s \in Symbols,
             Serve(c, kind, s)
      PROVE  WatchlistInvariant'
  BY <1>1, ServeKeeps
<1>2. ASSUME NEW c \in Clients, Look(c) PROVE WatchlistInvariant'
  BY <1>2, LookKeeps
<1>3. ASSUME NEW c \in Clients, Invalid(c) PROVE WatchlistInvariant'
  <2>1. op[c].kind # "idle" /\ Answer(c, FALSE) /\ UNCHANGED <<mvars, tables, unchecked>>
    BY <1>3 DEF Invalid
  <2> QED BY <2>1, AnsweredKeeps
<1>4. ASSUME NEW c \in Clients, BeginWrite(c) PROVE WatchlistInvariant'
  BY <1>4, BeginWriteKeeps
<1>5. ASSUME NEW c \in Clients, Insert(c) PROVE WatchlistInvariant'
  BY <1>5, InsertKeeps
<1>6. ASSUME NEW c \in Clients, Delete(c) PROVE WatchlistInvariant'
  BY <1>6, DeleteKeeps
<1>7. CASE Visit
  BY <1>7, VisitKeeps
<1>8. CASE SwitchAmongRequests
  <2>1. op' = NothingAlone /\ UNCHANGED <<tables, unchecked>>
    BY <1>8 DEF SwitchAmongRequests
  <2> QED BY <2>1, NothingAloneTyped DEF WatchlistInvariant, WatchlistTyped, WatchlistLimit
<1>9. CASE Stop
  <2>1. op' = [d \in Clients |-> Answered(FALSE)] /\ UNCHANGED <<tables, unchecked>>
    BY <1>9 DEF Stop
  <2>2. Answered(FALSE) \in Ops /\ Answered(FALSE).kind = "idle"
    BY DEF Answered, Ops
  <2> QED BY <2>1, <2>2 DEF WatchlistInvariant, WatchlistTyped, WatchlistLimit
<1>11. ASSUME NEW c \in Clients, Retry(c) PROVE WatchlistInvariant'
  BY <1>11, RetryKeeps
<1>10. CASE UNCHANGED wvars
  <2>1. UNCHANGED <<memory, todo, server, tables, opened, op, unchecked>>
    BY <1>10 DEF wvars, mvars, wlvars
  <2> QED BY <2>1 DEF WatchlistInvariant, WatchlistTyped, WatchlistLimit, Undisturbed, StillRoom,
                      Busy
<1> QED BY <1>1, <1>2, <1>3, <1>4, <1>5, <1>6, <1>7, <1>8, <1>9, <1>10, <1>11
       DEF WatchlistNext

\* At the first start the tables are empty and nothing is under way.
LEMMA WatchlistInvariantInit == WatchlistInit => WatchlistInvariant
<1> SUFFICES ASSUME WatchlistInit PROVE WatchlistInvariant
  OBVIOUS
<1>1. /\ tables = [f \in Files |-> {}] /\ op = [c \in Clients |-> Answered(FALSE)]
      /\ unchecked = 0
  BY DEF WatchlistInit
<1>2. Answered(FALSE) \in Ops /\ Answered(FALSE).kind = "idle"
  BY DEF Answered, Ops
<1>3. Cardinality({}) = 0 /\ MaxSymbols \in Nat
  BY FS_EmptySet, WatchlistAssumption
<1>4. WatchlistTyped
  BY <1>1, <1>2 DEF WatchlistTyped
<1>5. ASSUME NEW f \in Files PROVE Cardinality(tables[f]) <= MaxSymbols + unchecked
  <2>1. tables[f] = {}
    BY <1>1
  <2> QED BY <1>1, <1>3, <2>1
<1>6. WatchlistLimit
  BY <1>5 DEF WatchlistLimit
<1> QED BY <1>1, <1>2, <1>4, <1>6 DEF WatchlistInvariant

\* The invariant of the watchlist, with that of the flags, holds of its runs.
THEOREM WatchlistInvariantHolds == WatchlistSpec => [](WatchlistInvariant /\ FlagsInvariant)
<1>1. WatchlistSpec => []FlagsInvariant
  BY WatchlistImplementsModes, FlagsInvariantHolds, PTL
<1>2. FlagsInvariant /\ WatchlistInvariant /\ [WatchlistNext]_wvars => WatchlistInvariant'
  BY StepKeepsWatchlist
<1> QED BY <1>1, <1>2, WatchlistInvariantInit, PTL DEF WatchlistSpec

\* No table outgrows MAX_WATCHLIST_SYMBOLS but by the rows of adds that were not
\* alone or whose look failed, one each (add_to_watchlist, _db_read): for any
\* symbols, maximum and clients.
THEOREM WatchlistLimitHolds == WatchlistSpec => []WatchlistLimit
<1>1. WatchlistInvariant => WatchlistLimit
  BY DEF WatchlistInvariant
<1> QED BY <1>1, WatchlistInvariantHolds, PTL

\* Only a look that finds the row and an INSERT that makes it say yes to an add.
LEMMA YesOnlyOnARow ==
  ASSUME WatchlistInvariant, [WatchlistNext]_wvars, NEW c \in Clients,
         op[c].kind = "add", op[c].alone, op'[c] = Answered(TRUE)
  PROVE  op[c].symbol \in tables'[ModeOf(memory)]
<1>1. /\ op \in [Clients -> Ops] /\ op[c].kind # "idle"
      /\ ResolvedFile(c) = ModeOf(memory) /\ tables \in [Files -> SUBSET Symbols]
      /\ \A d \in Clients : d # c => op[d].kind = "idle"
  BY AloneResolves DEF WatchlistInvariant, WatchlistTyped, Undisturbed
<1>2. /\ Answered(TRUE).kind = "idle" /\ Answered(TRUE).ok = TRUE /\ Answered(FALSE).ok = FALSE
  BY DEF Answered
<1>3. ModeOf(memory) \in Files
  BY DEF ModeOf, Files, ModeNames
<1>4. CASE Look(c)
  <2>1. ASSUME NEW failed,
               op' = [op EXCEPT ![c].step = "write", ![c].blind = failed /\ op[c].alone]
        PROVE  FALSE
    <3>1. op[c] \in [kind : {"add", "remove"}, symbol : Symbols, step : Steps,
                     paper : BOOLEAN, alone : BOOLEAN, blind : BOOLEAN]
      BY <1>1, UnderWay DEF WatchlistInvariant
    <3>2. op'[c].kind = op[c].kind
      BY <1>1, <2>1, <3>1
    <3> QED BY <1>1, <1>2, <3>2
  <2>2. op' # [op EXCEPT ![c] = Answered(FALSE)]
    BY <1>1, <1>2
  <2> QED BY <1>1, <1>4, <2>1, <2>2 DEF Look, LookAt, Persisted, Answer
<1>5. CASE Insert(c)
  <2>1. op' # [op EXCEPT ![c] = Answered(FALSE)]
    BY <1>1, <1>2
  <2>2. tables' = [tables EXCEPT ![ModeOf(memory)] = @ \cup {op[c].symbol}]
    BY <1>1, <1>5, <2>1 DEF Insert, Answer
  <2> QED BY <1>1, <1>3, <2>2
<1>6. CASE Invalid(c)
  BY <1>1, <1>2, <1>6 DEF Invalid, Answer
<1>7. CASE BeginWrite(c)
  <2>1. op[c] \in [kind : {"add", "remove"}, symbol : Symbols, step : Steps,
                   paper : BOOLEAN, alone : BOOLEAN, blind : BOOLEAN]
    BY <1>1, UnderWay DEF WatchlistInvariant
  <2> QED BY <1>1, <1>2, <1>7, <2>1 DEF BeginWrite
<1>14. CASE Retry(c)
  <2>1. op[c] \in [kind : {"add", "remove"}, symbol : Symbols, step : Steps,
                   paper : BOOLEAN, alone : BOOLEAN, blind : BOOLEAN]
    BY <1>1, UnderWay DEF WatchlistInvariant
  <2>2. op'[c].kind = op[c].kind
    BY <1>1, <1>14, <2>1 DEF Retry, ResolveAgain
  <2> QED BY <1>1, <1>2, <2>2
<1>8. CASE \E d \in Clients, kind \in {"add", "remove"}, s \in Symbols : Serve(d, kind, s)
  <2> PICK d \in Clients, kind \in {"add", "remove"}, s \in Symbols : Serve(d, kind, s)
    BY <1>8
  <2>1. d # c /\ op' = [NothingAlone EXCEPT ![d] = op'[d]]
    BY <1>1, NothingAloneTyped DEF Serve
  <2>2. op'[c].kind = op[c].kind
    BY <2>1, NothingAloneTyped
  <2> QED BY <1>1, <1>2, <2>2
<1>9. CASE \E d \in Clients : d # c /\ (Look(d) \/ Retry(d) \/ Invalid(d) \/ BeginWrite(d)
                                        \/ Insert(d) \/ Delete(d))
  BY <1>1, <1>9 DEF Look, Retry, Invalid, BeginWrite, Insert, Delete
<1>10. CASE Delete(c)
  BY <1>10 DEF Delete
<1>11. CASE Visit \/ UNCHANGED wvars
  BY <1>1, <1>2, <1>11 DEF Visit, wvars, wlvars
<1>12. CASE SwitchAmongRequests
  BY <1>1, <1>2, <1>12, NothingAloneTyped DEF SwitchAmongRequests
<1>13. CASE Stop
  BY <1>2, <1>13 DEF Stop
<1> QED BY <1>4, <1>5, <1>6, <1>7, <1>8, <1>9, <1>10, <1>11, <1>12, <1>13, <1>14
       DEF WatchlistNext

\* An add that ran alone and reported success has left its row in the file of the
\* mode: the config fallback of an emptied table never passes for one.
THEOREM YesAlwaysListed == WatchlistSpec => YesMeansListed
<1> DEFINE Listed == \A c \in Clients :
                       op[c].kind = "add" /\ op[c].alone /\ op'[c] = Answered(TRUE)
                       => op[c].symbol \in tables'[ModeOf(memory)]
<1>1. WatchlistInvariant /\ [WatchlistNext]_wvars => Listed
  BY YesOnlyOnARow
<1>2. WatchlistInvariant /\ [WatchlistNext]_wvars => [Listed]_wvars
  BY <1>1
<1> HIDE DEF Listed
<1>3. WatchlistSpec => [][Listed]_wvars
  BY <1>2, WatchlistInvariantHolds, PTL DEF WatchlistSpec
<1> QED BY <1>3 DEF YesMeansListed, Listed

=============================================================================
