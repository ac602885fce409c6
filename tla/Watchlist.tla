------------------------------ MODULE Watchlist ------------------------------
(***************************************************************************)
(* The watchlist table of each of the three SQLite files, its add and      *)
(* remove requests, and the lazy initialisation of the files               *)
(* (agents/shared/watchlist.py, agents/shared/db.py, the watchlist routes  *)
(* of api/routes/control.py), under the mode switches of Modes: every      *)
(* access resolves its file again, from two flags read one after the       *)
(* other, an add spends seconds in yfinance between its two accesses, and  *)
(* a read that fails looks like an empty table.                            *)
(***************************************************************************)
EXTENDS Modes, FiniteSets

CONSTANTS
  Clients,     \* the threads that serve the watchlist routes
  Symbols,
  Defaults,    \* config.WATCHLIST
  MaxSymbols,  \* MAX_WATCHLIST_SYMBOLS
  MaxRequests  \* bound on the watchlist requests of one behaviour

ASSUME WatchlistAssumption ==
  /\ IsFiniteSet(Symbols)
  /\ Defaults \subseteq Symbols
  /\ MaxSymbols \in Nat /\ Cardinality(Defaults) <= MaxSymbols
  /\ MaxRequests \in Nat

VARIABLES
  tables,      \* file -> the symbols of its watchlist table
  opened,      \* _db_initialized_paths
  op,          \* client -> the request it serves, or its last answer
  requests,
  \* History, read by the properties only.
  unchecked    \* rows inserted by an add that was not alone, or had not seen the table

wlvars == <<tables, opened, op, requests, unchecked>>
wvars == <<mvars, wlvars>>

\* One file for each mode.
Files == ModeNames

Answered(ok) == [kind |-> "idle", ok |-> ok]
Active == {c \in Clients : op[c].kind # "idle"}

\* Of a request the history notes whether it is alone and, of an add that is,
\* whether its look failed.  What starts now leaves nothing alone, and makes the
\* answers given before it past.
NothingAlone ==
  [c \in Clients |->
     IF c \in Active THEN [op[c] EXCEPT !.alone = FALSE, !.blind = FALSE]
     ELSE Answered(FALSE)]

Answer(c, ok) == op' = [op EXCEPT ![c] = Answered(ok)]
ResolveAgain(c) == op' = [op EXCEPT ![c].paper = memory["paper"]]

-----------------------------------------------------------------------------
(* db.py. *)

\* _ensure_db: the first access to a path in a process initialises all three
\* files, and seeds each of them whose table is empty: also one that was emptied
\* by removals.
EnsureDb ==
  LET path == ModeOf(memory)
  IN IF path \in opened THEN UNCHANGED <<tables, opened>>
     ELSE /\ tables' = [f \in Files |-> IF tables[f] = {} THEN Defaults ELSE tables[f]]
          /\ opened' = opened \cup {path}

\* _get_db_path looks at the paper flag (noted in `op`), then at the sim flag.
ResolvedFile(c) ==
  IF op[c].paper THEN "paper" ELSE IF memory["sim"] THEN "sim" ELSE "live"

-----------------------------------------------------------------------------
(* The routes. *)

\* A request up to the first half of the _get_db_path of its first access, before
\* which it reads nothing.
Serve(c, kind, s) ==
  /\ server = "running"
  /\ op[c].kind = "idle"
  /\ requests < MaxRequests
  /\ requests' = requests + 1
  /\ EnsureDb
  /\ op' = [NothingAlone EXCEPT
             ![c] = [kind |-> kind, symbol |-> s,
                     step |-> IF kind = "add" THEN "looking" ELSE "writing",
                     paper |-> memory["paper"], alone |-> Active = {} /\ Busy = {},
                     blind |-> FALSE]]
  /\ UNCHANGED <<mvars, unchecked>>

\* _persisted_symbols: the rows of the table, without the config fallback of
\* get_watchlist.
PersistedOrDefault(f) == IF tables[f] = {} THEN Defaults ELSE tables[f]
Persisted(f) == tables[f]

RoomForOneMore(rows) == Cardinality(rows) <= MaxSymbols
HasRoom(rows) == Cardinality(rows) < MaxSymbols

\* The file is locked: _db_read and _db_write sleep, then resolve it again.  It
\* matters only if the flag has changed.  (They do so twice at most; here, any
\* number of times.)
Retry(c) ==
  /\ op[c].kind # "idle" /\ op[c].step \in {"looking", "writing"}
  /\ op[c].paper # memory["paper"]
  /\ ResolveAgain(c)
  /\ UNCHANGED <<mvars, tables, opened, requests, unchecked>>

\* add_to_watchlist, up to the call of yfinance, on the rows that its read returns.
LookAt(c, current, failed) ==
  \/ op[c].symbol \in current /\ Answer(c, TRUE)
  \/ op[c].symbol \notin current /\ ~HasRoom(current) /\ Answer(c, FALSE)
  \/ /\ op[c].symbol \notin current /\ HasRoom(current)
     /\ op' = [op EXCEPT ![c].step = "write", ![c].blind = failed /\ op[c].alone]

\* _db_read returns no rows when the SELECT fails: the add goes on, as if the
\* table were empty.
Look(c) ==
  /\ op[c].kind = "add" /\ op[c].step = "looking"
  /\ \/ LookAt(c, Persisted(ResolvedFile(c)), FALSE)
     \/ LookAt(c, {}, TRUE)
  /\ UNCHANGED <<mvars, tables, opened, requests, unchecked>>

\* yfinance does not know the symbol, or fails; else the add goes on to write.
Invalid(c) ==
  /\ op[c].kind = "add" /\ op[c].step = "write"
  /\ Answer(c, FALSE)
  /\ UNCHANGED <<mvars, tables, opened, requests, unchecked>>

\* The same for the second access of an add.
BeginWrite(c) ==
  /\ op[c].kind = "add" /\ op[c].step = "write"
  /\ EnsureDb
  /\ op' = [op EXCEPT ![c].step = "writing", ![c].paper = memory["paper"]]
  /\ UNCHANGED <<mvars, requests, unchecked>>

\* The INSERT.  A row that is there already violates the primary key: _db_write
\* reports FALSE; so does a file that stays locked.
Insert(c) ==
  /\ op[c].kind = "add" /\ op[c].step = "writing"
  /\ LET f == ResolvedFile(c)
     IN \/ /\ op[c].symbol \notin tables[f]
           /\ tables' = [tables EXCEPT ![f] = @ \cup {op[c].symbol}]
           /\ unchecked' = IF op[c].alone /\ ~op[c].blind THEN unchecked ELSE unchecked + 1
           /\ Answer(c, TRUE)
        \/ Answer(c, FALSE) /\ UNCHANGED <<tables, unchecked>>
  /\ UNCHANGED <<mvars, opened, requests>>

\* remove_from_watchlist.  The route passes no open_symbols, so nothing protects
\* a symbol that is held.
Delete(c) ==
  /\ op[c].kind = "remove" /\ op[c].step = "writing"
  /\ \/ tables' = [tables EXCEPT ![ResolvedFile(c)] = @ \ {op[c].symbol}] /\ Answer(c, TRUE)
     \/ Answer(c, FALSE) /\ UNCHANGED tables
  /\ UNCHANGED <<mvars, opened, requests, unchecked>>

\* Any other database access: the cycle reads the list, or its memory.
Visit ==
  /\ server = "running"
  /\ ModeOf(memory) \notin opened
  /\ EnsureDb
  /\ UNCHANGED <<mvars, op, requests, unchecked>>

-----------------------------------------------------------------------------
(* Mode switches and process stops, seen from here. *)

Switch ==
  \/ \E r \in Requests, mode \in ModeNames : Request(r, mode)
  \/ \E t \in Threads : Assign(t)
  \/ StartController

SwitchAmongRequests ==
  /\ Switch
  /\ op' = NothingAlone
  /\ UNCHANGED <<tables, opened, requests, unchecked>>

Stop ==
  /\ Crash
  /\ opened' = {}
  /\ op' = [c \in Clients |-> Answered(FALSE)]
  /\ UNCHANGED <<tables, requests, unchecked>>

\* At the first start the files do not exist.
WatchlistInit ==
  /\ Init
  /\ tables = [f \in Files |-> {}]
  /\ opened = {}
  /\ op = [c \in Clients |-> Answered(FALSE)]
  /\ requests = 0 /\ unchecked = 0

WatchlistNext ==
  \/ \E c \in Clients :
       \/ \E kind \in {"add", "remove"}, s \in Symbols : Serve(c, kind, s)
       \/ Look(c) \/ Retry(c) \/ Invalid(c) \/ BeginWrite(c) \/ Insert(c) \/ Delete(c)
  \/ Visit
  \/ SwitchAmongRequests
  \/ Stop

WatchlistSpec == WatchlistInit /\ [][WatchlistNext]_wvars

-----------------------------------------------------------------------------
(* Properties. *)

\* What holds of "Max 20 symbols": a table exceeds the maximum only by the rows of
\* two kinds of add, one row each: those that overlapped another request or a mode
\* switch between their look and their INSERT, and those whose look failed, which
\* pass for one on an empty table even when they run alone.  No file, no seeding
\* and no other order of requests adds a row beyond it.
WatchlistLimit ==
  \A f \in Files : Cardinality(tables[f]) <= MaxSymbols + unchecked

\* An add that ran alone and answered yes has left its symbol in the table of
\* the mode the process is in.  A symbol of the config fallback is no row: an
\* emptied table must not make an add report success without inserting.
YesMeansListed ==
  [][\A c \in Clients :
       op[c].kind = "add" /\ op[c].alone /\ op'[c] = Answered(TRUE)
       => op[c].symbol \in tables'[ModeOf(memory)]]_wvars
=============================================================================
