------------------------------ MODULE Startup ------------------------------
(***************************************************************************)
(* Start, stop, crash and restart of the server (server.c, main and        *)
(* start_ultra_secure_server) over one database file, which outlives the   *)
(* process.  The build links SQLite: the file is never encrypted, and a    *)
(* start finds the tables and rows of the earlier ones.                    *)
(***************************************************************************)
EXTENDS Naturals

CONSTANTS
  MaxStarts,      \* bound: how many times the program is launched
  NumTables,      \* the length of the array tables of init_secure_database
  KeyAnswers      \* what the library may answer to the PRAGMA that sets the key:
                  \* "refused" (a syntax error) or "ignored" (success, no effect)

ASSUME StartsAssumption ==
  /\ MaxStarts \in Nat \ {0}
  /\ NumTables \in Nat \ {0}
  /\ KeyAnswers \subseteq {"refused", "ignored"}

VARIABLES
  stage,    \* how far start_ultra_secure_server has come, "down" without a process
  running,  \* server.running
  starts,   \* launches so far
  db,       \* server.db: "null", "open", or "closed" and still not NULL
  next,     \* the index i of the loop over tables
  tables,   \* the tables that exist in the file
  why       \* how the last process ended

vars == <<stage, running, starts, db, next, tables, why>>
mem == <<running, starts, db, next>>

Indices == 1..NumTables
Stages == {"down", "main", "open", "pragma", "tables", "signal", "listen", "serve", "close"}

\* Types of the state.
TypeOK ==
  /\ stage \in Stages
  /\ running \in BOOLEAN
  /\ starts \in 0..MaxStarts
  /\ db \in {"null", "open", "closed"}
  /\ next \in 1..(NumTables + 1)
  /\ tables \subseteq Indices
  /\ why \in {"none", "stopped", "failed", "refused", "crashed"}

Init ==
  /\ stage = "down" /\ running = FALSE /\ starts = 0 /\ db = "null"
  /\ next = 1 /\ tables = {} /\ why = "none"

-----------------------------------------------------------------------------
(* The process: launch, signal, crash *)

\* A new process: static memory is zero, the signal handlers are installed.
Launch ==
  /\ stage = "down" /\ starts < MaxStarts
  /\ stage' = "main" /\ starts' = starts + 1
  /\ running' = FALSE /\ db' = "null" /\ next' = 1
  /\ UNCHANGED <<tables, why>>

\* SIGINT, SIGTERM, SIGQUIT.
signal_handler ==
  /\ stage # "down"
  /\ running' = FALSE
  /\ UNCHANGED <<stage, starts, db, next, tables, why>>

Ends(reason) == stage' = "down" /\ why' = reason

\* The process dies; what it committed stays in the file.
Crash ==
  /\ stage # "down"
  /\ Ends("crashed")
  /\ UNCHANGED <<mem, tables>>

\* The machine dies: with journal_mode = WAL and synchronous = NORMAL the last
\* commits may be lost, of this start or an earlier one.
PowerLoss(kept) ==
  /\ stage # "down"
  /\ tables' = {t \in tables : t <= kept}
  /\ Ends("crashed")
  /\ UNCHANGED mem

-----------------------------------------------------------------------------
(* start_ultra_secure_server, one action per call that may fail *)

\* A call fails (random bytes, the file, a statement for a reason of the disk, the
\* Signal context, a socket call): start_ultra_secure_server returns 1;
\* setup_ssl_context and the anti-debug checks exit.
Fails ==
  /\ stage \in {"main", "open", "pragma", "tables", "signal", "listen"}
  /\ Ends("failed")
  /\ db' = IF stage \in {"pragma", "tables"} THEN "closed" ELSE db
  /\ UNCHANGED <<running, starts, next, tables>>

Boot ==
  /\ stage = "main"
  /\ stage' = "open" /\ running' = TRUE
  /\ UNCHANGED <<starts, db, next, tables, why>>

\* The random keys are drawn and the file is opened.
OpenFile ==
  /\ stage = "open"
  /\ stage' = "pragma" /\ db' = "open"
  /\ UNCHANGED <<running, starts, next, tables, why>>

\* PRAGMA key.  When it is accepted the settings follow, whose failure is only
\* printed; when it is not, the start ends.
SetKey(answer) ==
  /\ stage = "pragma"
  /\ IF answer = "ignored"
     THEN stage' = "tables" /\ UNCHANGED <<db, why>>
     ELSE Ends("refused") /\ db' = "closed"
  /\ UNCHANGED <<running, starts, next, tables>>

\* Mutant: a CREATE TABLE that fails is only printed, like a failed setting.
CreateTableUnchecked ==
  /\ stage = "tables" /\ next <= NumTables
  /\ tables' \in {tables, tables \cup {next}}
  /\ next' = next + 1
  /\ UNCHANGED <<stage, running, starts, db, why>>

\* Mutant: IF NOT EXISTS is missing.
CreateTableBare ==
  /\ stage = "tables" /\ next <= NumTables
  /\ IF next \in tables
     THEN Ends("refused") /\ db' = "closed" /\ UNCHANGED <<next, tables>>
     ELSE tables' = tables \cup {next} /\ next' = next + 1 /\ UNCHANGED <<stage, db, why>>
  /\ UNCHANGED <<running, starts>>

\* CREATE TABLE IF NOT EXISTS, one statement and one commit per table (Fails is the
\* statement that does not succeed).
CreateTable ==
  /\ stage = "tables" /\ next <= NumTables
  /\ tables' = tables \cup {next}
  /\ next' = next + 1
  /\ UNCHANGED <<stage, running, starts, db, why>>

TablesDone ==
  /\ stage = "tables" /\ next = NumTables + 1
  /\ stage' = "signal"
  /\ UNCHANGED <<mem, tables, why>>

\* init_enhanced_signal_protocol, then TLS.
InitSignal ==
  /\ stage = "signal"
  /\ stage' = "listen"
  /\ UNCHANGED <<mem, tables, why>>

\* Mutant: running = 1 set where the loop begins.
ListenAndRun ==
  /\ stage = "listen"
  /\ stage' = "serve" /\ running' = TRUE
  /\ UNCHANGED <<starts, db, next, tables, why>>

\* The socket, the peer table, epoll, the monitor.
Listen ==
  /\ stage = "listen"
  /\ stage' = "serve"
  /\ UNCHANGED <<mem, tables, why>>

\* The loop sees the flag; the sockets are closed.
LoopEnds ==
  /\ stage = "serve" /\ ~running
  /\ stage' = "close"
  /\ UNCHANGED <<mem, tables, why>>

\* global_cleanup closes the database and wipes the keys; main returns.
global_cleanup ==
  /\ stage = "close"
  /\ Ends("stopped") /\ db' = "closed"
  /\ UNCHANGED <<running, starts, next, tables>>

Program ==
  \/ Fails \/ Boot \/ OpenFile \/ (\E a \in KeyAnswers : SetKey(a)) \/ CreateTable
  \/ TablesDone \/ InitSignal \/ Listen \/ LoopEnds \/ global_cleanup

Next ==
  \/ Launch \/ signal_handler \/ Program
  \/ Crash \/ \E kept \in 0..NumTables : PowerLoss(kept)

Spec == Init /\ [][Next]_vars

\* The main thread is scheduled; nobody need launch or signal.
FairSpec == Spec /\ WF_vars(Program)

-----------------------------------------------------------------------------
(* Properties *)

\* A server that gets past init_secure_database has every table its statements name,
\* although an earlier start may have failed, died or lost its last commits between
\* any two of the CREATE TABLE statements.
ServesAllTables == stage \in {"signal", "listen", "serve", "close"} => tables = Indices

\* How an earlier start ended never stands in the way of a later one: a start that has
\* come to the tables, on whatever part of them it finds, gets to serve, unless a call
\* fails or the process dies.
RestartServes ==
  (stage = "tables") ~> (stage = "serve" \/ (stage = "down" /\ why \in {"failed", "crashed"}))

\* A signal that arrives once the flag is set stops the program, also when it
\* arrives in the middle of the initialisation.
SignalStops == (~running /\ stage \notin {"down", "main"}) ~> (stage = "down")

-----------------------------------------------------------------------------
(* A statement of the repository that the code does not keep. *)

\* "Шифрование БД" (encryption of the database), the comment of init_secure_database
\* on the statement that sets the key: a database that could be opened is given its
\* key, and the start goes on.
KeyIsSet == why # "refused"
=============================================================================
