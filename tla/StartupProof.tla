---------------------------- MODULE StartupProof ----------------------------
(***************************************************************************)
(* For any number of launches and of tables, and whatever the library      *)
(* answers to the PRAGMA: a server that serves has all its tables.         *)
(***************************************************************************)
EXTENDS Startup, TLAPS

\* While the loop over the tables runs, those it has passed exist: the ones it found,
\* which no step of this process drops, and the ones it created.
PassedExist == stage = "tables" => 1..(next - 1) \subseteq tables

\* Before the loop the index is at the first table.
LoopStarts == stage \in {"main", "open", "pragma"} => next = 1

IInv == TypeOK /\ PassedExist /\ LoopStarts /\ ServesAllTables

LEMMA InitOK == Init => IInv
<1> SUFFICES ASSUME Init PROVE IInv
  OBVIOUS
<1>1. starts \in 0..MaxStarts /\ next \in 1..(NumTables + 1)
  BY StartsAssumption DEF Init
<1>2. TypeOK
  BY <1>1 DEF Init, TypeOK, Stages
<1> QED
  BY <1>2 DEF Init, IInv, PassedExist, LoopStarts, ServesAllTables

\* A launch, of which there are at most MaxStarts.
LEMMA LaunchOK == IInv /\ Launch => IInv'
<1> SUFFICES ASSUME IInv, Launch PROVE IInv'
  OBVIOUS
<1>1. starts' \in 0..MaxStarts /\ 1 \in 1..(NumTables + 1)
  BY StartsAssumption DEF IInv, TypeOK, Launch
<1>2. TypeOK'
  BY <1>1 DEF IInv, TypeOK, Launch, Stages
<1> QED
  BY <1>2 DEF Launch, IInv, PassedExist, LoopStarts, ServesAllTables

\* Every way in which the process ends: nothing is claimed of a process that is gone.
LEMMA EndsOK ==
    ASSUME IInv, NEW reason \in {"stopped", "failed", "refused", "crashed"}, Ends(reason),
           db' \in {"null", "open", "closed"}, tables' \subseteq tables,
           UNCHANGED <<running, starts, next>>
    PROVE  IInv'
BY DEF Ends, IInv, TypeOK, Stages, PassedExist, LoopStarts, ServesAllTables

LEMMA CrashOK == IInv /\ (Crash \/ \E kept \in 0..NumTables : PowerLoss(kept)) => IInv'
<1> SUFFICES ASSUME IInv, Crash \/ \E kept \in 0..NumTables : PowerLoss(kept) PROVE IInv'
  OBVIOUS
<1>1. /\ Ends("crashed") /\ UNCHANGED <<running, starts, next>>
      /\ db' \in {"null", "open", "closed"} /\ tables' \subseteq tables
  BY DEF Crash, PowerLoss, mem, IInv, TypeOK
<1> QED BY <1>1, EndsOK

LEMMA FailsOK == IInv /\ (Fails \/ global_cleanup) => IInv'
<1> SUFFICES ASSUME IInv, Fails \/ global_cleanup PROVE IInv'
  OBVIOUS
<1>1. /\ Ends("failed") \/ Ends("stopped")
      /\ UNCHANGED <<running, starts, next>>
      /\ db' \in {"null", "open", "closed"} /\ tables' \subseteq tables
  BY DEF Fails, global_cleanup, IInv, TypeOK
<1> QED BY <1>1, EndsOK

LEMMA SetKeyOK == ASSUME IInv, NEW a \in KeyAnswers, SetKey(a) PROVE IInv'
<1>1. CASE a = "ignored"
  <2>1. 1..(next - 1) \subseteq tables
    BY DEF SetKey, IInv, LoopStarts
  <2> QED
    BY <1>1, <2>1 DEF SetKey, IInv, TypeOK, Stages, PassedExist, LoopStarts, ServesAllTables
<1>2. CASE a # "ignored"
  BY <1>2, EndsOK DEF SetKey
<1> QED BY <1>1, <1>2

\* CREATE TABLE IF NOT EXISTS: the table is there afterwards, and no other is gone.
LEMMA CreateTableOK == IInv /\ CreateTable => IInv'
<1> SUFFICES ASSUME IInv, CreateTable PROVE IInv'
  OBVIOUS
<1>1. PICK n \in 1..NumTables : next = n /\ next' = n + 1
  BY StartsAssumption DEF IInv, TypeOK, CreateTable
<1>2. tables' = tables \cup {n} /\ n \in Indices
  BY <1>1 DEF CreateTable, Indices
<1>3. next' \in 1..(NumTables + 1)
  BY <1>1, StartsAssumption
<1>4. TypeOK'
  BY <1>2, <1>3 DEF IInv, TypeOK, CreateTable
<1>5. 1..n \subseteq tables'
  <2>1. 1..(n - 1) \subseteq tables
    BY <1>1 DEF IInv, PassedExist, CreateTable
  <2>2. \A i \in 1..n : i = n \/ i \in 1..(n - 1)
    OBVIOUS
  <2> QED BY <1>2, <2>1, <2>2
<1>6. PassedExist'
  BY <1>1, <1>5 DEF PassedExist
<1> QED
  BY <1>4, <1>6 DEF CreateTable, IInv, LoopStarts, ServesAllTables

\* The loop has passed every table.
LEMMA TablesDoneOK == IInv /\ TablesDone => IInv'
<1> SUFFICES ASSUME IInv, TablesDone PROVE IInv'
  OBVIOUS
<1>1. 1..NumTables \subseteq tables
  BY StartsAssumption DEF IInv, PassedExist, TablesDone
<1>2. tables = Indices
  BY <1>1 DEF IInv, TypeOK, Indices
<1> QED
  BY <1>2 DEF TablesDone, mem, IInv, TypeOK, Stages, PassedExist, LoopStarts, ServesAllTables

LEMMA RestOK == IInv /\ (signal_handler \/ Boot \/ OpenFile \/ InitSignal \/ Listen
                         \/ LoopEnds \/ UNCHANGED vars) => IInv'
BY DEF IInv, TypeOK, Stages, PassedExist, LoopStarts, ServesAllTables, signal_handler, Boot,
   OpenFile, InitSignal, Listen, LoopEnds, mem, vars

LEMMA Inductive == Spec => []IInv
<1>1. IInv /\ [Next]_vars => IInv'
  BY LaunchOK, CrashOK, FailsOK, SetKeyOK, CreateTableOK, TablesDoneOK, RestOK
  DEF Next, Program
<1> QED BY InitOK, <1>1, PTL DEF Spec

\* From the moment init_secure_database has succeeded until the process ends, every
\* table exists, however earlier starts ended.
THEOREM ServesAllTablesHolds == Spec => []ServesAllTables
<1>1. IInv => ServesAllTables
  BY DEF IInv
<1> QED BY Inductive, <1>1, PTL
=============================================================================
