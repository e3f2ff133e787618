------------------------------ MODULE AuditLog ------------------------------
(***************************************************************************)
(* The audit log of src/server.c: the ring server.audit_logs, filled by    *)
(* log_security_event under audit_mutex, and the table audit_logs, filled  *)
(* from the ring by save_audit_log_to_db after the mutex is released, and  *)
(* pruned by rotate_audit_logs.                                            *)
(*                                                                         *)
(* The fields of an entry are abstracted to two: the head (event_type,     *)
(* user_nick) is written and read before the tail (details, timestamp).    *)
(* An event is its number, in the order in which entries were taken.       *)
(***************************************************************************)
EXTENDS Integers

CONSTANTS
    Threads,        \* the handler threads that log events
    RingSize,       \* 1000, the length of server.audit_logs
    MaxEvents,      \* bound: how many events are logged
    Free            \* the holder of a free mutex

ASSUME AuditAssumption ==
    /\ RingSize \in Nat /\ RingSize >= 1
    /\ MaxEvents \in Nat
    /\ Free \notin Threads

VARIABLES
    audit_log_count, \* where in the ring the next entry is taken
    ring,           \* server.audit_logs: the events head and tail of an entry are of
    holder,         \* who has audit_mutex
    logged,         \* the number of the last event
    pc,             \* where a thread is in log_security_event
    event,          \* the event a thread is logging
    entry,          \* its local log, as an index into the ring
    head,           \* what sqlite3_step has copied of the head
    rows            \* table audit_logs, with the event each row was meant for

vars == <<audit_log_count, ring, holder, logged, pc, event, entry, head, rows>>

Indices == 0..(RingSize - 1)
Events == 0..MaxEvents              \* 0: none

\* How many entries were taken since t took its own.
Since(t) == logged - event[t]

Init ==
    /\ audit_log_count = 0
    /\ ring = [i \in Indices |-> [head |-> 0, tail |-> 0]]
    /\ holder = Free
    /\ logged = 0
    /\ pc = [t \in Threads |-> "idle"]
    /\ event = [t \in Threads |-> 0]
    /\ entry = [t \in Threads |-> 0]
    /\ head = [t \in Threads |-> 0]
    /\ rows = {}

\* Mutant: the ring is wound back one entry too late.
NextIndexLate == IF audit_log_count > RingSize THEN 0 ELSE audit_log_count

\* Mutant: the counter is not used.
NextIndexStuck == 0

\* The entry to take: the ring starts again at 0 when it is full.
NextIndex == IF audit_log_count >= RingSize THEN 0 ELSE audit_log_count

\* The mutex is taken, and the first fields of the next entry are written.
TakeEntry(t) ==
    LET i == NextIndex
    IN  /\ pc[t] = "idle" /\ holder = Free
        /\ logged < MaxEvents
        /\ holder' = t
        /\ logged' = logged + 1
        /\ audit_log_count' = i + 1
        /\ ring' = [ring EXCEPT ![i].head = logged + 1]
        /\ pc' = [pc EXCEPT ![t] = "fill"]
        /\ event' = [event EXCEPT ![t] = logged + 1]
        /\ entry' = [entry EXCEPT ![t] = i]
        /\ UNCHANGED <<head, rows>>

\* The other fields are written, and the mutex is released.
FillEntry(t) ==
    /\ pc[t] = "fill"
    /\ ring' = [ring EXCEPT ![entry[t]].tail = event[t]]
    /\ holder' = Free
    /\ pc' = [pc EXCEPT ![t] = "save"]
    /\ UNCHANGED <<audit_log_count, logged, event, entry, head, rows>>

\* Mutant: the newest entry is saved instead of the thread's own.
SaveNewest(t) ==
    /\ pc[t] = "save"
    /\ head' = [head EXCEPT ![t] = ring[audit_log_count - 1].head]
    /\ pc' = [pc EXCEPT ![t] = "insert"]
    /\ UNCHANGED <<audit_log_count, ring, holder, logged, event, entry, rows>>

\* save_audit_log_to_db works on the entry in the ring, without the mutex.
SaveHead(t) ==
    /\ pc[t] = "save"
    /\ head' = [head EXCEPT ![t] = ring[entry[t]].head]
    /\ pc' = [pc EXCEPT ![t] = "insert"]
    /\ UNCHANGED <<audit_log_count, ring, holder, logged, event, entry, rows>>

\* log_security_event returns.
Finish(t) == /\ pc' = [pc EXCEPT ![t] = "idle"]
             /\ event' = [event EXCEPT ![t] = 0]
             /\ entry' = [entry EXCEPT ![t] = 0]
             /\ head' = [head EXCEPT ![t] = 0]

\* The row is inserted: late when the ring went round since its entry was taken.
InsertRow(t) ==
    /\ pc[t] = "insert"
    /\ rows' = rows \cup {[event |-> event[t], head |-> head[t],
                           tail |-> ring[entry[t]].tail, late |-> Since(t) >= RingSize]}
    /\ Finish(t)
    /\ UNCHANGED <<audit_log_count, ring, holder, logged>>

\* The statement cannot be prepared or does not succeed: nobody is told.
InsertFails(t) ==
    /\ pc[t] \in {"save", "insert"}
    /\ Finish(t)
    /\ UNCHANGED <<audit_log_count, ring, holder, logged, rows>>

\* rotate_audit_logs, when the events before cut are older than a week.
Rotate(cut) ==
    /\ rows' = {r \in rows : r.tail >= cut}
    /\ UNCHANGED <<audit_log_count, ring, holder, logged, pc, event, entry, head>>

Next ==
    \/ \E t \in Threads : \/ TakeEntry(t) \/ FillEntry(t) \/ SaveHead(t)
                          \/ InsertRow(t) \/ InsertFails(t)
    \/ \E cut \in 1..logged : Rotate(cut)

Spec == Init /\ [][Next]_vars

-----------------------------------------------------------------------------
\* Every variable keeps its type; audit_log_count stays within the ring.
TypeOK ==
    /\ audit_log_count \in 0..RingSize
    /\ ring \in [Indices -> [head : Events, tail : Events]]
    /\ holder \in Threads \cup {Free}
    /\ logged \in Events
    /\ pc \in [Threads -> {"idle", "fill", "save", "insert"}]
    /\ event \in [Threads -> Events]
    /\ entry \in [Threads -> Indices]
    /\ head \in [Threads -> Events]
    /\ rows \subseteq [event : Events, head : Events, tail : Events, late : BOOLEAN]

\* Although log_security_event saves its entry without the mutex, the entry is still
\* its own, head and tail, until RingSize other events have been logged.
EntryIntact ==
    \A t \in Threads :
       pc[t] \in {"save", "insert"} /\ Since(t) < RingSize =>
          ring[entry[t]] = [head |-> event[t], tail |-> event[t]]

\* A row of audit_logs is the event it was written for, and not a mixture of two,
\* unless the ring went round while it was being saved.
PromptRowsAreTrue ==
    \A r \in rows : ~r.late => r.head = r.event /\ r.tail = r.event

\* "Сохранение в базу данных" (saving to the database), after the unlock in
\* log_security_event: what is saved is the event that was logged.  The code does not
\* keep this once the ring has gone round.
RowsAreTrue ==
    \A r \in rows : r.head = r.event /\ r.tail = r.event
=============================================================================
