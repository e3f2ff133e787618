------------------------------ MODULE RateLimit ------------------------------
(***************************************************************************)
(* The limit on the commands of one client in secure_client_handler of     *)
(* src/server.c: a window that starts with the connection, and anew with   *)
(* the first line that comes more than RATE_LIMIT_WINDOW seconds after its *)
(* start.  Only the client's own handler uses the counters.                *)
(***************************************************************************)
EXTENDS Integers, Sequences

CONSTANTS
    MaxRate,        \* MAX_RATE_LIMIT
    Window,         \* RATE_LIMIT_WINDOW, in ticks of time()
    MaxTime         \* bound: the last tick

ASSUME RateAssumption ==
    /\ MaxRate \in Nat /\ MaxRate >= 1
    /\ Window \in Nat /\ Window >= 1
    /\ MaxTime \in Nat

VARIABLES
    now,            \* time(NULL), counted from the connection
    window_start,   \* client->rate_limit.window_start
    count,          \* client->rate_limit.count
    last_activity,  \* client->last_activity
    stamps          \* history: the ticks at which lines were processed, in their order

rateVars == <<now, window_start, count, last_activity, stamps>>

Ticks == 0..MaxTime

RateInit ==
    /\ now = 0
    /\ window_start = 0
    /\ count = 0
    /\ last_activity = 0
    /\ stamps = <<>>

\* Mutant: >= instead of >.
ExpiredEarly == now - window_start >= Window

Expired == now - window_start > Window

Full(n) == n >= MaxRate

\* A line is processed: the window may start anew with it.
Pass ==
    LET n == IF Expired THEN 0 ELSE count
    IN  /\ ~Full(n)
        /\ window_start' = IF Expired THEN now ELSE window_start
        /\ count' = n + 1
        /\ last_activity' = now
        /\ stamps' = Append(stamps, now)
        /\ UNCHANGED now

\* Mutant: a refused line starts the window anew.
RefuseExtends ==
    /\ ~Expired /\ Full(count)
    /\ window_start' = now
    /\ last_activity' = now
    /\ UNCHANGED <<now, count, stamps>>

\* "Rate limit exceeded": the line counts as activity, and nowhere else.
Refuse ==
    /\ ~Expired /\ Full(count)
    /\ last_activity' = now
    /\ UNCHANGED <<now, window_start, count, stamps>>

Tick ==
    /\ now < MaxTime
    /\ now' = now + 1
    /\ UNCHANGED <<window_start, count, last_activity, stamps>>

RateNext == Pass \/ Refuse \/ Tick

RateSpec == RateInit /\ [][RateNext]_rateVars

-----------------------------------------------------------------------------
\* Every variable keeps its type; the counter never passes MAX_RATE_LIMIT.
RateTypeOK ==
    /\ now \in Ticks
    /\ window_start \in 0..now
    /\ count \in 0..MaxRate
    /\ last_activity \in window_start..now
    /\ stamps \in Seq(Ticks)

\* The counter bounds every stretch of time, not only the windows: of 2 * MAX_RATE_LIMIT
\* + 1 successive lines the last is processed more than RATE_LIMIT_WINDOW + 1 seconds
\* after the first, wherever they lie with respect to the windows.
SlidingBound ==
    \A k \in DOMAIN stamps : k + 2 * MaxRate \in DOMAIN stamps =>
       stamps[k + 2 * MaxRate] - stamps[k] > Window + 1

\* A line is refused only to a client that had MAX_RATE_LIMIT lines processed within the
\* last RATE_LIMIT_WINDOW seconds: refused lines do not prolong the refusal.
RefusedOnlyWhenBusy ==
    ~Expired /\ Full(count) =>
       /\ Len(stamps) >= MaxRate
       /\ stamps[Len(stamps) - MaxRate + 1] >= now - Window
=============================================================================
