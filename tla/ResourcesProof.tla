--------------------------- MODULE ResourcesProof ---------------------------
(***************************************************************************)
(* What src/server.c has a limited amount of or has to give back: the ring *)
(* of the audit log, for every number of threads and every ring size; the  *)
(* lines a client may send, for every limit and every window; and what the *)
(* functions of CryptoProvider take and free, for every failing call.      *)
(***************************************************************************)
EXTENDS AuditLog, RateLimit, CryptoProvider, TLAPS

-----------------------------------------------------------------------------
(* The audit log *)

(***************************************************************************)
(* The inductive invariant.  EntryIntact has to know where in the ring a   *)
(* thread's entry is, counted from the next one to be taken: it is taken   *)
(* again by the RingSize-th event after its own, and not before.           *)
(***************************************************************************)
\* audit_mutex is held by the thread that fills its entry, whose event is the last one.
MutexHeld ==
    \A t \in Threads : pc[t] = "fill" =>
       /\ holder = t
       /\ event[t] = logged
       /\ ring[entry[t]].head = event[t]

\* An event's number is at most that of the last one.
EventsLogged == \A t \in Threads : event[t] <= logged

\* The distance from an entry to the end of what was taken, going round the ring.
EntryPlaced ==
    \A t \in Threads : pc[t] # "idle" /\ Since(t) < RingSize =>
       Since(t) = IF entry[t] < audit_log_count THEN audit_log_count - 1 - entry[t]
                                      ELSE audit_log_count + RingSize - 1 - entry[t]

\* The head was copied from an intact entry, unless the ring went round since.
HeadIntact ==
    \A t \in Threads : pc[t] = "insert" /\ Since(t) < RingSize => head[t] = event[t]

IInv ==
    /\ TypeOK /\ EntryIntact /\ PromptRowsAreTrue
    /\ MutexHeld /\ EventsLogged /\ EntryPlaced /\ HeadIntact

-----------------------------------------------------------------------------
\* The empty ring satisfies the invariant.
LEMMA InitIInv == Init => IInv
<1> SUFFICES ASSUME Init PROVE IInv
  OBVIOUS
<1> USE AuditAssumption DEF Init, Indices, Events
<1>1. TypeOK BY DEF TypeOK
<1>2. EntryIntact /\ PromptRowsAreTrue BY DEF EntryIntact, PromptRowsAreTrue
<1>3. MutexHeld /\ EventsLogged BY DEF MutexHeld, EventsLogged
<1>4. EntryPlaced /\ HeadIntact BY DEF EntryPlaced, HeadIntact
<1> QED BY <1>1, <1>2, <1>3, <1>4 DEF IInv

\* The numbers the arguments are about.
LEMMA Numbers ==
    ASSUME TypeOK, NEW t \in Threads
    PROVE  /\ RingSize \in Int /\ RingSize >= 1
           /\ logged \in Int /\ event[t] \in Int
           /\ Since(t) \in Int /\ Since(t) = logged - event[t]
           /\ audit_log_count \in Int /\ 0 <= audit_log_count /\ audit_log_count <= RingSize
           /\ entry[t] \in Indices
           /\ entry[t] \in Int /\ 0 <= entry[t] /\ entry[t] < RingSize
BY AuditAssumption DEF TypeOK, Events, Indices, Since

\* The next entry is one that nobody needs whose event is among the last RingSize.
LEMMA TakeEntryIInv ==
    ASSUME IInv, NEW t \in Threads, TakeEntry(t)
    PROVE  IInv'
<1> USE DEF IInv
<1>a. /\ pc' = [pc EXCEPT ![t] = "fill"] /\ holder = Free /\ holder' = t
      /\ logged' = logged + 1 /\ event' = [event EXCEPT ![t] = logged + 1]
      /\ audit_log_count' = NextIndex + 1 /\ entry' = [entry EXCEPT ![t] = NextIndex]
      /\ ring' = [ring EXCEPT ![NextIndex].head = logged + 1]
      /\ UNCHANGED <<head, rows>>
  BY DEF TakeEntry
<1>b. NextIndex \in Indices /\ NextIndex \in Int /\ NextIndex + 1 \in 0..RingSize
  BY AuditAssumption DEF NextIndex, TypeOK, Indices
<1>c. logged + 1 \in Events
  BY AuditAssumption DEF TakeEntry, TypeOK, Events
<1>d. /\ pc'[t] = "fill" /\ event'[t] = logged + 1 /\ entry'[t] = NextIndex
      /\ ring'[NextIndex] = [head |-> logged + 1, tail |-> ring[NextIndex].tail]
      /\ \A i \in Indices : i # NextIndex => ring'[i] = ring[i]
  BY <1>a, <1>b DEF TypeOK
<1>e. ASSUME NEW u \in Threads, u # t
      PROVE  /\ pc'[u] = pc[u] /\ event'[u] = event[u] /\ entry'[u] = entry[u]
             /\ pc[u] # "fill"
             /\ Since(u)' = Since(u) + 1
  <2>1. pc'[u] = pc[u] /\ event'[u] = event[u] /\ entry'[u] = entry[u]
    BY <1>a, <1>e DEF TypeOK
  <2>2. pc[u] # "fill"
    BY <1>a, AuditAssumption DEF MutexHeld
  <2>3. Since(u)' = logged' - event'[u]
    BY DEF Since
  <2> QED
    BY <1>a, <2>1, <2>2, <2>3, Numbers
<1>1. TypeOK'
  <2>1. ring' \in [Indices -> [head : Events, tail : Events]]
    BY <1>a, <1>b, <1>c DEF TypeOK
  <2> QED
    BY <1>a, <1>b, <1>c, <2>1 DEF TypeOK
<1>2. ASSUME NEW u \in Threads, u # t, pc[u] # "idle", Since(u)' < RingSize
      PROVE  Since(u) < RingSize /\ entry[u] # NextIndex
  <2>1. Since(u) + 1 < RingSize
    BY <1>e, <1>2
  <2>2. Since(u) < RingSize
    BY <2>1, Numbers
  <2>3. Since(u) = IF entry[u] < audit_log_count THEN audit_log_count - 1 - entry[u]
                                       ELSE audit_log_count + RingSize - 1 - entry[u]
    BY <1>2, <2>2 DEF EntryPlaced
  <2> QED
    BY <2>1, <2>2, <2>3, Numbers DEF NextIndex
<1>3. EntryIntact'
  <2> SUFFICES ASSUME NEW u \in Threads, pc'[u] \in {"save", "insert"}, Since(u)' < RingSize
               PROVE  ring'[entry'[u]] = [head |-> event'[u], tail |-> event'[u]]
    BY DEF EntryIntact
  <2>1. u # t
    BY <1>d
  <2>2. Since(u) < RingSize /\ entry[u] # NextIndex /\ pc[u] \in {"save", "insert"}
    BY <1>e, <1>2, <2>1
  <2> QED
    BY <1>d, <1>e, <2>1, <2>2, Numbers DEF EntryIntact
<1>4. PromptRowsAreTrue'
  BY <1>a DEF PromptRowsAreTrue
<1>5. MutexHeld'
  BY <1>a, <1>d, <1>e DEF MutexHeld
<1>6. EventsLogged'
  <2> SUFFICES ASSUME NEW u \in Threads PROVE event'[u] <= logged'
    BY DEF EventsLogged
  <2>1. CASE u = t BY <1>a, <1>d, <2>1, Numbers
  <2>2. CASE u # t BY <1>a, <1>e, <2>2, Numbers DEF EventsLogged
  <2> QED BY <2>1, <2>2
<1>7. EntryPlaced'
  <2> SUFFICES ASSUME NEW u \in Threads, pc'[u] # "idle", Since(u)' < RingSize
               PROVE  Since(u)' = IF entry'[u] < audit_log_count' THEN audit_log_count' - 1 - entry'[u]
                                                       ELSE audit_log_count' + RingSize - 1 - entry'[u]
    BY DEF EntryPlaced
  <2>1. CASE u = t
    <3>1. Since(t)' = 0
      BY <1>a, <1>d, Numbers DEF Since
    <3> QED
      BY <1>a, <1>b, <1>d, <2>1, <3>1
  <2>2. CASE u # t
    <3>1. /\ Since(u) < RingSize /\ entry[u] # NextIndex /\ entry'[u] = entry[u]
          /\ pc[u] # "idle" /\ Since(u)' = Since(u) + 1
      BY <1>e, <1>2, <2>2
    <3>2. Since(u) = IF entry[u] < audit_log_count THEN audit_log_count - 1 - entry[u]
                                         ELSE audit_log_count + RingSize - 1 - entry[u]
      BY <3>1 DEF EntryPlaced
    <3> QED
      BY <1>a, <3>1, <3>2, Numbers DEF NextIndex
  <2> QED
    BY <2>1, <2>2
<1>8. HeadIntact'
  <2> SUFFICES ASSUME NEW u \in Threads, pc'[u] = "insert", Since(u)' < RingSize
               PROVE  head'[u] = event'[u]
    BY DEF HeadIntact
  <2>1. u # t
    BY <1>d
  <2> QED
    BY <1>a, <1>e, <1>2, <2>1 DEF HeadIntact
<1> QED BY <1>1, <1>3, <1>4, <1>5, <1>6, <1>7, <1>8

\* The rest of the entry: nobody else's, as it is the last one that was taken.
LEMMA FillEntryIInv ==
    ASSUME IInv, NEW t \in Threads, FillEntry(t)
    PROVE  IInv'
<1> USE AuditAssumption DEF IInv, FillEntry
<1>1. TypeOK' BY DEF TypeOK
<1>2. EntryIntact'
  <2> SUFFICES ASSUME NEW u \in Threads, pc'[u] \in {"save", "insert"}, Since(u) < RingSize
               PROVE  ring'[entry[u]] = [head |-> event[u], tail |-> event[u]]
    BY DEF EntryIntact, Since
  <2>1. CASE u = t
    BY <2>1 DEF TypeOK, MutexHeld
  <2>2. CASE u # t
    <3>1. pc[u] \in {"save", "insert"} /\ ring[entry[u]] = [head |-> event[u], tail |-> event[u]]
      BY <2>2 DEF TypeOK, EntryIntact
    <3>2. CASE entry[u] # entry[t]
      BY <3>1, <3>2 DEF TypeOK
    <3>3. CASE entry[u] = entry[t]
      <4>1. Since(t) = 0 /\ 0 < RingSize
        BY Numbers DEF MutexHeld
      <4>2. Since(u) = Since(t)
        BY <3>1, <3>3, <4>1 DEF EntryPlaced
      <4>3. event[u] = event[t]
        BY <4>2, Numbers
      <4> QED
        BY <3>1, <3>3, <4>3 DEF TypeOK
    <3> QED
      BY <3>2, <3>3
  <2> QED
    BY <2>1, <2>2
<1>3. PromptRowsAreTrue' BY DEF PromptRowsAreTrue
<1>4. MutexHeld' BY DEF TypeOK, MutexHeld
<1>5. EventsLogged' BY DEF EventsLogged
<1>6. EntryPlaced' BY DEF TypeOK, EntryPlaced, Since
<1>7. HeadIntact' BY DEF TypeOK, HeadIntact, Since
<1> QED BY <1>1, <1>2, <1>3, <1>4, <1>5, <1>6, <1>7

\* The head is copied out of the ring.
LEMMA SaveHeadIInv ==
    ASSUME IInv, NEW t \in Threads, SaveHead(t)
    PROVE  IInv'
<1> USE DEF IInv, SaveHead
<1>1. TypeOK' BY DEF TypeOK
<1>2. EntryIntact' BY DEF TypeOK, EntryIntact, Since
<1>3. PromptRowsAreTrue' BY DEF PromptRowsAreTrue
<1>4. MutexHeld' BY DEF TypeOK, MutexHeld
<1>5. EventsLogged' BY DEF EventsLogged
<1>6. EntryPlaced' BY DEF TypeOK, EntryPlaced, Since
<1>7. HeadIntact'
  <2> SUFFICES ASSUME NEW u \in Threads, pc'[u] = "insert", Since(u) < RingSize
               PROVE  head'[u] = event[u]
    BY DEF HeadIntact, Since
  <2>1. CASE u = t
    <3>1. ring[entry[t]] = [head |-> event[t], tail |-> event[t]]
      BY <2>1 DEF EntryIntact
    <3>2. head'[t] = ring[entry[t]].head
      BY DEF TypeOK
    <3> QED
      BY <2>1, <3>1, <3>2
  <2>2. CASE u # t
    BY <2>2 DEF TypeOK, HeadIntact
  <2> QED
    BY <2>1, <2>2
<1> QED BY <1>1, <1>2, <1>3, <1>4, <1>5, <1>6, <1>7

\* A thread that returns takes nothing from what is said of the others.
LEMMA FinishIInv ==
    ASSUME IInv, NEW t \in Threads, Finish(t), pc[t] # "fill",
           UNCHANGED <<audit_log_count, ring, holder, logged>>, TypeOK', PromptRowsAreTrue'
    PROVE  IInv'
<1> USE DEF IInv, Finish
<1>2. EntryIntact' BY DEF TypeOK, EntryIntact, Since
<1>4. MutexHeld' BY DEF TypeOK, MutexHeld
<1>5. EventsLogged' BY DEF TypeOK, EventsLogged, Events
<1>6. EntryPlaced' BY DEF TypeOK, EntryPlaced, Since
<1>7. HeadIntact' BY DEF TypeOK, HeadIntact, Since
<1> QED BY <1>2, <1>4, <1>5, <1>6, <1>7

\* The row is inserted.
LEMMA InsertRowIInv ==
    ASSUME IInv, NEW t \in Threads, InsertRow(t)
    PROVE  IInv'
<1> USE AuditAssumption DEF InsertRow
<1> DEFINE row == [event |-> event[t], head |-> head[t], tail |-> ring[entry[t]].tail,
                   late |-> Since(t) >= RingSize]
<1>0. rows' = rows \cup {row}
  OBVIOUS
<1>1. TypeOK'
  <2>1. ring[entry[t]] \in [head : Events, tail : Events]
    BY DEF IInv, TypeOK
  <2>2. row \in [event : Events, head : Events, tail : Events, late : BOOLEAN]
    BY <2>1, Numbers DEF IInv, TypeOK
  <2>3. 0 \in Events /\ 0 \in Indices
    BY DEF Events, Indices
  <2> HIDE DEF row
  <2> QED
    BY <1>0, <2>2, <2>3 DEF IInv, TypeOK, Finish
<1>2. ~row.late => row.head = row.event /\ row.tail = row.event
  <2> SUFFICES ASSUME ~(Since(t) >= RingSize)
               PROVE  head[t] = event[t] /\ ring[entry[t]].tail = event[t]
    OBVIOUS
  <2>1. Since(t) < RingSize
    BY Numbers DEF IInv
  <2>2. head[t] = event[t]
    BY <2>1 DEF IInv, HeadIntact
  <2>3. ring[entry[t]] = [head |-> event[t], tail |-> event[t]]
    BY <2>1 DEF IInv, EntryIntact
  <2> QED
    BY <2>2, <2>3
<1>3. PromptRowsAreTrue'
  <2> HIDE DEF row
  <2> QED
    BY <1>0, <1>2 DEF IInv, PromptRowsAreTrue
<1> QED
  BY <1>1, <1>3, FinishIInv

\* The row is not inserted.
LEMMA InsertFailsIInv ==
    ASSUME IInv, NEW t \in Threads, InsertFails(t)
    PROVE  IInv'
<1> USE AuditAssumption DEF InsertFails
<1>1. 0 \in Events /\ 0 \in Indices
  BY DEF Events, Indices
<1>2. TypeOK' BY <1>1 DEF IInv, TypeOK, Finish
<1>3. PromptRowsAreTrue' BY DEF IInv, PromptRowsAreTrue
<1> QED
  BY <1>2, <1>3, FinishIInv

\* Old rows are deleted.
LEMMA RotateIInv ==
    ASSUME IInv, NEW cut \in 1..logged, Rotate(cut)
    PROVE  IInv'
<1> USE DEF IInv, Rotate
<1>1. TypeOK' BY DEF TypeOK
<1>2. PromptRowsAreTrue' BY DEF PromptRowsAreTrue
<1> QED
  BY <1>1, <1>2 DEF EntryIntact, MutexHeld, EventsLogged, EntryPlaced, HeadIntact, Since

\* Every step keeps the invariant.
LEMMA NextIInv == IInv /\ [Next]_vars => IInv'
<1> SUFFICES ASSUME IInv, [Next]_vars PROVE IInv'
  OBVIOUS
<1>1. CASE UNCHANGED vars
  BY <1>1 DEF vars, IInv, TypeOK, EntryIntact, PromptRowsAreTrue, MutexHeld, EventsLogged,
     EntryPlaced, HeadIntact, Since
<1> QED
  BY <1>1, TakeEntryIInv, FillEntryIInv, SaveHeadIInv, InsertRowIInv, InsertFailsIInv,
     RotateIInv DEF Next

\* The invariant holds in every reachable state.
THEOREM InvariantHolds == Spec => []IInv
BY InitIInv, NextIInv, PTL DEF Spec

\* audit_log_count stays within the ring, and every variable keeps its type.
THEOREM TypeCorrect == Spec => []TypeOK
<1>1. IInv => TypeOK
  BY DEF IInv
<1> QED
  BY <1>1, InvariantHolds, PTL

\* An entry is intact until RingSize further events, for every ring size.
THEOREM EntryIntactHolds == Spec => []EntryIntact
<1>1. IInv => EntryIntact
  BY DEF IInv
<1> QED
  BY <1>1, InvariantHolds, PTL

\* Rows that were saved before the ring went round are the events they stand for.
THEOREM PromptRowsAreTrueHolds == Spec => []PromptRowsAreTrue
<1>1. IInv => PromptRowsAreTrue
  BY DEF IInv
<1> QED
  BY <1>1, InvariantHolds, PTL

-----------------------------------------------------------------------------
(* The rate limit *)

\* The i-th of n lines was processed at tick t; c of them in the window that began at w.
Placed(i, n, c, w, t) ==
    /\ i > n - c => t >= w
    /\ i <= n - c => t < w
    /\ i + MaxRate <= n - c => t + Window + 1 < w
    /\ t <= w + Window

\* The lines of the current window are the last count ones; the MAX_RATE_LIMIT before
\* them may be of the window before, and all others were processed before that one
\* began.
LinesByWindow ==
    /\ count <= Len(stamps)
    /\ \A i \in DOMAIN stamps : Placed(i, Len(stamps), count, window_start, stamps[i])

RateIInv == RateTypeOK /\ LinesByWindow /\ SlidingBound

\* The empty history satisfies the invariant.
LEMMA RateInitIInv == RateInit => RateIInv
BY RateAssumption DEF RateInit, RateIInv, RateTypeOK, LinesByWindow, SlidingBound, Ticks

\* The numbers the argument is about.
LEMMA RateNumbers ==
    ASSUME RateTypeOK
    PROVE  /\ MaxRate \in Int /\ MaxRate >= 1 /\ Window \in Int /\ Window >= 1
           /\ now \in Int /\ window_start \in Int /\ window_start <= now
           /\ count \in Int /\ 0 <= count /\ count <= MaxRate
           /\ Len(stamps) \in Nat /\ DOMAIN stamps = 1..Len(stamps)
           /\ \A i \in 1..Len(stamps) : stamps[i] \in Int
BY RateAssumption DEF RateTypeOK, Ticks

\* An earlier line after one more line of the same window, or after the first one of a
\* new window: then the old window's lines are among the MAX_RATE_LIMIT last ones.
LEMMA PlacedLater ==
    ASSUME NEW i \in Nat, NEW n \in Nat, i <= n, NEW c \in 0..MaxRate, NEW w \in Int, NEW t \in Int,
           Placed(i, n, c, w, t)
    PROVE  /\ Placed(i, n + 1, c + 1, w, t)
           /\ \A v \in Int : v > w + Window => Placed(i, n + 1, 1, v, t)
BY RateAssumption DEF Placed

\* The line that was just processed.
LEMMA PlacedNow ==
    ASSUME NEW n \in Nat, NEW c \in 0..MaxRate, NEW w \in Int, NEW t \in w..(w + Window)
    PROVE  Placed(n + 1, n + 1, c + 1, w, t)
BY RateAssumption DEF Placed

\* A line that is processed belongs to the current window, or begins the next one.
LEMMA PassIInv == RateIInv /\ Pass => RateIInv'
<1> SUFFICES ASSUME RateIInv, Pass PROVE RateIInv'
  OBVIOUS
<1> PICK n \in Nat : n = Len(stamps)
  BY RateNumbers DEF RateIInv
<1>1. PICK s, c, w : s = stamps' /\ c = count' /\ w = window_start'
  OBVIOUS
<1>2. /\ MaxRate \in Int /\ MaxRate >= 1 /\ Window \in Int /\ Window >= 1
      /\ now \in Int /\ window_start \in Int /\ window_start <= now
      /\ count \in 0..MaxRate
      /\ DOMAIN stamps = 1..n
      /\ \A i \in 1..n : stamps[i] \in Int
  BY <1>1, RateNumbers DEF RateIInv
<1>3. /\ now \in Ticks /\ stamps \in Seq(Ticks) /\ stamps' = Append(stamps, now) /\ now' = now
  BY DEF RateIInv, RateTypeOK, Pass
<1>4. /\ Len(s) = n + 1 /\ DOMAIN s = 1..(n + 1)
      /\ s[n + 1] = now /\ \A i \in 1..n : s[i] = stamps[i]
  BY <1>1, <1>3
<1>5. \/ now > window_start + Window /\ w = now /\ c = 1
      \/ now <= window_start + Window /\ w = window_start /\ c = count + 1 /\ count < MaxRate
  BY <1>1, <1>2 DEF Pass, Full, Expired
<1>6. c \in 1..MaxRate /\ w \in Int /\ w <= now
  BY <1>2, <1>5
<1>7. count <= n /\ \A i \in 1..n : Placed(i, n, count, window_start, stamps[i])
  BY <1>1, <1>2 DEF RateIInv, LinesByWindow
<1>8. RateTypeOK'
  <2>1. now' \in Ticks /\ stamps' \in Seq(Ticks)
    BY <1>3
  <2>2. window_start' \in 0..now' /\ count' \in 0..MaxRate
    BY <1>1, <1>2, <1>3, <1>5 DEF RateIInv, RateTypeOK, Ticks
  <2>3. last_activity' \in window_start'..now'
    BY <1>1, <1>2, <1>3, <1>5 DEF Pass
  <2> QED BY <2>1, <2>2, <2>3 DEF RateTypeOK
<1>9. ASSUME NEW i \in 1..(n + 1) PROVE Placed(i, n + 1, c, w, s[i])
  <2>1. CASE i = n + 1
    <3>1. CASE w = now /\ c = 1
      <4>1. Placed(n + 1, n + 1, 1, now, now)
        BY <1>2 DEF Placed
      <4> QED BY <1>4, <2>1, <3>1, <4>1
    <3>2. CASE now <= window_start + Window /\ w = window_start /\ c = count + 1
      <4>1. Placed(n + 1, n + 1, count + 1, window_start, now)
        BY <1>2, <3>2, PlacedNow
      <4> QED BY <1>4, <2>1, <3>2, <4>1
    <3> QED BY <1>5, <3>1, <3>2
  <2>2. CASE i \in 1..n
    <3>1. s[i] = stamps[i] /\ stamps[i] \in Int /\ i \in Nat /\ i <= n
      BY <1>2, <1>4, <2>2
    <3>2. Placed(i, n, count, window_start, stamps[i])
      BY <1>7, <2>2
    <3>3. /\ Placed(i, n + 1, count + 1, window_start, stamps[i])
          /\ now > window_start + Window => Placed(i, n + 1, 1, now, stamps[i])
      BY <1>2, <3>1, <3>2, PlacedLater
    <3> QED BY <1>5, <3>1, <3>3
  <2> QED BY <2>1, <2>2
<1>10. LinesByWindow'
  <2>1. c <= n + 1
    BY <1>2, <1>5, <1>7
  <2>2. c <= Len(s) /\ \A i \in DOMAIN s : Placed(i, Len(s), c, w, s[i])
    BY <1>4, <1>9, <2>1
  <2> QED BY <1>1, <2>2 DEF LinesByWindow
<1>11. SlidingBound'
  <2> SUFFICES ASSUME NEW k \in 1..(n + 1), k + 2 * MaxRate \in 1..(n + 1)
               PROVE  s[k + 2 * MaxRate] - s[k] > Window + 1
    BY <1>1, <1>4 DEF SlidingBound
  <2>1. k \in 1..n /\ s[k] = stamps[k] /\ stamps[k] \in Int
    BY <1>2, <1>4
  <2>2. CASE k + 2 * MaxRate # n + 1
    <3>1. k + 2 * MaxRate \in 1..n
      BY <1>2, <2>2
    <3> QED BY <1>2, <1>4, <2>1, <3>1 DEF RateIInv, SlidingBound
  <2>3. CASE k + 2 * MaxRate = n + 1
    <3>1. k + MaxRate <= n + 1 - c
      BY <1>2, <1>6, <2>3
    <3>2. s[k] + Window + 1 < w
      <4>1. Placed(k, n + 1, c, w, s[k])
        BY <1>9
      <4> QED BY <1>2, <1>6, <2>1, <3>1, <4>1 DEF Placed
    <3>3. s[k + 2 * MaxRate] = now
      BY <1>4, <2>3
    <3> QED BY <1>2, <1>6, <2>1, <3>2, <3>3
  <2> QED BY <2>2, <2>3
<1> QED BY <1>8, <1>10, <1>11 DEF RateIInv

LEMMA RateNextIInv == RateIInv /\ [RateNext]_rateVars => RateIInv'
<1> SUFFICES ASSUME RateIInv, [RateNext]_rateVars PROVE RateIInv'
  OBVIOUS
<1>1. CASE Pass
  BY <1>1, PassIInv
<1>2. CASE Refuse \/ Tick \/ UNCHANGED rateVars
  <2>1. UNCHANGED <<window_start, count, stamps>>
    BY <1>2 DEF Refuse, Tick, rateVars
  <2>2. RateTypeOK'
    BY <1>2, <2>1, RateAssumption, RateNumbers DEF RateIInv, RateTypeOK, Refuse, Tick, rateVars, Ticks
  <2> QED BY <2>1, <2>2 DEF RateIInv, LinesByWindow, SlidingBound
<1> QED BY <1>1, <1>2 DEF RateNext

LEMMA RateIInvHolds == RateSpec => []RateIInv
BY RateInitIInv, RateNextIInv, PTL DEF RateSpec

\* Of any 2 * MAX_RATE_LIMIT + 1 successive lines the last is processed more than
\* RATE_LIMIT_WINDOW + 1 seconds after the first, for every limit and window.
THEOREM SlidingBoundHolds == RateSpec => []SlidingBound
<1>1. RateIInv => SlidingBound
  BY DEF RateIInv
<1> QED BY <1>1, RateIInvHolds, PTL

\* A client that is refused had its MAX_RATE_LIMIT lines within the last
\* RATE_LIMIT_WINDOW seconds, however many refused lines it sent meanwhile.
THEOREM RefusedOnlyWhenBusyHolds == RateSpec => []RefusedOnlyWhenBusy
<1>1. RateIInv => RefusedOnlyWhenBusy
  <2> SUFFICES ASSUME RateIInv, ~Expired, Full(count)
               PROVE  /\ Len(stamps) >= MaxRate
                      /\ stamps[Len(stamps) - MaxRate + 1] >= now - Window
    BY DEF RefusedOnlyWhenBusy
  <2>1. /\ MaxRate \in Int /\ MaxRate >= 1 /\ Window \in Int
        /\ now \in Int /\ window_start \in Int
        /\ count \in Int /\ count = MaxRate
        /\ Len(stamps) \in Nat /\ DOMAIN stamps = 1..Len(stamps)
        /\ \A i \in 1..Len(stamps) : stamps[i] \in Int
    BY RateNumbers DEF RateIInv, Full
  <2>2. Len(stamps) >= MaxRate
    BY <2>1 DEF RateIInv, LinesByWindow
  <2>3. Len(stamps) - MaxRate + 1 \in 1..Len(stamps)
    BY <2>1, <2>2
  <2>4. stamps[Len(stamps) - MaxRate + 1] >= window_start
    BY <2>1, <2>3 DEF RateIInv, LinesByWindow, Placed
  <2>5. window_start >= now - Window
    BY <2>1 DEF Expired
  <2> QED BY <2>1, <2>2, <2>3, <2>4, <2>5
<1> QED BY <1>1, RateIInvHolds, PTL
-----------------------------------------------------------------------------
(* The crypto provider *)

(***************************************************************************)
(* While a function runs it holds what its calls so far have got, because  *)
(* it frees nothing before it returns.  So what it holds when it returns   *)
(* follows from its sequence of calls, which is looked at once and for all.*)
(***************************************************************************)
\* What the calls before the k-th have got.
Acquired(p, k) == UNION {p.calls[i].get : i \in 1..(k - 1)}

\* Function p frees only what it has got, and in the end all but what it promises.
Sound(p) ==
    /\ Len(p.calls) \in Nat
    /\ \A k \in 1..Len(p.calls) : p.calls[k].err \subseteq Acquired(p, k)
    /\ p.end \subseteq Acquired(p, Len(p.calls) + 1)
    /\ Acquired(p, Len(p.calls) + 1) \ p.end = p.out

\* Whichever call fails, p frees all it has got.
Tidy(p) == \A k \in 1..Len(p.calls) : Acquired(p, k) \subseteq p.calls[k].err

CryptoIInv ==
    /\ fn \in DOMAIN Funs
    /\ next \in 1..(Len(Funs[fn].calls) + 1)
    /\ result = "run" => held = Acquired(Funs[fn], next)
    /\ GivesBack /\ FreesOnlyHeld

\* Membership in Acquired, without the UNION.
LEMMA InAcquired ==
    ASSUME NEW p, NEW k, NEW x
    PROVE  x \in Acquired(p, k) <=> \E i \in 1..(k - 1) : x \in p.calls[i].get
BY DEF Acquired

\* The functions of server.c; of these the HMAC is not tidy.
LEMMA ServerSound ==
    /\ Sound(hmac_sha256)
    /\ Sound(crypto_encrypt_aes_gcm) /\ Tidy(crypto_encrypt_aes_gcm)
    /\ Sound(crypto_encrypt_chacha20) /\ Tidy(crypto_encrypt_chacha20)
    /\ Sound(crypto_encrypt_aes_cbc) /\ Tidy(crypto_encrypt_aes_cbc)
    /\ Sound(crypto_encrypt) /\ Tidy(crypto_encrypt)
    /\ Sound(crypto_decrypt) /\ Tidy(crypto_decrypt)
    /\ Sound(identity_key_store_get_key) /\ Tidy(identity_key_store_get_key)
    /\ Sound(init_client_signal_protocol) /\ Tidy(init_client_signal_protocol)
    /\ Sound(init_enhanced_signal_protocol) /\ Tidy(init_enhanced_signal_protocol)
<1> USE InAcquired DEF Sound, Tidy, Proc, Call
<1>1. Sound(hmac_sha256) BY DEF hmac_sha256
<1>2. Sound(crypto_encrypt_aes_gcm) /\ Tidy(crypto_encrypt_aes_gcm) BY DEF crypto_encrypt_aes_gcm
<1>3. Sound(crypto_encrypt_chacha20) /\ Tidy(crypto_encrypt_chacha20) BY DEF crypto_encrypt_chacha20
<1>4. Sound(crypto_encrypt_aes_cbc) /\ Tidy(crypto_encrypt_aes_cbc) BY DEF crypto_encrypt_aes_cbc
<1>5. Sound(crypto_encrypt) /\ Tidy(crypto_encrypt) BY DEF crypto_encrypt
<1>6. Sound(crypto_decrypt) /\ Tidy(crypto_decrypt) BY DEF crypto_decrypt
<1>7. Sound(identity_key_store_get_key) /\ Tidy(identity_key_store_get_key) BY DEF identity_key_store_get_key
<1>8. Sound(init_client_signal_protocol) /\ Tidy(init_client_signal_protocol) BY DEF init_client_signal_protocol
<1>9. Sound(init_enhanced_signal_protocol) /\ Tidy(init_enhanced_signal_protocol) BY DEF init_enhanced_signal_protocol
<1> HIDE DEF Sound, Tidy
<1> QED BY <1>1, <1>2, <1>3, <1>4, <1>5, <1>6, <1>7, <1>8, <1>9

\* Those of the former server, of which two are not tidy.
LEMMA FormerSound ==
    /\ Sound(former_hmac_sha256)
    /\ Sound(former_encrypt_aes_gcm) /\ Tidy(former_encrypt_aes_gcm)
    /\ Sound(former_encrypt_chacha20) /\ Tidy(former_encrypt_chacha20)
    /\ Sound(encrypt_message_multi_algo) /\ Tidy(encrypt_message_multi_algo)
    /\ Sound(former_encrypt) /\ Tidy(former_encrypt)
    /\ Sound(former_decrypt) /\ Tidy(former_decrypt)
    /\ Sound(former_get_identity_key_pair) /\ Tidy(former_get_identity_key_pair)
    /\ Sound(former_get_identity_key_pair_rest) /\ Tidy(former_get_identity_key_pair_rest)
    /\ Sound(former_signal_protocol_init) /\ Tidy(former_signal_protocol_init)
    /\ Sound(former_init_client_signal_protocol)
    /\ Sound(former_encrypt_message_for_user) /\ Tidy(former_encrypt_message_for_user)
<1> USE InAcquired DEF Sound, Tidy, Proc, Call
<1>1. Sound(former_hmac_sha256) BY DEF former_hmac_sha256
<1>2. Sound(former_encrypt_aes_gcm) /\ Tidy(former_encrypt_aes_gcm) BY DEF former_encrypt_aes_gcm
<1>3. Sound(former_encrypt_chacha20) /\ Tidy(former_encrypt_chacha20) BY DEF former_encrypt_chacha20
<1>4. Sound(encrypt_message_multi_algo) /\ Tidy(encrypt_message_multi_algo) BY DEF encrypt_message_multi_algo
<1>5. Sound(former_encrypt) /\ Tidy(former_encrypt) BY DEF former_encrypt
<1>6. Sound(former_decrypt) /\ Tidy(former_decrypt) BY DEF former_decrypt
<1>7. Sound(former_get_identity_key_pair) /\ Tidy(former_get_identity_key_pair) BY DEF former_get_identity_key_pair
<1>8. Sound(former_signal_protocol_init) /\ Tidy(former_signal_protocol_init) BY DEF former_signal_protocol_init
<1>9. Sound(former_init_client_signal_protocol) BY DEF former_init_client_signal_protocol
<1>10. Sound(former_encrypt_message_for_user) /\ Tidy(former_encrypt_message_for_user) BY DEF former_encrypt_message_for_user
<1>11. Sound(former_get_identity_key_pair_rest) /\ Tidy(former_get_identity_key_pair_rest)
  BY DEF former_get_identity_key_pair_rest
<1> HIDE DEF Sound, Tidy
<1> QED BY <1>1, <1>2, <1>3, <1>4, <1>5, <1>6, <1>7, <1>8, <1>9, <1>10, <1>11

\* Every function of the table.
LEMMA FunsSound ==
    ASSUME NEW f \in DOMAIN Funs
    PROVE  Sound(Funs[f]) /\ (f \notin Lossy => Tidy(Funs[f]))
BY ServerSound, FormerSound DEF Funs, Lossy

\* How many calls a function makes.
LEMMA CallsNumbered ==
    ASSUME NEW f \in DOMAIN Funs
    PROVE  Len(Funs[f].calls) \in Nat
BY FunsSound DEF Sound

\* Before the first call nothing has been got, and a call adds what it gets.
LEMMA AcquiredSteps ==
    ASSUME NEW p
    PROVE  /\ Acquired(p, 1) = {}
           /\ \A k \in Nat : k >= 1 => Acquired(p, k + 1) = Acquired(p, k) \cup p.calls[k].get
<1>1. Acquired(p, 1) = {}
  BY InAcquired
<1>2. ASSUME NEW k \in Nat, k >= 1
      PROVE  Acquired(p, k + 1) = Acquired(p, k) \cup p.calls[k].get
  <2>1. ASSUME NEW x
        PROVE  x \in Acquired(p, k + 1) <=> x \in Acquired(p, k) \/ x \in p.calls[k].get
    <3>1. \A i : i \in 1..((k + 1) - 1) <=> i \in 1..(k - 1) \/ i = k
      BY <1>2
    <3> QED BY <3>1, InAcquired
  <2> QED BY <2>1
<1> QED BY <1>1, <1>2

\* A function that begins holds nothing.
LEMMA CryptoInitIInv == CryptoInit => CryptoIInv
<1> SUFFICES ASSUME CryptoInit PROVE CryptoIInv
  OBVIOUS
<1>1. Len(Funs[fn].calls) \in Nat
  BY CallsNumbered DEF CryptoInit
<1> QED BY <1>1, AcquiredSteps DEF CryptoInit, CryptoIInv, GivesBack, FreesOnlyHeld

\* Every step keeps the invariant.
LEMMA CryptoNextIInv == CryptoIInv /\ [CryptoNext]_cryptoVars => CryptoIInv'
<1> SUFFICES ASSUME CryptoIInv, [CryptoNext]_cryptoVars PROVE CryptoIInv'
  OBVIOUS
<1> USE DEF CryptoIInv
<1>1. ASSUME NEW f \in DOMAIN Funs, Begin(f) PROVE CryptoIInv'
  <2>1. Len(Funs[f].calls) \in Nat
    BY CallsNumbered
  <2> QED BY <1>1, <2>1, AcquiredSteps DEF Begin, GivesBack, FreesOnlyHeld
<1>2. CASE CallSucceeds
  <2>1. PICK n \in Nat : n = Len(Funs[fn].calls)
    BY CallsNumbered
  <2>2. next \in Nat /\ next >= 1 /\ next <= n /\ next + 1 \in 1..(n + 1)
    BY <1>2, <2>1 DEF CallSucceeds
  <2>3. Acquired(Funs[fn], next + 1) = Acquired(Funs[fn], next) \cup Funs[fn].calls[next].get
    BY <2>2, AcquiredSteps
  <2> QED BY <1>2, <2>1, <2>2, <2>3 DEF CallSucceeds, GivesBack, FreesOnlyHeld
<1>3. CASE CallFails
  <2>1. next \in 1..Len(Funs[fn].calls)
    BY <1>3, CallsNumbered DEF CallFails
  <2>2. Funs[fn].calls[next].err \subseteq held
    BY <1>3, <2>1, FunsSound DEF CallFails, Sound
  <2>3. fn \notin Lossy => held \subseteq Funs[fn].calls[next].err
    BY <1>3, <2>1, FunsSound DEF CallFails, Tidy
  <2> QED BY <1>3, <2>2, <2>3 DEF CallFails, Release, GivesBack, FreesOnlyHeld
<1>4. CASE Returns
  <2>1. Funs[fn].end \subseteq held /\ held \ Funs[fn].end = Funs[fn].out
    BY <1>4, FunsSound DEF Returns, Sound
  <2> QED BY <1>4, <2>1 DEF Returns, Release, GivesBack, FreesOnlyHeld
<1>5. CASE UNCHANGED cryptoVars
  BY <1>5 DEF cryptoVars, GivesBack, FreesOnlyHeld
<1> QED BY <1>1, <1>2, <1>3, <1>4, <1>5 DEF CryptoNext

\* It holds in every reachable state.
LEMMA CryptoIInvHolds == CryptoSpec => []CryptoIInv
BY CryptoInitIInv, CryptoNextIInv, PTL DEF CryptoSpec

\* Whichever call of a crypto or store function fails, the function gives back all it took, but
\* for the three whose error path loses something, and when none fails all but what it returns.
THEOREM GivesBackHolds == CryptoSpec => []GivesBack
<1>1. CryptoIInv => GivesBack
  BY DEF CryptoIInv
<1> QED
  BY <1>1, CryptoIInvHolds, PTL

\* No error path frees a thing twice, or one that was not delivered.
THEOREM FreesOnlyHeldHolds == CryptoSpec => []FreesOnlyHeld
<1>1. CryptoIInv => FreesOnlyHeld
  BY DEF CryptoIInv
<1> QED
  BY <1>1, CryptoIInvHolds, PTL
=============================================================================
