------------------------------ MODULE EventHistory -----------------------------
(***************************************************************************)
(* ControlEventHistory: the bounded ring of control events, the cursor     *)
(* counter beside it, and a program that polls event.list.                 *)
(*                                                                         *)
(*   rust/model/src/control_socket.rs  ControlEventHistory                 *)
(*   rust/app/src/control.rs           the EventList arm, and the record   *)
(*                                     after every dispatched call         *)
(*                                                                         *)
(* record() takes its cursor from an atomic counter before it takes the    *)
(* lock of the ring, so events may be pushed out of cursor order.  An      *)
(* event is represented by its cursor: method, request and time play no    *)
(* part, and the category filter of list() is left out (the poller asks    *)
(* for every category).                                                    *)
(***************************************************************************)
EXTENDS Naturals, Sequences, FiniteSets, Functions

CONSTANTS
  Threads,              \* the threads that record events
  Host,                 \* the one of them that runs the main loop
  MaxHistory,           \* CONTROL_MAX_EVENT_HISTORY (512 in the code)
  Limit,                \* the poller's limit (100 unless it says otherwise)
  MaxEvents             \* bound of the model: events recorded in all

ASSUME ThreadsAssumption == Host \in Threads
ASSUME SizesAssumption ==
  MaxHistory \in Nat \ {0} /\ Limit \in Nat \ {0} /\ MaxEvents \in Nat

VARIABLES
  nextCursor,           \* the atomic counter
  claimed,              \* claimed[t]: the cursor t holds and has not pushed; 0 if none
  events,               \* the ring, oldest push first
  request,              \* "idle", "listed" (between list and cursor), "answering"
  listed,               \* what list() returned to the request being served
  after,                \* the poller's position: the last eventCursor it was given
  seen                  \* the events the poller has been given

historyVars == <<nextCursor, claimed, events, request, listed, after, seen>>

Newest(s, n) == SubSeq(s, IF Len(s) > n THEN Len(s) - n + 1 ELSE 1, Len(s))

\* A mistake List avoids: the event at the given cursor is listed too.
ListInclusive(cursor, limit) ==
  LET later == {i \in DOMAIN events : events[i] >= cursor}
  IN  {events[i] : i \in {k \in later : Cardinality({j \in later : j <= k}) <= limit}}

\* list(): the first `limit` events of the ring that are after the given cursor.
List(cursor, limit) ==
  LET later == {i \in DOMAIN events : events[i] > cursor}
  IN  {events[i] : i \in {k \in later : Cardinality({j \in later : j <= k}) <= limit}}

HistoryInit ==
  /\ nextCursor = 0
  /\ claimed = [t \in Threads |-> 0]
  /\ events = << >>
  /\ request = "idle"
  /\ listed = {}
  /\ after = 0
  /\ seen = {}

--------------------------------------------------------------------------------
\* A mistake PushEvent avoids: it drops one event on every push once the ring is half
\* full.
PushDropsEarly(t) ==
  /\ claimed[t] # 0
  /\ events' = Newest(Append(events, claimed[t]), (MaxHistory + 1) \div 2)
  /\ claimed' = [claimed EXCEPT ![t] = 0]
  /\ request' = IF t = Host THEN "idle" ELSE request
  /\ UNCHANGED <<nextCursor, listed, after, seen>>

--------------------------------------------------------------------------------
\* fetch_add; the main loop records only between requests, or for one it served.
ClaimCursor(t) ==
  /\ claimed[t] = 0
  /\ t = Host => request \in {"idle", "answering"}
  /\ nextCursor < MaxEvents
  /\ nextCursor' = nextCursor + 1
  /\ claimed' = [claimed EXCEPT ![t] = nextCursor + 1]
  /\ UNCHANGED <<events, request, listed, after, seen>>

\* Under the lock: push, then drop the oldest while there are too many.
PushEvent(t) ==
  /\ claimed[t] # 0
  /\ events' = Newest(Append(events, claimed[t]), MaxHistory)
  /\ claimed' = [claimed EXCEPT ![t] = 0]
  /\ request' = IF t = Host THEN "idle" ELSE request
  /\ UNCHANGED <<nextCursor, listed, after, seen>>

\* EventList, first half: list() under the lock, from the poller's position.
ListEvents ==
  /\ request = "idle"
  /\ claimed[Host] = 0
  /\ nextCursor < MaxEvents
  /\ listed' = List(after, Limit)
  /\ request' = "listed"
  /\ UNCHANGED <<nextCursor, claimed, events, after, seen>>

\* EventList, second half: cursor(); the answer goes to the poller once the main loop
\* has recorded the request itself.
ReadCursor ==
  /\ request = "listed"
  /\ after' = nextCursor
  /\ seen' = seen \union listed
  /\ request' = "answering"
  /\ UNCHANGED <<nextCursor, claimed, events, listed>>

HistoryNext ==
  \/ ListEvents
  \/ ReadCursor
  \/ \E t \in Threads : ClaimCursor(t) \/ PushEvent(t)

HistorySpec == HistoryInit /\ [][HistoryNext]_historyVars

--------------------------------------------------------------------------------
\* The shape of the state; the ring is within its bound.
HistoryTypeOK ==
  /\ nextCursor \in 0 .. MaxEvents
  /\ claimed \in [Threads -> 0 .. nextCursor]
  /\ events \in Seq(1 .. nextCursor)
  /\ Len(events) <= MaxHistory
  /\ request \in {"idle", "listed", "answering"}
  /\ listed \subseteq 1 .. nextCursor
  /\ after \in 0 .. nextCursor
  /\ seen \subseteq 1 .. nextCursor

Cursors == Range(events)
Claims  == {claimed[t] : t \in Threads} \ {0}

\* Every event whose cursor was handed out is in the ring or on its way there, exactly
\* once; only a full ring forgets one.
NoEventLost ==
  /\ Cursors \intersect Claims = {}
  /\ \A i, j \in DOMAIN events : events[i] = events[j] => i = j
  /\ Len(events) < MaxHistory => Cursors \union Claims = 1 .. nextCursor

\* A poller that resumes from the eventCursor of its last answer is never given the
\* same event twice, whatever order events are pushed in: the next answer holds none
\* it has seen.
NoneListedTwice ==
  /\ request = "listed" => listed \intersect seen = {}
  /\ request = "idle" => List(after, Limit) \intersect seen = {}

================================================================================
