------------------------------ MODULE Metering ------------------------------
(***************************************************************************)
(* How the calls of one workspace are counted (application/metering.ts)    *)
(* and billed (meterWindow, application/usage-report.ts).                  *)
(*                                                                         *)
(* A caller is one request in any replica; what callTool does between the  *)
(* quota check and the record is module ToolCall.  The record is one       *)
(* PostgreSQL transaction: now() is the instant it began, its event is     *)
(* seen by others once it commits, and its upsert of the month's counter   *)
(* holds that row until then.  The biller is external: it asks for one     *)
(* window at a time, may lose an answer and ask again, and feeds the       *)
(* "until" it gets back as the next "since".  The database clock runs      *)
(* forward in ticks of a fraction of a millisecond.                        *)
(***************************************************************************)
EXTENDS Naturals, FiniteSets

CONSTANTS
  Callers,
  Nobody,
  Quota,     \* workspaces.call_quota
  PerMs,     \* ticks of the database clock in a millisecond
  PerMonth,  \* ticks in a calendar month
  MaxTime,   \* the last tick
  MaxCalls   \* how many records are begun

ASSUME CallerAssumption == IsFiniteSet(Callers) /\ Callers # {} /\ Nobody \notin Callers
ASSUME ClockAssumption == PerMs \in Nat \ {0} /\ PerMonth \in Nat \ {0}
ASSUME BoundAssumption == Quota \in Nat /\ MaxTime \in Nat /\ MaxCalls \in Nat

VARIABLES
  now,      \* the database clock
  serial,   \* the sequence behind usage_events.id
  events,   \* usage_events, what is committed of it
  counter,  \* usage_counters: calls by month, 0 for no row
  holder,   \* by month: the transaction that holds the counter's row
  pc,       \* where each call stands
  event,    \* the event it has inserted
  calls,    \* what its upsert makes of the counter
  cursor,   \* the biller's next "since"
  window,   \* the answer on its way to the biller: none or one
  bill,     \* calls the biller has charged
  start,    \* history: the biller's first cursor
  covered,  \* history: the events in the windows it received
  late      \* history: events that committed behind a window's "until"

tables == <<serial, events, counter, holder>>
locals == <<event, calls>>
biller == <<cursor, window, bill, covered>>
vars == <<now, serial, events, counter, holder, pc, event, calls, cursor,
          window, bill, start, covered, late>>

Month(t) == t \div PerMonth
Millis(t) == t - (t % PerMs)          \* date_trunc, and what JSON keeps
Later(t, u) == IF t >= u THEN t ELSE u

Times == 0 .. MaxTime
Months == 0 .. Month(MaxTime)
Event == [id : Nat, created : Times]
Window == [until : Times, events : SUBSET Event]

Owns(c, m) == pc[c] = "counted" /\ Month(event[c].created) = m

TypeOK ==
  /\ now \in Times
  /\ serial \in 0 .. MaxCalls
  /\ events \subseteq Event
  /\ counter \in [Months -> Nat]
  /\ holder \in [Months -> Callers \cup {Nobody}]
  /\ pc \in [Callers -> {"idle", "calling", "inserted", "counted"}]
  /\ event \in [Callers -> Event]
  /\ calls \in [Callers -> Nat]
  /\ cursor \in Times
  /\ window \subseteq Window
  /\ bill \in Nat
  /\ start \in Times
  /\ covered \subseteq Event
  /\ late \subseteq Event
  \* a row lock belongs to the open transaction that took it
  /\ \A m \in Months, c \in Callers : holder[m] = c <=> Owns(c, m)

NoEvent == [id |-> 0, created |-> 0]

\* A first cursor may lie ahead of the database clock.
Init ==
  /\ now = 0
  /\ serial = 0
  /\ events = {}
  /\ counter = [m \in Months |-> 0]
  /\ holder = [m \in Months |-> Nobody]
  /\ pc = [c \in Callers |-> "idle"]
  /\ event = [c \in Callers |-> NoEvent]
  /\ calls = [c \in Callers |-> 0]
  /\ cursor \in {Millis(t) : t \in Times}
  /\ window = {}
  /\ bill = 0
  /\ start = cursor
  /\ covered = {}
  /\ late = {}

Goto(c, stage) == pc' = [pc EXCEPT ![c] = stage]

-----------------------------------------------------------------------------
(* A call *)

\* Mutant: the quota is refused only once it is exceeded.
CheckLoose(c) ==
  /\ pc[c] = "idle"
  /\ counter[Month(now)] <= Quota
  /\ Goto(c, "calling")
  /\ UNCHANGED <<now, tables, locals, biller, start, late>>

\* assertQuota reads this month's counter and lets the call pass; otherwise the
\* call throws and leaves no trace.
Check(c) ==
  /\ pc[c] = "idle"
  /\ counter[Month(now)] < Quota
  /\ Goto(c, "calling")
  /\ UNCHANGED <<now, tables, locals, biller, start, late>>

\* The call is served, or fails, and its record begins: BEGIN fixes now(), and
\* the insert draws an id, which no rollback gives back.
Insert(c) ==
  /\ pc[c] = "calling" /\ serial < MaxCalls
  /\ event' = [event EXCEPT ![c] = [id |-> serial, created |-> now]]
  /\ serial' = serial + 1
  /\ Goto(c, "inserted")
  /\ UNCHANGED <<now, events, counter, holder, calls, biller, start, late>>

\* Mutant: the counter is read, and written later, without its row held.
CountUnlocked(c) ==
  /\ pc[c] = "inserted"
  /\ calls' = [calls EXCEPT ![c] = counter[Month(event[c].created)] + 1]
  /\ Goto(c, "counted")
  /\ UNCHANGED <<now, tables, event, biller, start, late>>

\* The upsert waits for whoever holds the month's row, then adds to what it
\* committed.
Count(c) ==
  LET m == Month(event[c].created) IN
  /\ pc[c] = "inserted" /\ holder[m] = Nobody
  /\ holder' = [holder EXCEPT ![m] = c]
  /\ calls' = [calls EXCEPT ![c] = counter[m] + 1]
  /\ Goto(c, "counted")
  /\ UNCHANGED <<now, serial, events, counter, event, biller, start, late>>

\* What the biller knows, or is being told, ends at or after t.
Closed(t) == t <= cursor \/ \E w \in window : t <= w.until

\* COMMIT: the event and the counter are seen together.
Commit(c) ==
  LET m == Month(event[c].created) IN
  /\ pc[c] = "counted"
  /\ events' = events \cup {event[c]}
  /\ counter' = [counter EXCEPT ![m] = calls[c]]
  /\ holder' = [holder EXCEPT ![m] = Nobody]
  /\ late' = IF Closed(event[c].created) THEN late \cup {event[c]} ELSE late
  /\ Goto(c, "idle")
  /\ UNCHANGED <<now, serial, locals, biller, start>>

\* Mutant: a failed record leaves its transaction open.
RollbackLeft(c) ==
  /\ pc[c] # "idle"
  /\ Goto(c, "idle")
  /\ UNCHANGED <<now, tables, locals, biller, start, late>>

\* A query fails and the record is rolled back, which the client is not told;
\* or the replica dies, and PostgreSQL does the same.
Rollback(c) ==
  /\ pc[c] # "idle"
  /\ holder' = [m \in Months |-> IF holder[m] = c THEN Nobody ELSE holder[m]]
  /\ Goto(c, "idle")
  /\ UNCHANGED <<now, serial, events, counter, locals, biller, start, late>>

-----------------------------------------------------------------------------
(* The biller *)

\* Mutant: the window ends at the microsecond of its query.
UntilExact(since) == Later(since, now)

\* Mutant: the window ends at the database clock, also when that is behind.
UntilClock(since) == Millis(now)

\* Where a window that is asked for now ends.
Until(since) == Later(since, Millis(now))

\* Mutant: the window is exclusive at both ends.
InWindowOpen(e, since) == since < e.created /\ e.created < Until(since)

InWindow(e, since) == since < e.created /\ e.created <= Until(since)

\* meterWindow.  When since is ahead of the clock the window is empty.
Ask ==
  /\ window = {}
  /\ window' = {[until |-> Until(cursor),
                 events |-> {e \in events : InWindow(e, cursor)}]}
  /\ UNCHANGED <<now, tables, pc, locals, cursor, bill, start, covered, late>>

\* The biller charges the window and keeps its end, in milliseconds.
Receive ==
  \E w \in window :
    /\ bill' = bill + Cardinality(w.events)
    /\ cursor' = Millis(w.until)
    /\ covered' = covered \cup w.events
    /\ window' = {}
    /\ UNCHANGED <<now, tables, pc, locals, start, late>>

\* The answer is lost: the biller asks again from where it was.
Lose ==
  /\ window # {}
  /\ window' = {}
  /\ UNCHANGED <<now, tables, pc, locals, cursor, bill, start, covered, late>>

Tick ==
  /\ now < MaxTime
  /\ now' = now + 1
  /\ UNCHANGED <<tables, pc, locals, biller, start, late>>

-----------------------------------------------------------------------------

Next ==
  \/ \E c \in Callers :
       Check(c) \/ Insert(c) \/ Count(c) \/ Commit(c) \/ Rollback(c)
  \/ Ask \/ Receive \/ Lose
  \/ Tick

Spec == Init /\ [][Next]_vars

-----------------------------------------------------------------------------
(* Properties *)

\* "The event and the counter move together, so ... a counted call can never
\* lack its event" (metering.ts:20-21), whatever records race in a month, fail
\* half way or end in the next one.
CounterExact ==
  \A m \in Months :
    counter[m] = Cardinality({e \in events : Month(e.created) = m})

\* The quota is checked before the call and counted after it: calls that race
\* can pass it, by no more than there are of them, also over a month's end.
OvershootBounded == \A m \in Months : counter[m] <= Quota + Cardinality(Callers) - 1

\* No event is charged twice, with answers lost and asked for again and a
\* cursor that travels through JSON (usage-report.ts:84-91).
ChargedOnce == bill = Cardinality(covered)

\* Once the cursor has passed an event it has been charged, if it was there to
\* be counted: only one that commits behind a window is missed.
MissedOnlyLate ==
  \A e \in events \ late : start < e.created /\ e.created <= cursor => e \in covered

\* "GREATEST keeps a cursor from walking backwards" (usage-report.ts:92).
CursorForward == [][cursor' >= cursor]_vars

\* "every event is billed exactly once" (usage-report.ts:85-86): an event that
\* the cursor has passed has been charged.
EveryEventCharged ==
  \A e \in events : start < e.created /\ e.created <= cursor => e \in covered
=============================================================================
