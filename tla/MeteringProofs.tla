--------------------------- MODULE MeteringProofs ---------------------------
(***************************************************************************)
(* Proofs about Metering, for any number of callers, any quota and any     *)
(* length of a millisecond and of a month.                                 *)
(***************************************************************************)
EXTENDS Metering, FiniteSetTheorems, TLAPS

USE CallerAssumption, ClockAssumption, BoundAssumption

-----------------------------------------------------------------------------
(* The clock *)

LEMMA Division ==
  ASSUME NEW t \in Nat, NEW d \in Nat \ {0}
  PROVE  t \div d \in Nat /\ t % d \in 0 .. d - 1 /\ t = d * (t \div d) + (t % d)
OBVIOUS

LEMMA Quotient ==
  ASSUME NEW d \in Nat \ {0}, NEW p \in Nat, NEW q \in Nat,
         NEW r \in 0 .. d - 1, NEW s \in 0 .. d - 1, d * p + r = d * q + s
  PROVE  p = q /\ r = s
OBVIOUS

LEMMA MonthMonotone ==
  ASSUME NEW t \in Nat, NEW u \in Nat, t <= u
  PROVE  Month(t) \in Nat /\ Month(u) \in Nat /\ Month(t) <= Month(u)
BY DEF Month

\* A timestamp that has been through JSON once is not changed by it again.
LEMMA MillisKept ==
  ASSUME NEW t \in Nat
  PROVE  Millis(t) \in 0 .. t /\ Millis(Millis(t)) = Millis(t)
<1> DEFINE q == t \div PerMs
           u == t - (t % PerMs)
<1>1. q \in Nat /\ t % PerMs \in 0 .. PerMs - 1 /\ t = PerMs * q + (t % PerMs)
  BY Division
<1>2. u \in 0 .. t /\ u = PerMs * q + 0
  <2> HIDE DEF q
  <2>1. PerMs * q \in Nat
    BY <1>1
  <2> QED
    BY <1>1, <2>1
<1>3. u % PerMs = 0
  <2> HIDE DEF q, u
  <2>0. u \in Nat /\ PerMs \in Nat \ {0}
    BY <1>2
  <2>1. u \div PerMs \in Nat /\ u % PerMs \in 0 .. PerMs - 1 /\ u = PerMs * (u \div PerMs) + (u % PerMs)
    BY <2>0, Division, Zenon
  <2>2. 0 \in 0 .. PerMs - 1
    OBVIOUS
  <2> QED
    BY <1>1, <1>2, <2>1, <2>2, Quotient
<1> QED
  BY <1>2, <1>3 DEF Millis

LEMMA InMonths == \A t \in Times : Month(t) \in Months
BY MonthMonotone DEF Times, Months

-----------------------------------------------------------------------------
(* Types *)

Recording(c) == pc[c] \in {"inserted", "counted"}

\* A window has an end the biller can name, and finitely many events.
WindowsFit ==
  /\ Millis(cursor) = cursor
  /\ IsFiniteSet(events)
  /\ \A w \in window : /\ Millis(w.until) = w.until
                       /\ cursor <= w.until
                       /\ IsFiniteSet(w.events)
                       /\ \A e \in w.events : cursor < e.created /\ e.created <= w.until

LEMMA TypedInit == Init => TypeOK /\ WindowsFit
<1> SUFFICES ASSUME Init PROVE TypeOK /\ WindowsFit
  OBVIOUS
<1>1. PICK t \in Times : cursor = Millis(t)
  BY DEF Init
<1>2. cursor \in Times /\ Millis(cursor) = cursor
  BY <1>1, MillisKept DEF Times
<1>3. now \in Times /\ NoEvent \in Event
  BY DEF Init, Times, NoEvent, Event
<1>4. \A m \in Months, c \in Callers : holder[m] = c <=> Owns(c, m)
  BY DEF Init, Owns
<1> QED
  BY <1>2, <1>3, <1>4, FS_EmptySet DEF Init, TypeOK, WindowsFit

\* What a step of a call leaves to the biller.
LEMMA CallStep ==
  ASSUME TypeOK, NEW c \in Callers, Check(c) \/ Insert(c) \/ Count(c) \/ Commit(c) \/ Rollback(c)
  PROVE  TypeOK' /\ UNCHANGED <<now, cursor, window, bill, start, covered>>
<1> USE DEF biller, tables, locals, Goto
<1>1. UNCHANGED <<now, cursor, window, bill, start, covered>>
  BY DEF Check, Insert, Count, Commit, Rollback
<1>2. serial' \in 0 .. MaxCalls /\ pc' \in [Callers -> {"idle", "calling", "inserted", "counted"}]
  BY DEF TypeOK, Check, Insert, Count, Commit, Rollback
<1>7. Month(event[c].created) \in Months
  BY InMonths DEF TypeOK, Event
<1>8. calls' \in [Callers -> Nat]
  BY <1>7 DEF TypeOK, Check, Insert, Count, Commit, Rollback
<1>3. event' \in [Callers -> Event]
  BY DEF TypeOK, Event, Check, Insert, Count, Commit, Rollback
<1>4. events' \subseteq Event /\ late' \subseteq Event
  BY DEF TypeOK, Check, Insert, Count, Commit, Rollback
<1>5. counter' \in [Months -> Nat] /\ holder' \in [Months -> Callers \cup {Nobody}]
  BY DEF TypeOK, Check, Insert, Count, Commit, Rollback
<1>6. ASSUME NEW m \in Months, NEW d \in Callers
      PROVE  holder'[m] = d <=> Owns(d, m)'
  <2> USE DEF Owns, TypeOK
  <2>1. CASE Check(c) \/ Insert(c)
    BY <2>1 DEF Check, Insert
  <2>2. CASE Count(c)
    BY <2>2, InMonths DEF Count, Event
  <2>3. CASE Commit(c)
    BY <2>3, InMonths DEF Commit, Event
  <2>4. CASE Rollback(c)
    BY <2>4 DEF Rollback
  <2> QED
    BY <2>1, <2>2, <2>3, <2>4
<1> QED
  BY <1>1, <1>2, <1>3, <1>4, <1>5, <1>6, <1>8 DEF TypeOK

LEMMA UntilFits ==
  ASSUME TypeOK, WindowsFit
  PROVE  /\ Until(cursor) \in Times
         /\ cursor <= Until(cursor)
         /\ Millis(Until(cursor)) = Until(cursor)
<1>1. Millis(now) \in 0 .. now /\ Millis(Millis(now)) = Millis(now) /\ now \in 0 .. MaxTime
  BY MillisKept DEF TypeOK, Times
<1> QED
  BY <1>1 DEF TypeOK, Times, WindowsFit, Until, Later

LEMMA BillerStep ==
  ASSUME TypeOK, WindowsFit, Ask \/ Receive \/ Lose \/ Tick
  PROVE  TypeOK' /\ WindowsFit'
<1> USE DEF TypeOK, WindowsFit, tables, locals, biller, Owns
<1>1. CASE Ask
  <2> DEFINE asked == {e \in events : InWindow(e, cursor)}
  <2>1. window' = {[until |-> Until(cursor), events |-> asked]}
    BY <1>1 DEF Ask
  <2>2. asked \subseteq Event /\ IsFiniteSet(asked)
    BY FS_Subset
  <2>3. \A e \in asked : cursor < e.created /\ e.created <= Until(cursor)
    BY DEF InWindow
  <2>4. UNCHANGED <<now, serial, events, counter, holder, pc, event, calls, cursor, bill, start, covered, late>>
    BY <1>1 DEF Ask
  <2> HIDE DEF asked
  <2>5. window' \subseteq Window
    BY <2>1, <2>2, UntilFits DEF Window
  <2> QED
    BY <2>1, <2>2, <2>3, <2>4, <2>5, UntilFits
<1>2. CASE Receive
  <2>1. PICK w \in window : /\ bill' = bill + Cardinality(w.events)
                            /\ cursor' = Millis(w.until)
                            /\ covered' = covered \cup w.events
                            /\ window' = {}
                            /\ UNCHANGED <<now, tables, pc, locals, start, late>>
    BY <1>2 DEF Receive
  <2>2. w.until \in Times /\ w.events \subseteq Event /\ Cardinality(w.events) \in Nat
    BY FS_CardinalityType DEF Window
  <2> QED
    BY <2>1, <2>2
<1>3. CASE Lose
  BY <1>3 DEF Lose
<1>4. CASE Tick
  BY <1>4 DEF Tick, Times
<1> QED
  BY <1>1, <1>2, <1>3, <1>4

LEMMA TypedStep == TypeOK /\ WindowsFit /\ [Next]_vars => TypeOK' /\ WindowsFit'
<1> SUFFICES ASSUME TypeOK, WindowsFit, [Next]_vars PROVE TypeOK' /\ WindowsFit'
  OBVIOUS
<1>1. ASSUME NEW c \in Callers, Check(c) \/ Insert(c) \/ Count(c) \/ Commit(c) \/ Rollback(c)
      PROVE  TypeOK' /\ WindowsFit'
  <2>1. events' = events \/ events' = events \cup {event[c]}
    BY <1>1 DEF Check, Insert, Count, Commit, Rollback, tables
  <2>2. IsFiniteSet(events')
    BY <2>1, FS_AddElement DEF WindowsFit
  <2> QED
    BY <1>1, <2>2, CallStep DEF WindowsFit
<1>2. CASE UNCHANGED vars
  BY <1>2 DEF vars, TypeOK, WindowsFit, Owns
<1> QED
  BY <1>1, <1>2, BillerStep DEF Next

\* Metering: whatever races and fails, the tables are well formed, and a row
\* lock belongs to the open transaction that took it.
THEOREM TypeCorrect == Spec => []TypeOK
BY TypedInit, TypedStep, PTL DEF Spec

\* Metering: a cursor that comes back through JSON never walks backwards.
THEOREM CursorAdvances == Spec => CursorForward
<1>1. TypeOK /\ WindowsFit /\ [Next]_vars => [cursor' >= cursor]_vars
  <2> SUFFICES ASSUME TypeOK, WindowsFit, Next PROVE cursor' >= cursor
    OBVIOUS
  <2>1. CASE Receive
    BY <2>1 DEF Receive, WindowsFit
  <2>2. CASE ~Receive
    BY <2>2, CallStep DEF Next, Ask, Lose, Tick, TypeOK, Times, biller
  <2> QED
    BY <2>1, <2>2
<1> QED
  BY <1>1, TypedInit, TypedStep, PTL DEF Spec, CursorForward

-----------------------------------------------------------------------------
(* The counter and the events *)

\* Ids are drawn once: an open record has one that no event and no other open
\* record has.  No event is of the future.
Numbered ==
  /\ \A e \in events : e.id < serial /\ e.created <= now
  /\ \A c \in Callers : Recording(c) =>
       /\ event[c].id < serial /\ event[c].created <= now
       /\ \A e \in events : e.id # event[c].id
       /\ \A d \in Callers : Recording(d) /\ event[d].id = event[c].id => d = c

\* An open upsert adds one to what is committed.
UpsertFits ==
  \A c \in Callers : pc[c] = "counted" => calls[c] = counter[Month(event[c].created)] + 1

LEMMA NumberedStep ==
  ASSUME TypeOK, Numbered, [Next]_vars
  PROVE  Numbered'
<1> USE DEF TypeOK, Event, Times, Numbered, Recording, biller, tables, locals, Goto
<1>1. ASSUME NEW c \in Callers, Check(c) \/ Count(c) \/ Rollback(c) PROVE Numbered'
  BY <1>1 DEF Check, Count, Rollback
<1>2. ASSUME NEW c \in Callers, Insert(c) PROVE Numbered'
  <2>1. /\ pc[c] = "calling" /\ pc' = [pc EXCEPT ![c] = "inserted"]
        /\ serial' = serial + 1 /\ UNCHANGED <<now, events>>
        /\ event' = [event EXCEPT ![c] = [id |-> serial, created |-> now]]
    BY <1>2 DEF Insert
  <2>2. event'[c].id = serial /\ event'[c].created = now
    BY <2>1
  <2>3. \A d \in Callers : d # c => event'[d] = event[d] /\ pc'[d] = pc[d]
    BY <2>1
  <2> QED
    BY <2>1, <2>2, <2>3
<1>3. ASSUME NEW c \in Callers, Commit(c) PROVE Numbered'
  BY <1>3 DEF Commit
<1>4. CASE Ask \/ Receive \/ Lose
  BY <1>4 DEF Ask, Receive, Lose
<1>5. CASE Tick
  BY <1>5 DEF Tick
<1>6. CASE UNCHANGED vars
  BY <1>6 DEF vars
<1> QED
  BY <1>1, <1>2, <1>3, <1>4, <1>5, <1>6 DEF Next

\* The events of a month, and how they grow.
EventsOf(m) == {e \in events : Month(e.created) = m}

LEMMA CommitCounts ==
  ASSUME TypeOK, WindowsFit, Numbered, CounterExact, UpsertFits, NEW c \in Callers, Commit(c)
  PROVE  CounterExact'
<1> DEFINE k == Month(event[c].created)
<1>1. /\ pc[c] = "counted"
      /\ events' = events \cup {event[c]}
      /\ counter' = [counter EXCEPT ![k] = calls[c]]
  BY DEF Commit
<1>2. event[c] \notin events /\ calls[c] = counter[k] + 1
  BY <1>1 DEF Numbered, Recording, UpsertFits
<1> SUFFICES ASSUME NEW m \in Months
             PROVE  counter'[m] = Cardinality({e \in events' : Month(e.created) = m})
  BY DEF CounterExact
<1>3. IsFiniteSet(EventsOf(m)) /\ counter[m] = Cardinality(EventsOf(m))
  BY FS_Subset DEF EventsOf, WindowsFit, CounterExact
<1>4. CASE m = k
  <2>1. {e \in events' : Month(e.created) = m} = EventsOf(m) \cup {event[c]}
    BY <1>1, <1>4 DEF EventsOf
  <2>2. event[c] \notin EventsOf(m)
    BY <1>2 DEF EventsOf
  <2>3. Cardinality(EventsOf(m) \cup {event[c]}) = Cardinality(EventsOf(m)) + 1
    BY <1>3, <2>2, FS_AddElement
  <2> QED
    BY <1>1, <1>2, <1>3, <1>4, <2>1, <2>3 DEF TypeOK
<1>5. CASE m # k
  <2>1. {e \in events' : Month(e.created) = m} = EventsOf(m)
    BY <1>1, <1>5 DEF EventsOf
  <2>2. counter'[m] = counter[m]
    BY <1>1, <1>5 DEF TypeOK
  <2> QED
    BY <1>3, <2>1, <2>2
<1> QED
  BY <1>4, <1>5

LEMMA CounterStep ==
  ASSUME TypeOK, WindowsFit, Numbered, CounterExact, UpsertFits, [Next]_vars
  PROVE  CounterExact' /\ UpsertFits'
<1> USE DEF biller, tables, locals, Goto
<1>1. ASSUME NEW c \in Callers, Check(c) \/ Insert(c) \/ Count(c) \/ Rollback(c)
      PROVE  CounterExact' /\ UpsertFits'
  <2>1. UNCHANGED <<events, counter>>
    BY <1>1 DEF Check, Insert, Count, Rollback
  <2>2. CounterExact'
    BY <2>1 DEF CounterExact
  <2>3. UpsertFits'
    BY <1>1, <2>1 DEF TypeOK, UpsertFits, Check, Insert, Count, Rollback
  <2> QED
    BY <2>2, <2>3
<1>2. ASSUME NEW c \in Callers, Commit(c) PROVE CounterExact' /\ UpsertFits'
  <2> DEFINE k == Month(event[c].created)
  <2>1. /\ pc[c] = "counted" /\ pc' = [pc EXCEPT ![c] = "idle"]
        /\ counter' = [counter EXCEPT ![k] = calls[c]]
        /\ UNCHANGED <<event, calls>>
    BY <1>2 DEF Commit
  <2>2. ASSUME NEW d \in Callers, pc'[d] = "counted"
        PROVE  calls'[d] = counter'[Month(event'[d].created)] + 1
    <3> DEFINE m == Month(event[d].created)
    <3>1. d # c /\ pc[d] = "counted" /\ m \in Months
      BY <2>1, <2>2, InMonths DEF TypeOK, Event
    <3>2. m # k
      BY <2>1, <3>1 DEF TypeOK, Owns
    <3> QED
      BY <2>1, <3>1, <3>2 DEF TypeOK, UpsertFits
  <2> QED
    BY <1>2, <2>2, CommitCounts DEF UpsertFits
<1>3. CASE Ask \/ Receive \/ Lose \/ Tick \/ UNCHANGED vars
  <2>1. UNCHANGED <<events, counter, pc, event, calls>>
    BY <1>3 DEF Ask, Receive, Lose, Tick, vars
  <2> QED
    BY <2>1 DEF CounterExact, UpsertFits
<1> QED
  BY <1>1, <1>2, <1>3 DEF Next

CountInv == TypeOK /\ WindowsFit /\ Numbered /\ CounterExact /\ UpsertFits

LEMMA CountInit == Init => CountInv
<1> SUFFICES ASSUME Init PROVE CountInv
  OBVIOUS
<1>1. Numbered /\ UpsertFits
  BY DEF Init, Numbered, UpsertFits, Recording
<1>2. CounterExact
  <2> SUFFICES ASSUME NEW m \in Months
               PROVE  counter[m] = Cardinality({e \in events : Month(e.created) = m})
    BY DEF CounterExact
  <2>1. {e \in events : Month(e.created) = m} = {}
    BY DEF Init
  <2> QED
    BY <2>1, FS_EmptySet DEF Init
<1> QED
  BY <1>1, <1>2, TypedInit DEF CountInv

LEMMA CountStep == CountInv /\ [Next]_vars => CountInv'
BY TypedStep, NumberedStep, CounterStep DEF CountInv

\* Metering: whatever records race, fail or cross the end of a month, each
\* month's counter is the number of its events.
THEOREM CountsExactly == Spec => []CounterExact
<1>1. CountInv => CounterExact
  BY DEF CountInv
<1> QED
  BY <1>1, CountInit, CountStep, PTL DEF Spec

-----------------------------------------------------------------------------
(* The quota *)

\* The calls that may still count in a month: past its check, or recording.
Pending(m) ==
  {c \in Callers : \/ pc[c] = "calling" /\ m = Month(now)
                   \/ Recording(c) /\ Month(event[c].created) = m}

Within(m) == counter[m] + Cardinality(Pending(m)) <= Quota + Cardinality(Callers) - 1

\* A month that has not begun counts nothing, and a quota of none lets no call
\* pass.
QuotaInv ==
  /\ \A m \in Months : IF m > Month(now) THEN counter[m] = 0 ELSE Within(m)
  /\ Quota = 0 => \A c \in Callers : pc[c] = "idle"

LEMMA CallersCount ==
  ASSUME NEW S \in SUBSET Callers, NEW T \in SUBSET S
  PROVE  /\ IsFiniteSet(S) /\ IsFiniteSet(T)
         /\ Cardinality(S) \in Nat /\ Cardinality(T) \in Nat
         /\ Cardinality(T) <= Cardinality(S) /\ Cardinality(S) <= Cardinality(Callers)
         /\ Cardinality(Callers) \in Nat \ {0}
<1>1. IsFiniteSet(S) /\ IsFiniteSet(T) /\ Cardinality(S) <= Cardinality(Callers)
  BY FS_Subset
<1>2. Cardinality(T) <= Cardinality(S)
  BY <1>1, FS_Subset
<1>3. Cardinality(Callers) \in Nat \ {0}
  BY FS_CardinalityType, FS_EmptySet
<1> QED
  BY <1>1, <1>2, <1>3, FS_CardinalityType

\* Nothing new is pending and nothing is counted: the month stays within.
LEMMA WithinKept ==
  ASSUME TypeOK, NEW m \in Months, Within(m), counter'[m] = counter[m], Pending(m)' \subseteq Pending(m)
  PROVE  Within(m)'
<1>1. Pending(m) \in SUBSET Callers
  BY DEF Pending
<1>2. /\ Cardinality(Pending(m)) \in Nat /\ Cardinality(Pending(m)') \in Nat
      /\ Cardinality(Pending(m)') <= Cardinality(Pending(m))
      /\ Cardinality(Callers) \in Nat
  BY <1>1, CallersCount
<1> QED
  BY <1>2 DEF Within, TypeOK

LEMMA QuotaCheck ==
  ASSUME TypeOK, QuotaInv, NEW c \in Callers, Check(c)
  PROVE  QuotaInv'
<1>1. /\ counter[Month(now)] < Quota /\ pc[c] = "idle"
      /\ pc' = [pc EXCEPT ![c] = "calling"] /\ UNCHANGED <<now, counter, event>>
  BY DEF Check, Goto, tables, locals
<1>2. Quota # 0 /\ Month(now) \in Months /\ Month(now) \in Nat
  BY <1>1, InMonths DEF TypeOK, Months
<1> SUFFICES ASSUME NEW m \in Months, m <= Month(now)
             PROVE  Within(m)'
  BY <1>1, <1>2 DEF QuotaInv, Months
<1>3. CASE m = Month(now)
  <2>1. Pending(m)' \in SUBSET Callers
    BY DEF Pending
  <2>2. /\ Cardinality(Pending(m)') \in Nat /\ Cardinality(Callers) \in Nat
        /\ Cardinality(Pending(m)') <= Cardinality(Callers)
    BY <2>1, CallersCount
  <2> QED
    BY <1>1, <1>3, <2>2 DEF Within, TypeOK
<1>4. CASE m # Month(now)
  <2>1. Pending(m)' \subseteq Pending(m)
    BY <1>1, <1>4 DEF Pending, Recording, TypeOK
  <2>2. Within(m)
    BY <1>2 DEF QuotaInv, Months
  <2> QED
    BY <1>1, <2>1, <2>2, WithinKept
<1> QED
  BY <1>3, <1>4

LEMMA QuotaCommit ==
  ASSUME CountInv, QuotaInv, NEW c \in Callers, Commit(c)
  PROVE  QuotaInv'
<1> USE DEF CountInv
<1>0. PICK k \in Months : k = Month(event[c].created)
  BY InMonths DEF TypeOK, Event
<1>1. /\ pc[c] = "counted" /\ pc' = [pc EXCEPT ![c] = "idle"]
      /\ counter' = [counter EXCEPT ![k] = calls[c]] /\ UNCHANGED <<now, event>>
  BY <1>0 DEF Commit, Goto, locals
<1>2. calls[c] = counter[k] + 1
  BY <1>0, <1>1 DEF UpsertFits
<1>3. k <= Month(now) /\ Month(now) \in Nat
  <2>1. event[c].created \in Times /\ event[c].created <= now /\ now \in Times
    BY <1>1 DEF TypeOK, Numbered, Recording, Event
  <2> QED
    BY <1>0, <2>1, MonthMonotone DEF Times
<1>4. \A m \in Months : m # k => counter'[m] = counter[m]
  BY <1>1 DEF TypeOK
<1>5. \A m \in Months : Pending(m)' \subseteq Pending(m)
  BY <1>1 DEF Pending, Recording, TypeOK
<1>6. Within(k)'
  <2>1. Pending(k)' = Pending(k) \ {c} /\ c \in Pending(k) /\ Pending(k) \in SUBSET Callers
    BY <1>0, <1>1 DEF Pending, Recording, TypeOK
  <2>2. IsFiniteSet(Pending(k)) /\ Cardinality(Pending(k)) \in Nat /\ Cardinality(Callers) \in Nat
    BY <2>1, CallersCount
  <2>3. Cardinality(Pending(k)') = Cardinality(Pending(k)) - 1
    BY <2>1, <2>2, FS_RemoveElement
  <2>4. Within(k) /\ counter[k] \in Nat /\ counter'[k] = counter[k] + 1
    BY <1>1, <1>2, <1>3 DEF QuotaInv, TypeOK, Months
  <2> QED
    BY <2>2, <2>3, <2>4 DEF Within
<1>7. ASSUME NEW m \in Months
      PROVE  IF m > Month(now)' THEN counter'[m] = 0 ELSE Within(m)'
  <2>1. CASE m = k
    BY <1>1, <1>3, <1>6, <2>1 DEF Months
  <2>2. CASE m # k
    BY <1>1, <1>4, <1>5, <2>2, WithinKept DEF QuotaInv
  <2> QED
    BY <2>1, <2>2
<1> QED
  BY <1>1, <1>7 DEF QuotaInv, TypeOK

LEMMA QuotaTick ==
  ASSUME CountInv, QuotaInv, Tick
  PROVE  QuotaInv'
<1> USE DEF CountInv
<1>1. now' = now + 1 /\ now' \in Times /\ UNCHANGED <<counter, pc, event>>
  BY DEF Tick, TypeOK, Times, tables, locals
<1>2. Month(now) \in Nat /\ Month(now') \in Nat /\ Month(now) <= Month(now')
  BY <1>1, MonthMonotone DEF TypeOK, Times
<1>3. ASSUME NEW m \in Months
      PROVE  IF m > Month(now') THEN counter[m] = 0 ELSE Within(m)'
  <2>1. CASE m > Month(now')
    BY <1>2, <2>1 DEF QuotaInv, Months
  <2>2. CASE m <= Month(now)
    <3>1. Pending(m)' \subseteq Pending(m)
      BY <1>1, <1>2, <2>2 DEF Pending, Recording
    <3> QED
      BY <1>1, <1>2, <2>2, <3>1, WithinKept DEF QuotaInv, Months
  <2>3. CASE m > Month(now) /\ m <= Month(now')
    <3>1. counter'[m] = 0
      BY <1>1, <2>3 DEF QuotaInv
    <3>2. Pending(m)' \in SUBSET Callers
      BY DEF Pending
    <3>3. /\ Cardinality(Pending(m)') \in Nat /\ Cardinality(Callers) \in Nat \ {0}
          /\ Cardinality(Pending(m)') <= Cardinality(Callers)
      BY <3>2, CallersCount
    <3>4. ASSUME Quota = 0 PROVE Within(m)'
      <4>1. Pending(m)' = {}
        BY <1>1, <3>4 DEF QuotaInv, Pending, Recording
      <4> QED
        BY <3>1, <3>3, <3>4, <4>1, FS_EmptySet DEF Within
    <3>5. ASSUME Quota # 0 PROVE Within(m)'
      BY <3>1, <3>3, <3>5 DEF Within
    <3> QED
      BY <1>2, <2>3, <3>4, <3>5 DEF Months
  <2> QED
    BY <1>2, <2>1, <2>2, <2>3 DEF Months
<1> QED
  BY <1>1, <1>3 DEF QuotaInv

LEMMA QuotaStep == CountInv /\ QuotaInv /\ [Next]_vars => QuotaInv'
<1> SUFFICES ASSUME CountInv, QuotaInv, [Next]_vars PROVE QuotaInv'
  OBVIOUS
<1> USE DEF CountInv
<1>1. ASSUME UNCHANGED <<now, counter>>, \A m \in Months : Pending(m)' \subseteq Pending(m),
             Quota = 0 => \A c \in Callers : pc'[c] = "idle"
      PROVE  QuotaInv'
  BY <1>1, WithinKept DEF QuotaInv
<1>2. ASSUME NEW c \in Callers, Insert(c) PROVE QuotaInv'
  <2>1. /\ pc[c] = "calling" /\ pc' = [pc EXCEPT ![c] = "inserted"] /\ UNCHANGED <<now, counter>>
        /\ event' = [event EXCEPT ![c] = [id |-> serial, created |-> now]]
    BY <1>2 DEF Insert, Goto
  <2>2. \A d \in Callers : d # c => event'[d] = event[d] /\ pc'[d] = pc[d]
    BY <2>1 DEF TypeOK
  <2>3. event'[c].created = now
    BY <2>1 DEF TypeOK
  <2>4. \A m \in Months : Pending(m)' \subseteq Pending(m)
    BY <2>1, <2>2, <2>3 DEF Pending, Recording
  <2> QED
    BY <1>1, <2>1, <2>4 DEF QuotaInv
<1>3. ASSUME NEW c \in Callers, Count(c) PROVE QuotaInv'
  <2>1. pc[c] = "inserted" /\ pc' = [pc EXCEPT ![c] = "counted"] /\ UNCHANGED <<now, counter, event>>
    BY <1>3 DEF Count, Goto
  <2>2. \A m \in Months : Pending(m)' \subseteq Pending(m)
    BY <2>1 DEF Pending, Recording, TypeOK
  <2> QED
    BY <1>1, <2>1, <2>2 DEF QuotaInv
<1>4. ASSUME NEW c \in Callers, Rollback(c) PROVE QuotaInv'
  <2>1. pc' = [pc EXCEPT ![c] = "idle"] /\ UNCHANGED <<now, counter, event>>
    BY <1>4 DEF Rollback, Goto, locals
  <2>2. \A m \in Months : Pending(m)' \subseteq Pending(m)
    BY <2>1 DEF Pending, Recording, TypeOK
  <2> QED
    BY <1>1, <2>1, <2>2 DEF QuotaInv, TypeOK
<1>5. CASE Ask \/ Receive \/ Lose \/ UNCHANGED vars
  <2>1. UNCHANGED <<now, counter, pc, event>>
    BY <1>5 DEF Ask, Receive, Lose, vars, tables, locals
  <2>2. \A m \in Months : Pending(m)' \subseteq Pending(m)
    BY <2>1 DEF Pending, Recording
  <2> QED
    BY <1>1, <2>1, <2>2 DEF QuotaInv
<1> QED
  BY <1>2, <1>3, <1>4, <1>5, QuotaCheck, QuotaCommit, QuotaTick DEF Next

LEMMA QuotaInit == Init => QuotaInv
<1> SUFFICES ASSUME Init, NEW m \in Months PROVE counter[m] = 0 /\ Within(m)
  BY DEF Init, QuotaInv
<1>1. Pending(m) = {}
  BY DEF Init, Pending, Recording
<1>2. Cardinality(Callers) \in Nat \ {0}
  BY CallersCount
<1> QED
  BY <1>1, <1>2, FS_EmptySet DEF Init, Within

\* Metering: callers that race pass the quota by fewer calls than there are of
\* them, in any month, also when they have been let through in the one before.
THEOREM BoundsOvershoot == Spec => []OvershootBounded
<1>1. TypeOK /\ QuotaInv => OvershootBounded
  <2> SUFFICES ASSUME TypeOK, QuotaInv, NEW m \in Months
               PROVE  counter[m] <= Quota + Cardinality(Callers) - 1
    BY DEF OvershootBounded
  <2>1. Pending(m) \in SUBSET Callers
    BY DEF Pending
  <2>2. Cardinality(Pending(m)) \in Nat /\ Cardinality(Callers) \in Nat \ {0} /\ counter[m] \in Nat
    BY <2>1, CallersCount DEF TypeOK
  <2> QED
    BY <2>2 DEF QuotaInv, Within
<1>2. CountInv => TypeOK
  BY DEF CountInv
<1> QED
  BY <1>1, <1>2, CountInit, CountStep, QuotaInit, QuotaStep, PTL DEF Spec

-----------------------------------------------------------------------------
(* The bill *)

\* What is charged lies behind the cursor, and what is being answered ahead.
Charged ==
  /\ IsFiniteSet(covered) /\ bill = Cardinality(covered)
  /\ \A e \in covered : e.created <= cursor

\* A window on its way has every event between the cursor and its end, but for
\* those that committed after it was counted.
Complete ==
  /\ MissedOnlyLate
  /\ \A w \in window, e \in events \ late :
       cursor < e.created /\ e.created <= w.until => e \in w.events

BillInv == Charged /\ Complete

LEMMA DisjointUnion ==
  ASSUME NEW S, NEW T, IsFiniteSet(S), IsFiniteSet(T), S \cap T = {}
  PROVE  IsFiniteSet(S \cup T) /\ Cardinality(S \cup T) = Cardinality(S) + Cardinality(T)
<1>1. Cardinality(S) \in Nat /\ Cardinality(T) \in Nat /\ Cardinality(S \cap T) = 0
  BY FS_CardinalityType, FS_EmptySet
<1>2. /\ IsFiniteSet(S \cup T)
      /\ Cardinality(S \cup T) = Cardinality(S) + Cardinality(T) - Cardinality(S \cap T)
  BY FS_Union, Zenon
<1> QED
  BY ONLY <1>1, <1>2

LEMMA BillReceive ==
  ASSUME TypeOK, WindowsFit, BillInv, Receive
  PROVE  BillInv'
<1>1. PICK w \in window : /\ bill' = bill + Cardinality(w.events)
                          /\ cursor' = Millis(w.until)
                          /\ covered' = covered \cup w.events
                          /\ window' = {}
                          /\ UNCHANGED <<events, start, late>>
  BY DEF Receive, tables
<1>2. cursor' = w.until /\ cursor <= w.until /\ cursor \in Nat /\ w.until \in Nat
  BY <1>1 DEF WindowsFit, TypeOK, Window, Times
<1>3. Charged'
  <2>1. covered \cap w.events = {}
    BY DEF BillInv, Charged, WindowsFit, TypeOK, Event, Window, Times
  <2>2. /\ IsFiniteSet(covered \cup w.events)
        /\ Cardinality(covered \cup w.events) = Cardinality(covered) + Cardinality(w.events)
    <3>1. IsFiniteSet(covered) /\ IsFiniteSet(w.events)
      BY DEF BillInv, Charged, WindowsFit
    <3> QED
      BY ONLY <2>1, <3>1, DisjointUnion, Zenon
  <2>3. ASSUME NEW e \in covered \cup w.events PROVE e.created <= w.until
    BY <1>2 DEF BillInv, Charged, WindowsFit, TypeOK, Event, Window, Times
  <2> QED
    BY <1>1, <1>2, <2>2, <2>3 DEF BillInv, Charged
<1>4. Complete'
  <2> SUFFICES ASSUME NEW e \in events \ late, start < e.created, e.created <= w.until
               PROVE  e \in covered \cup w.events
    BY <1>1, <1>2 DEF Complete, MissedOnlyLate
  <2>1. e.created \in Nat
    BY DEF TypeOK, Event, Times
  <2> QED
    BY <1>2, <2>1 DEF BillInv, Complete, MissedOnlyLate
<1> QED
  BY <1>3, <1>4 DEF BillInv

LEMMA BillStep == TypeOK /\ WindowsFit /\ BillInv /\ [Next]_vars => BillInv'
<1> SUFFICES ASSUME TypeOK, WindowsFit, BillInv, [Next]_vars PROVE BillInv'
  OBVIOUS
<1> USE DEF tables, locals, biller
<1>1. ASSUME NEW c \in Callers, Check(c) \/ Insert(c) \/ Count(c) \/ Rollback(c) PROVE BillInv'
  <2>1. UNCHANGED <<events, late, cursor, window, bill, start, covered>>
    BY <1>1 DEF Check, Insert, Count, Rollback
  <2> QED
    BY <2>1 DEF BillInv, Charged, Complete, MissedOnlyLate
<1>2. ASSUME NEW c \in Callers, Commit(c) PROVE BillInv'
  <2>1. /\ events' = events \cup {event[c]}
        /\ late' = IF Closed(event[c].created) THEN late \cup {event[c]} ELSE late
        /\ UNCHANGED <<cursor, window, bill, start, covered>>
    BY <1>2 DEF Commit
  <2>2. event[c].created \in Times /\ cursor \in Times
    BY DEF TypeOK, Event
  <2>3. \A e \in events' \ late' : e \in events \ late \/ (e = event[c] /\ ~Closed(event[c].created))
    BY <2>1
  <2>4. Complete'
    BY <2>1, <2>3 DEF BillInv, Complete, MissedOnlyLate, Closed
  <2> QED
    BY <2>1, <2>4 DEF BillInv, Charged
<1>3. CASE Ask
  <2>1. /\ window' = {[until |-> Until(cursor), events |-> {e \in events : InWindow(e, cursor)}]}
        /\ UNCHANGED <<events, late, cursor, bill, start, covered>>
    BY <1>3 DEF Ask
  <2> QED
    BY <2>1 DEF BillInv, Charged, Complete, MissedOnlyLate, InWindow
<1>4. CASE Lose
  BY <1>4 DEF Lose, BillInv, Charged, Complete, MissedOnlyLate
<1>5. CASE Tick \/ UNCHANGED vars
  BY <1>5 DEF Tick, vars, BillInv, Charged, Complete, MissedOnlyLate
<1> QED
  BY <1>1, <1>2, <1>3, <1>4, <1>5, BillReceive DEF Next

LEMMA BillInit == Init => BillInv
BY FS_EmptySet DEF Init, BillInv, Charged, Complete, MissedOnlyLate

LEMMA BillHolds == Spec => []BillInv
BY TypedInit, TypedStep, BillInit, BillStep, PTL DEF Spec

\* Metering: with answers lost and asked for again, the bill is the number of
\* events in the windows received.
THEOREM ChargesOnce == Spec => []ChargedOnce
<1>1. BillInv => ChargedOnce
  BY DEF BillInv, Charged, ChargedOnce
<1> QED
  BY <1>1, BillHolds, PTL

\* Metering: an event that the cursor has passed is charged, unless it was not
\* committed when its window was counted.
THEOREM MissesOnlyLate == Spec => []MissedOnlyLate
<1>1. BillInv => MissedOnlyLate
  BY DEF BillInv, Complete
<1> QED
  BY <1>1, BillHolds, PTL
=============================================================================
