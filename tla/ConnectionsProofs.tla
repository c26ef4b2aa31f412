------------------------- MODULE ConnectionsProofs -------------------------
(***************************************************************************)
(* Proofs about Connections, for every set of runs, providers and states.  *)
(***************************************************************************)
EXTENDS Connections, TLAPS

USE NoneAssumption, GrantAssumption, BoundAssumption

-----------------------------------------------------------------------------
(* Type correctness *)

LEMMA TypeInit == Init => TypeOK
BY DEF Init, TypeOK, On, Stages

LEMMA TypeStep == TypeOK /\ [Next]_vars => TypeOK'
<1> SUFFICES ASSUME TypeOK, [Next]_vars PROVE TypeOK'
  OBVIOUS
<1> USE DEF TypeOK, Stages, Goto, Hold, Finish, Event, Crossing, Straying,
            GrantAt, stores, consents, locals
<1>1. ASSUME NEW r \in Runs, NEW p \in Prefixes, NEW s \in States, Begin(r, p, s)
      PROVE  TypeOK'
  BY <1>1 DEF Begin, ScopesForGrant, On
<1>2. ASSUME NEW r \in Runs, NEW s \in States, Consume(r, s)
      PROVE  TypeOK'
  <2>1. CASE Live(s) = {}
    BY <1>2, <2>1 DEF Consume, Delete
  <2>2. ASSUME NEW row \in Live(s), Redeem(r, row) PROVE TypeOK'
    BY <1>2, <2>2 DEF Consume, Delete, Redeem, Live, Row
  <2> QED
    BY <1>2, <2>1, <2>2 DEF Consume
<1>3. ASSUME NEW r \in Runs, NEW p \in Prefixes, SetKey(r, p) \/ Disable(r, p)
      PROVE  TypeOK'
  BY <1>3 DEF SetKey, Disable
<1>4. ASSUME NEW r \in Runs, NEW p \in Prefixes, Refresh(r, p)
      PROVE  TypeOK'
  BY <1>4 DEF Refresh
<1>5. ASSUME NEW r \in Runs, Put(r) PROVE TypeOK'
  BY <1>5 DEF Put, Row
<1>6. ASSUME NEW r \in Runs, Exchange(r) PROVE TypeOK'
  BY <1>6 DEF Exchange
<1>7. ASSUME NEW r \in Runs, Save(r) PROVE TypeOK'
  BY <1>7 DEF Save
<1>8. ASSUME NEW r \in Runs, Enable(r) PROVE TypeOK'
  BY <1>8 DEF Enable
<1>9. ASSUME NEW r \in Runs, Vote(r) PROVE TypeOK'
  BY <1>9 DEF Vote
<1>10. ASSUME NEW r \in Runs, Drop(r) PROVE TypeOK'
  BY <1>10 DEF Drop
<1>11. ASSUME NEW r \in Runs, RefreshSave(r) PROVE TypeOK'
  BY <1>11 DEF RefreshSave
<1>12. ASSUME NEW r \in Runs, Stop(r) PROVE TypeOK'
  BY <1>12 DEF Stop
<1>13. ASSUME NEW row \in rows, ExpireState(row) PROVE TypeOK'
  BY <1>13 DEF ExpireState, Row
<1>14. CASE UNCHANGED vars
  BY <1>14 DEF vars
<1> QED
  BY <1>1, <1>2, <1>3, <1>4, <1>5, <1>6, <1>7, <1>8, <1>9, <1>10, <1>11,
     <1>12, <1>13, <1>14 DEF Next

\* Every reachable state is well typed, and a run under way knows its provider.
THEOREM TypeCorrect == Spec => []TypeOK
BY TypeInit, TypeStep, PTL DEF Spec

-----------------------------------------------------------------------------
(* One consent, one exchange *)

LEMMA TradeInit == Init => TradeInv
BY DEF Init, TradeInv, InHand

\* Runs that touch no state leave the states in hand to the others.
LEMMA TradeKept ==
  ASSUME TypeOK, TradeInv, UNCHANGED <<drawn, traded>>, rows' \subseteq rows,
         \A r \in Runs : r \in InHand' => r \in InHand /\ with'[r] = with[r]
  PROVE  TradeInv'
BY DEF TradeInv, InHand

LEMMA TradeStep ==
  ASSUME TypeOK, TradeInv, [Next]_vars
  PROVE  TradeInv'
<1> USE DEF TypeOK, Goto, Hold, Finish, consents, locals
<1>1. ASSUME NEW r \in Runs, NEW p \in Prefixes, NEW s \in States, Begin(r, p, s)
      PROVE  TradeInv'
  BY <1>1 DEF Begin, TradeInv, InHand
<1>2. ASSUME NEW r \in Runs, NEW s \in States, Consume(r, s)
      PROVE  TradeInv'
  <2>1. CASE Live(s) = {}
    BY <1>2, <2>1, TradeKept DEF Consume, Delete, InHand
  <2>2. ASSUME NEW row \in Live(s), Redeem(r, row) PROVE TradeInv'
    BY <1>2, <2>2 DEF Consume, Delete, Redeem, Live, TradeInv, InHand
  <2> QED
    BY <1>2, <2>1, <2>2 DEF Consume
<1>3. ASSUME NEW r \in Runs, NEW p \in Prefixes,
             SetKey(r, p) \/ Disable(r, p) \/ Refresh(r, p)
      PROVE  TradeInv'
  BY <1>3, TradeKept DEF SetKey, Disable, Refresh, InHand
<1>4. ASSUME NEW r \in Runs, Put(r) PROVE TradeInv'
  BY <1>4 DEF Put, TradeInv, InHand
<1>5. ASSUME NEW r \in Runs, Exchange(r) PROVE TradeInv'
  BY <1>5 DEF Exchange, TradeInv, InHand
<1>6. ASSUME NEW r \in Runs,
             \/ Save(r) \/ Enable(r) \/ Vote(r) \/ Drop(r) \/ RefreshSave(r)
             \/ Stop(r)
      PROVE  TradeInv'
  BY <1>6, TradeKept DEF Save, Enable, Vote, Drop, RefreshSave, Stop, InHand
<1>7. ASSUME NEW row \in rows, ExpireState(row) PROVE TradeInv'
  BY <1>7, TradeKept DEF ExpireState, InHand
<1>8. CASE UNCHANGED vars
  BY <1>8, TradeKept DEF vars, InHand
<1> QED
  BY <1>1, <1>2, <1>3, <1>4, <1>5, <1>6, <1>7, <1>8 DEF Next

\* However many callbacks arrive with the state of one consent, its code is
\* sent to the vendor once (state-store.ts:27-35).
THEOREM TradesOnce == Spec => []TradedOnce
<1>1. TypeOK /\ TradeInv /\ [Next]_vars => (TypeOK /\ TradeInv)'
  BY TypeStep, TradeStep
<1>2. TradeInv => TradedOnce
  BY DEF TradeInv, InHand, TradedOnce
<1> QED
  BY <1>1, <1>2, TypeInit, TradeInit, PTL DEF Spec

-----------------------------------------------------------------------------
(* No tokens are left behind *)

LEMMA OrphanInit == Init => NoOrphan
BY DEF Init, NoOrphan

LEMMA OrphanStep ==
  ASSUME TypeOK, NoOrphan, [Next]_vars
  PROVE  NoOrphan'
<1> USE DEF TypeOK, Goto, Hold, Finish, stores, consents, locals, GrantAt,
            Disconnecting
<1>1. ASSUME NEW r \in Runs, UNCHANGED <<enabled, tokens, strayed>>,
             pc[r] \notin Disconnecting \cup {"enabling"},
             \A q \in Runs \ {r} : pc'[q] = pc[q] /\ at'[q] = at[q]
      PROVE  NoOrphan'
  BY <1>1 DEF NoOrphan, Busy
<1>2. ASSUME NEW r \in Runs,
             \/ \E p \in Prefixes, s \in States : Begin(r, p, s)
             \/ \E p \in Prefixes : SetKey(r, p) \/ Refresh(r, p)
             \/ Put(r) \/ Exchange(r)
      PROVE  NoOrphan'
  BY <1>1, <1>2 DEF Begin, SetKey, Refresh, Put, Exchange
<1>3. ASSUME NEW r \in Runs, NEW s \in States, Consume(r, s)
      PROVE  NoOrphan'
  BY <1>1, <1>3 DEF Consume, Redeem
<1>4. ASSUME NEW r \in Runs, NEW p \in Prefixes, Disable(r, p) PROVE NoOrphan'
  BY <1>4 DEF Disable, NoOrphan, Busy, On
<1>5. ASSUME NEW r \in Runs, Save(r) PROVE NoOrphan'
  BY <1>5 DEF Save, NoOrphan, Busy, On
<1>6. ASSUME NEW r \in Runs, Enable(r) PROVE NoOrphan'
  BY <1>6 DEF Enable, NoOrphan, Busy, On
<1>7. ASSUME NEW r \in Runs, Vote(r) PROVE NoOrphan'
  BY <1>7 DEF Vote, NoOrphan, Busy, On
<1>8. ASSUME NEW r \in Runs, Drop(r) PROVE NoOrphan'
  BY <1>8 DEF Drop, NoOrphan, Busy, On
<1>9. ASSUME NEW r \in Runs, RefreshSave(r) PROVE NoOrphan'
  BY <1>9 DEF RefreshSave, NoOrphan, Busy, On, Straying
<1>10. ASSUME NEW r \in Runs, Stop(r) PROVE NoOrphan'
  BY <1>10 DEF Stop, NoOrphan, Busy, On, Straying
<1>11. ASSUME NEW row \in rows, ExpireState(row) PROVE NoOrphan'
  BY <1>11 DEF ExpireState, NoOrphan, Busy
<1>12. CASE UNCHANGED vars
  BY <1>12 DEF vars, NoOrphan, Busy
<1> QED
  BY <1>2, <1>3, <1>4, <1>5, <1>6, <1>7, <1>8, <1>9, <1>10, <1>11, <1>12
     DEF Next

\* However connects and disconnects interleave, tokens that no provider uses
\* are about to be dropped or to be used.
THEOREM LeavesNoOrphan == Spec => []NoOrphan
<1>1. TypeOK /\ NoOrphan /\ [Next]_vars => (TypeOK /\ NoOrphan)'
  BY TypeStep, OrphanStep
<1> QED
  BY <1>1, TypeInit, OrphanInit, PTL DEF Spec

-----------------------------------------------------------------------------
(* Enabled providers have tokens that cover them *)

UseAt(g) == CoverInv(g) /\ AloneInv(g)

\* A grant keeps its part of the invariant when its tokens stay, nothing new is
\* enabled on it or asked for it, and its runs stay where they are or end.
LEMMA UseKept ==
  ASSUME TypeOK, TypeOK', NEW g \in Grants, UseAt(g),
         tokens'[g] = tokens[g],
         Used(g)' \subseteq Used(g),
         LiveRows(g)' \subseteq LiveRows(g),
         \A r \in Runs : pc'[r] # "idle" /\ GrantAt(r)' = g =>
           pc'[r] = pc[r] /\ at'[r] = at[r] /\ got'[r] = got[r]
  PROVE  UseAt(g)'
<1> USE DEF UseAt, At, GrantAt, Connecting, Disconnecting
<1>1. \A S \in SUBSET (Stages \ {"idle"}) : At(g, S)' \subseteq At(g, S)
  OBVIOUS
<1>2. CoverInv(g)'
  BY DEF CoverInv
<1>3. AloneInv(g)'
  BY DEF AloneInv
<1> QED
  BY <1>2, <1>3

\* Nobody but r moves, and what r works on stays within one grant h.
LEMMA UseElsewhere ==
  ASSUME TypeOK, TypeOK', NEW g \in Grants, UseAt(g), NEW r \in Runs,
         \A q \in Runs \ {r} : pc'[q] = pc[q] /\ at'[q] = at[q] /\ got'[q] = got[q],
         pc'[r] # "idle" => GrantAt(r)' # g,
         tokens'[g] = tokens[g],
         Used(g)' \subseteq Used(g),
         LiveRows(g)' \subseteq LiveRows(g)
  PROVE  UseAt(g)'
BY UseKept

LEMMA UseBegin ==
  ASSUME TypeOK, TypeOK', NEW g \in Grants \ crossed', UseAt(g),
         NEW r \in Runs, NEW p \in Prefixes, NEW s \in States, Begin(r, p, s)
  PROVE  UseAt(g)'
<1> USE DEF TypeOK, Begin, Goto, Hold, GrantAt, stores
<1>1. CASE GrantOf[p] # g
  BY <1>1, UseElsewhere DEF Used, On, LiveRows
<1>2. CASE GrantOf[p] = g
  <2>1. /\ LiveRows(g) = {} /\ LiveRows(g)' = {}
        /\ \A q \in Runs : GrantAt(q) = g => pc[q] \notin Connecting \cup {"putting"}
    BY <1>2 DEF Crossing, Pending, Busy, LiveRows, Connecting
  <2>2. Used(g)' = Used(g) /\ tokens' = tokens
    BY DEF Used, On
  <2>3. CoverInv(g)'
    BY <1>2, <2>1, <2>2
       DEF UseAt, CoverInv, At, Connecting, ScopesForGrant, Used
  <2>4. AloneInv(g)'
    BY <1>2, <2>1 DEF UseAt, AloneInv, At, Connecting, Disconnecting
  <2> QED
    BY <2>3, <2>4 DEF UseAt
<1> QED
  BY <1>1, <1>2

LEMMA UsePut ==
  ASSUME TypeOK, TypeOK', NEW g \in Grants, UseAt(g), NEW r \in Runs, Put(r)
  PROVE  UseAt(g)'
<1> USE DEF TypeOK, Put, Goto, Hold, Finish, GrantAt, stores
<1>1. CASE GrantAt(r) # g
  BY <1>1, UseElsewhere DEF Used, On, LiveRows
<1>2. CASE GrantAt(r) = g
  <2>1. /\ LiveRows(g) = {}
        /\ LiveRows(g)' \subseteq
             {[state |-> with[r], prefix |-> at[r], scopes |-> got[r]]}
        /\ \A q \in Runs \ {r} :
             GrantAt(q) = g => pc[q] \notin Connecting \cup {"putting"}
    BY <1>2 DEF UseAt, AloneInv, At, LiveRows, Connecting
  <2>2. CoverInv(g)'
    BY <1>2, <2>1 DEF UseAt, CoverInv, At, Connecting, Used, On
  <2>3. AloneInv(g)'
    BY <1>2, <2>1 DEF UseAt, AloneInv, At, Connecting, Disconnecting
  <2> QED
    BY <2>2, <2>3 DEF UseAt
<1> QED
  BY <1>1, <1>2

LEMMA UseConsume ==
  ASSUME TypeOK, TypeOK', NEW g \in Grants \ crossed', UseAt(g),
         NEW r \in Runs, NEW s \in States, Consume(r, s)
  PROVE  UseAt(g)'
<1> USE DEF TypeOK, Consume, Delete, Goto, Hold, GrantAt, stores, locals
<1>0. LiveRows(g)' \subseteq LiveRows(g)
  BY DEF LiveRows
<1>1. CASE Live(s) = {}
  BY <1>0, <1>1, UseKept DEF Used, On, Redeem
<1>2. ASSUME NEW row \in Live(s), Redeem(r, row) PROVE UseAt(g)'
  <2>1. CASE GrantOf[row.prefix] # g
    BY <1>0, <1>2, <2>1, UseElsewhere DEF Used, On, Redeem
  <2>2. CASE GrantOf[row.prefix] = g
    <3>1. row \in LiveRows(g) /\ row \notin rows'
      BY <1>2, <2>2 DEF Live, LiveRows
    <3>2. /\ LiveRows(g)' = {}
          /\ \A q \in Runs : GrantAt(q) = g => pc[q] \notin Stages \ {"idle"}
      BY <1>0, <1>2, <2>2, <3>1
         DEF UseAt, AloneInv, At, LiveRows, Redeem, Crossing, Busy, Stages,
             Connecting, Disconnecting
    <3>3. CoverInv(g)'
      BY <1>2, <2>2, <3>1, <3>2
         DEF UseAt, CoverInv, At, Redeem, Stages, Connecting, Used, On
    <3>4. AloneInv(g)'
      BY <1>2, <2>2, <3>2
         DEF UseAt, AloneInv, At, Redeem, Stages, Connecting, Disconnecting
    <3> QED
      BY <3>3, <3>4 DEF UseAt
  <2> QED
    BY <2>1, <2>2
<1> QED
  BY <1>1, <1>2

LEMMA UseExchange ==
  ASSUME TypeOK, TypeOK', NEW g \in Grants, UseAt(g), NEW r \in Runs, Exchange(r)
  PROVE  UseAt(g)'
<1> USE DEF TypeOK, Exchange, Goto, Hold, Finish, GrantAt, stores, consents, locals
<1>1. CASE pc'[r] = "idle" \/ GrantAt(r) # g
  BY <1>1, UseKept DEF Used, On, LiveRows
<1>2. CASE pc'[r] = "saving" /\ GrantAt(r) = g
  BY <1>2 DEF UseAt, CoverInv, AloneInv, At, LiveRows, Used, On, Connecting,
              Disconnecting
<1> QED
  BY <1>1, <1>2

LEMMA UseSave ==
  ASSUME TypeOK, TypeOK', NEW g \in Grants, UseAt(g), NEW r \in Runs, Save(r)
  PROVE  UseAt(g)'
<1> USE DEF TypeOK, Save, Goto, GrantAt, consents, locals
<1>1. CASE GrantAt(r) # g
  BY <1>1, UseElsewhere DEF Used, On, LiveRows
<1>2. CASE GrantAt(r) = g
  BY <1>2 DEF UseAt, CoverInv, AloneInv, At, LiveRows, Used, On, Connecting,
              Disconnecting
<1> QED
  BY <1>1, <1>2

LEMMA UseEnable ==
  ASSUME TypeOK, TypeOK', NEW g \in Grants, UseAt(g), NEW r \in Runs, Enable(r)
  PROVE  UseAt(g)'
<1> USE DEF TypeOK, Enable, Goto, Hold, Finish, GrantAt, consents
<1>1. CASE GrantAt(r) # g
  BY <1>1, UseElsewhere DEF Used, On, LiveRows
<1>2. CASE GrantAt(r) = g
  <2>1. /\ LiveRows(g)' = {}
        /\ \A q \in Runs : GrantAt(q)' = g => pc'[q] \in {"idle"}
    BY <1>2 DEF UseAt, AloneInv, At, LiveRows, Connecting, Disconnecting, Stages
  <2>2. Used(g)' \subseteq tokens'[g]
    BY <1>2 DEF UseAt, CoverInv, At, Used, On, Connecting
  <2> QED
    BY <2>1, <2>2 DEF UseAt, CoverInv, AloneInv, At, Connecting, Disconnecting
<1> QED
  BY <1>1, <1>2

LEMMA UseSetKey ==
  ASSUME TypeOK, TypeOK', KeyInv, NEW g \in Grants \ crossed', UseAt(g),
         NEW r \in Runs, NEW p \in Prefixes, SetKey(r, p)
  PROVE  UseAt(g)'
<1> USE DEF TypeOK, SetKey, Goto, Hold, GrantAt, stores, consents
<1>1. CASE GrantOf[p] # g
  BY <1>1, UseElsewhere DEF Used, On, LiveRows
<1>2. CASE GrantOf[p] = g
  <2>1. On(g) = {p}
    BY <1>2, KeyAssumption DEF On
  <2>2. /\ LiveRows(g) = {} /\ LiveRows(g)' = {}
        /\ \A q \in Runs : GrantAt(q) = g => pc[q] \in {"idle"}
    BY <1>2, KeyAssumption
       DEF KeyInv, LiveRows, Row, Crossing, Busy, Connecting, Disconnecting, Stages
  <2>3. CoverInv(g)'
    BY <1>2, <2>1, <2>2
       DEF UseAt, CoverInv, At, Connecting, Used, On
  <2>4. AloneInv(g)'
    BY <1>2, <2>2 DEF AloneInv, At, Connecting, Disconnecting
  <2> QED
    BY <2>3, <2>4 DEF UseAt
<1> QED
  BY <1>1, <1>2

LEMMA UseDisable ==
  ASSUME TypeOK, TypeOK', NEW g \in Grants \ crossed', UseAt(g),
         NEW r \in Runs, NEW p \in Prefixes, Disable(r, p)
  PROVE  UseAt(g)'
<1> USE DEF TypeOK, Disable, Goto, Hold, GrantAt, consents
<1>1. CASE GrantOf[p] # g
  BY <1>1, UseElsewhere DEF Used, On, LiveRows
<1>2. CASE GrantOf[p] = g
  <2>1. At(g, Connecting) = {} /\ At(g, Connecting)' = {}
    BY <1>2 DEF Crossing, Busy, At, Connecting
  <2>2. Used(g)' \subseteq Used(g) /\ tokens' = tokens
    BY DEF Used
  <2>3. CoverInv(g)'
    BY <1>2, <2>1, <2>2 DEF UseAt, CoverInv, At, Connecting, LiveRows
  <2>4. AloneInv(g)'
    BY <1>2, <2>1 DEF UseAt, AloneInv, At, Connecting, Disconnecting, LiveRows
  <2> QED
    BY <2>3, <2>4 DEF UseAt
<1> QED
  BY <1>1, <1>2

LEMMA UseVote ==
  ASSUME TypeOK, TypeOK', NEW g \in Grants, UseAt(g), NEW r \in Runs, Vote(r)
  PROVE  UseAt(g)'
<1> USE DEF TypeOK, Vote, Goto, Hold, Finish, GrantAt, stores, consents, locals
<1>1. CASE pc'[r] = "idle" \/ GrantAt(r) # g
  BY <1>1, UseKept DEF Used, On, LiveRows
<1>2. CASE pc'[r] = "dropping" /\ GrantAt(r) = g
  BY <1>2 DEF UseAt, CoverInv, AloneInv, At, LiveRows, Used, On, Connecting,
              Disconnecting
<1> QED
  BY <1>1, <1>2

LEMMA UseDrop ==
  ASSUME TypeOK, TypeOK', NEW g \in Grants, UseAt(g), NEW r \in Runs, Drop(r)
  PROVE  UseAt(g)'
<1> USE DEF TypeOK, Drop, Goto, Hold, Finish, GrantAt, consents
<1>1. CASE GrantAt(r) # g
  BY <1>1, UseElsewhere DEF Used, On, LiveRows
<1>2. CASE GrantAt(r) = g
  BY <1>2 DEF UseAt, CoverInv, AloneInv, At, LiveRows, Used, On, Connecting,
              Disconnecting
<1> QED
  BY <1>1, <1>2

LEMMA UseRefresh ==
  ASSUME TypeOK, TypeOK', NEW g \in Grants \ crossed', UseAt(g),
         NEW r \in Runs, NEW p \in Prefixes, Refresh(r, p)
  PROVE  UseAt(g)'
<1> USE DEF TypeOK, Refresh, Goto, Hold, GrantAt, stores, consents
<1>1. CASE GrantOf[p] # g
  BY <1>1, UseElsewhere DEF Used, On, LiveRows
<1>2. CASE GrantOf[p] = g
  <2>1. At(g, Connecting) = {} /\ At(g, Connecting)' = {}
    BY <1>2 DEF Crossing, Busy, At, Connecting
  <2>2. CoverInv(g)'
    BY <1>2, <2>1 DEF UseAt, CoverInv, At, Connecting, LiveRows, Used, On
  <2>3. AloneInv(g)'
    BY <1>2, <2>1 DEF UseAt, AloneInv, At, Connecting, Disconnecting, LiveRows
  <2> QED
    BY <2>2, <2>3 DEF UseAt
<1> QED
  BY <1>1, <1>2

LEMMA UseRefreshSave ==
  ASSUME TypeOK, TypeOK', NEW g \in Grants, UseAt(g), NEW r \in Runs, RefreshSave(r)
  PROVE  UseAt(g)'
<1> USE DEF TypeOK, RefreshSave, Goto, Hold, Finish, GrantAt, consents
<1>1. CASE GrantAt(r) # g
  BY <1>1, UseElsewhere DEF Used, On, LiveRows
<1>2. CASE GrantAt(r) = g
  BY <1>2 DEF UseAt, CoverInv, AloneInv, At, LiveRows, Used, On, Connecting,
              Disconnecting
<1> QED
  BY <1>1, <1>2

LEMMA KeyStep ==
  ASSUME TypeOK, KeyInv, [Next]_vars
  PROVE  KeyInv'
BY DEF KeyInv, TypeOK, Next, Begin, Consume, Redeem, Delete, SetKey, Disable,
       Refresh, Put, Exchange, Save, Enable, Vote, Drop, RefreshSave, Stop,
       ExpireState, vars, Goto, Hold, Finish, consents, locals

LEMMA UseInit == Init => UseInv
BY DEF Init, UseInv, KeyInv, CoverInv, AloneInv, At, LiveRows, Used, On, Connecting,
       Disconnecting

LEMMA UseStep ==
  ASSUME TypeOK, TypeOK', UseInv, [Next]_vars
  PROVE  UseInv'
<1>1. KeyInv'
  BY KeyStep DEF UseInv
<1>2. crossed \subseteq crossed'
  BY DEF Next, Begin, Consume, Redeem, SetKey, Disable, Refresh, Put, Exchange,
         Save, Enable, Vote, Drop, RefreshSave, Stop, ExpireState, vars, Crossing
<1>3. ASSUME NEW g \in Grants \ crossed' PROVE UseAt(g)'
  <2>1. UseAt(g) /\ KeyInv
    BY <1>2, <1>3 DEF UseInv, UseAt
  <2>2. ASSUME NEW r \in Runs, Stop(r) PROVE UseAt(g)'
    BY <1>3, <2>1, <2>2, UseKept
       DEF Stop, TypeOK, Goto, Hold, Finish, stores, consents, Used, On, LiveRows, GrantAt
  <2>3. ASSUME NEW row \in rows, ExpireState(row) PROVE UseAt(g)'
    BY <1>3, <2>1, <2>3, UseKept
       DEF ExpireState, stores, locals, Used, On, LiveRows, GrantAt
  <2>4. CASE UNCHANGED vars
    BY <1>3, <2>1, <2>4, UseKept DEF vars, Used, On, LiveRows, GrantAt
  <2> QED
    BY <1>3, <2>1, <2>2, <2>3, <2>4, UseBegin, UsePut, UseConsume, UseExchange,
       UseSave, UseEnable, UseSetKey, UseDisable, UseVote, UseDrop, UseRefresh,
       UseRefreshSave DEF Next
<1> QED
  BY <1>1, <1>3 DEF UseInv, UseAt

\* As long as no connect of a grant has crossed another run, every enabled
\* provider has stored tokens with its scopes, at every moment and whichever
\* runs stopped half way (connections.ts:76-82 and 165-166).
THEOREM KeepsUsable == Spec => []Usable
<1>1. TypeOK /\ UseInv /\ [Next]_vars => (TypeOK /\ UseInv)'
  BY TypeStep, UseStep
<1>2. TypeOK /\ UseInv => Usable
  BY DEF TypeOK, UseInv, CoverInv, Used, On, Usable
<1> QED
  BY <1>1, <1>2, TypeInit, UseInit, PTL DEF Spec
=============================================================================
