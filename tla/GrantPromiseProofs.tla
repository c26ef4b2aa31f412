------------------------- MODULE GrantPromiseProofs -------------------------
(***************************************************************************)
(* GrantRefresh implements GrantPromise: until the first disturbance of    *)
(* the grant, refreshing it under the lock is one atomic step.             *)
(***************************************************************************)
EXTENDS GrantRefreshProofs

USE DEF NoToken

\* Events are never uncounted, so a step that ends undisturbed began so, and
\* was none of the events that disturb.
LEMMA DisturbedStep ==
  ASSUME TypeOK, [Next]_vars, ~Disturbed'
  PROVE  /\ ~Disturbed /\ Undisturbed
         /\ \A c \in Callers : ~Crash(c) /\ ~SaveFails(c) /\ ~QueryFails(c)
         /\ ~Drop /\ ~ExchangeCode
<1> USE DEF Kinds
<1>1. \A k \in Disturbances : k \in Kinds /\ used'[k] = 0 /\ used[k] \in Nat
  <2>1. used' \in [Kinds -> Nat] /\ used \in [Kinds -> Nat]
    BY TypeStep DEF TypeOK
  <2> QED
    BY <2>1 DEF Disturbed, Disturbances
<1>2. \A k \in Disturbances : used[k] = 0 /\ ~Count(k)
  BY <1>1, UsedStep, CountedOnce DEF TypeOK
<1>3. ~Disturbed /\ Undisturbed
  BY <1>2 DEF Disturbed, Undisturbed, Disturbances
<1>4. /\ ~Count("drop") /\ ~Count("crash") /\ ~Count("dberr")
      /\ ~Count("consent") /\ ~Count("bare")
  BY <1>2 DEF Disturbances
<1>5. ~ExchangeCode
  BY <1>4 DEF ExchangeCode
<1> QED
  BY <1>3, <1>4, <1>5 DEF Crash, SaveFails, QueryFails, Drop

LEMMA AskStep ==
  ASSUME TypeOK, RefreshInv, AskInv, [Next]_vars, ~Disturbed'
  PROVE  AskInv'
<1> USE DEF TypeOK
<1>0. /\ \A c \in Callers : ~Crash(c) /\ ~SaveFails(c) /\ ~QueryFails(c)
      /\ ~Drop /\ ~ExchangeCode
  BY DisturbedStep
<1>1. ASSUME NEW c \in Callers, ReadGrant(c) PROVE AskInv'
  BY <1>1, NoRowType
     DEF AskInv, ReadGrant, Finish, Goto, Fresh, vendorVars, outsideVars
<1>2. ASSUME NEW c \in Callers, MarkNoRefresh(c) PROVE AskInv'
  <2>1. /\ \A d \in Callers : pc[d] \notin {"asking", "save"}
        /\ row'.ref = row.ref /\ row'.acc = row.acc
    BY <1>2, FlaggedType DEF AskInv, MarkNoRefresh
  <2> QED
    BY <1>2, <2>1
       DEF AskInv, MarkNoRefresh, Finish, Goto, vendorVars, outsideVars
<1>3. ASSUME NEW c \in Callers, Acquire(c) PROVE AskInv'
  BY <1>3 DEF AskInv, Acquire, Goto, vendorVars, outsideVars
<1>4. ASSUME NEW c \in Callers, LockTimeout(c) PROVE AskInv'
  BY <1>4 DEF AskInv, LockTimeout, Finish, Goto, vendorVars, outsideVars
<1>5. ASSUME NEW c \in Callers, ReReadGrant(c) PROVE AskInv'
  <2>1. Undisturbed
    BY DisturbedStep
  <2>2. row # NoRow
    BY <1>5, <2>1 DEF ReReadGrant, RefreshInv, WearInv, TokenInv
  <2> QED
    BY <1>5, <2>2
       DEF AskInv, ReReadGrant, Leave, Goto, Fresh, vendorVars, outsideVars
<1>6. ASSUME NEW c \in Callers, AskAnswered(c) PROVE AskInv'
  BY <1>6 DEF AskInv, AskAnswered, Ask, Goto, outsideVars
<1>7. ASSUME NEW c \in Callers, AskLost(c) \/ AskRefused(c) \/ AskTransient(c)
      PROVE  AskInv'
  BY <1>7 DEF AskInv, AskLost, AskRefused, AskTransient, Goto, outsideVars
<1>8. ASSUME NEW c \in Callers, Save(c) PROVE AskInv'
  <2>1. row'.ref # NoToken
    BY <1>8, HeldType DEF AskInv, Save, Upsert
  <2>2. \A d \in Callers : pc[d] # "noRefresh"
    BY <1>8 DEF AskInv, Save
  <2>3. \A d \in Callers : d # c => pc[d] \notin {"asking", "save"}
    BY <1>8 DEF Save, RefreshInv, LockInv, Inside
  <2> QED
    BY <1>8, <2>2, <2>3 DEF AskInv, Save, Leave, Goto, vendorVars, outsideVars
<1>9. ASSUME NEW c \in Callers, Mark(c) PROVE AskInv'
  <2>1. row'.ref = row.ref /\ row'.acc = row.acc
    BY <1>9, FlaggedType DEF Mark
  <2>2. \A d \in Callers : d # c => pc[d] \notin {"asking", "save"}
    BY <1>9 DEF Mark, RefreshInv, LockInv, Inside
  <2> QED
    BY <1>9, <2>1, <2>2 DEF AskInv, Mark, Leave, Goto, vendorVars, outsideVars
<1>10. ASSUME NEW c \in Callers, Commit(c) PROVE AskInv'
  BY <1>10 DEF AskInv, Commit, Finish, Goto, vendorVars, outsideVars
<1>11. ASSUME NEW t \in 1 .. next - 1, Expire(t) PROVE AskInv'
  BY <1>11 DEF AskInv, Expire
<1>12. ASSUME NEW t \in consent, SaveConsent(t) PROVE AskInv'
  BY DEF AskInv
<1>13. ASSUME Revoke PROVE AskInv'
  BY <1>13 DEF AskInv, Revoke
<1>14. CASE UNCHANGED vars
  BY <1>14 DEF AskInv, vars
<1> QED
  BY <1>0, <1>1, <1>2, <1>3, <1>4, <1>5, <1>6, <1>7, <1>8, <1>9, <1>10,
     <1>11, <1>12, <1>13, <1>14 DEF Next, Step, Outside

-----------------------------------------------------------------------------
(* The refinement mapping, by what the lock's holder is doing *)

LEMMA PromisedFree ==
  ASSUME LockInv, lock \subseteq Callers,
         \A c \in Callers : pc[c] \notin {"save", "mark"}
  PROVE  PromisedGrant = row
BY DEF PromisedGrant, Saving

LEMMA PromisedSave ==
  ASSUME LockInv, NEW c \in Callers, pc[c] = "save"
  PROVE  PromisedGrant = Upsert(row, held[c])
<1>1. Saving = {c}
  BY DEF Saving, LockInv, Inside
<1>2. (CHOOSE d \in Saving : TRUE) = c
  BY <1>1
<1> QED
  BY <1>1, <1>2 DEF PromisedGrant

LEMMA PromisedMark ==
  ASSUME LockInv, NEW c \in Callers, pc[c] = "mark"
  PROVE  PromisedGrant = Flagged(row)
<1>1. c \in lock /\ Saving = {}
  BY DEF Saving, LockInv, Inside
<1> QED
  BY <1>1 DEF PromisedGrant

\* The same three after a step.
LEMMA PromisedFreeNext ==
  ASSUME \A c \in lock' : pc'[c] \notin {"save", "mark"}
  PROVE  PromisedGrant' = row'
BY DEF PromisedGrant, Saving

LEMMA PromisedSaveNext ==
  ASSUME LockInv', NEW c \in Callers, pc'[c] = "save"
  PROVE  PromisedGrant' = Upsert(row', held'[c])
<1>1. Saving' = {c}
  BY DEF Saving, LockInv, Inside
<1>2. (CHOOSE d \in Saving' : TRUE) = c
  BY <1>1
<1> QED
  BY <1>1, <1>2 DEF PromisedGrant, Upsert

LEMMA PromisedMarkNext ==
  ASSUME LockInv', NEW c \in Callers, pc'[c] = "mark"
  PROVE  PromisedGrant' = Flagged(row')
<1>1. c \in lock' /\ Saving' = {}
  BY DEF Saving, LockInv, Inside
<1> QED
  BY <1>1 DEF PromisedGrant, Flagged, NoRow

-----------------------------------------------------------------------------
(* Every step is a step of the promise, or none *)

LEMMA PromiseStep ==
  ASSUME TypeOK, RefreshInv, AskInv, [Next]_vars, RefreshInv', TypeOK',
         ~Disturbed'
  PROVE  [Promise!Next]_(Promise!vars)
<1> DEFINE Stutter == UNCHANGED <<PromisedGrant, honoured, next, expired>>
<1> USE DEF TypeOK
<1>0. /\ \A c \in Callers : ~Crash(c) /\ ~SaveFails(c) /\ ~QueryFails(c)
      /\ ~Drop /\ ~ExchangeCode
  BY DisturbedStep
<1>01. /\ LockInv /\ LockInv'
       /\ \A c \in Callers : pc[c] = "asking" => held[c].ref \notin spent
       /\ \A c \in Callers : pc[c] # "idle" => row # NoRow
  <2>1. Undisturbed
    BY DisturbedStep
  <2> QED
    BY <2>1 DEF RefreshInv, WearInv, CallInv, TokenInv
\* Steps that neither begin nor end a save or a mark, and leave the row alone.
<1>1. ASSUME NEW c \in Callers,
             ReadGrant(c) \/ Acquire(c) \/ LockTimeout(c) \/ Commit(c)
      PROVE  Stutter
  <2>1. /\ UNCHANGED <<row, honoured, next, expired>>
        /\ Saving' = Saving
        /\ (\E d \in lock : pc[d] = "mark")' <=> \E d \in lock : pc[d] = "mark"
        /\ \A d \in Saving : held'[d] = held[d]
    BY <1>1, <1>01
       DEF ReadGrant, Acquire, LockTimeout, Commit, Finish, Goto, vendorVars,
           outsideVars, Saving, LockInv, Inside
  <2>2. Saving # {} => (CHOOSE d \in Saving : TRUE) \in Saving
    OBVIOUS
  <2> QED
    BY <2>1, <2>2 DEF PromisedGrant, Upsert, Flagged
<1>2. ASSUME NEW c \in Callers, MarkNoRefresh(c)
      PROVE  Promise!GiveUp \/ Stutter
  <2>1. /\ row' = Flagged(row) /\ UNCHANGED <<lock, honoured, next, expired>>
        /\ \A d \in lock : pc'[d] = pc[d] /\ pc[d] # "save"
        /\ Saving = {} /\ Saving' = {}
        /\ row # NoRow /\ row.acc \in expired
    BY <1>2, <1>01
       DEF AskInv, MarkNoRefresh, Finish, Goto, vendorVars, outsideVars,
           Saving, LockInv, Inside
  <2>2. CASE \E d \in lock : pc[d] = "mark"
    <3>1. PromisedGrant = Flagged(row) /\ PromisedGrant' = Flagged(row')
      BY <2>1, <2>2 DEF PromisedGrant, Flagged
    <3>2. Flagged(Flagged(row)) = Flagged(row)
      BY <2>1 DEF Flagged, Grant, NoRow
    <3> QED
      BY <2>1, <3>1, <3>2
  <2>3. CASE ~\E d \in lock : pc[d] = "mark"
    <3>1. PromisedGrant = row /\ PromisedGrant' = [row EXCEPT !.reauth = TRUE]
      BY <2>1, <2>3 DEF PromisedGrant, Flagged
    <3>2. CASE row.reauth
      BY <2>1, <3>1, <3>2 DEF Grant
    <3>3. CASE ~row.reauth
      BY <2>1, <3>1, <3>3 DEF Promise!GiveUp
    <3> QED
      BY <3>2, <3>3
  <2> QED
    BY <2>2, <2>3
<1>3. ASSUME NEW c \in Callers, ReReadGrant(c)
      PROVE  Promise!GiveUp \/ Stutter
  <2>1. /\ UNCHANGED <<row, lock, honoured, next, expired>>
        /\ lock = {c} /\ row # NoRow
        /\ pc'[c] \in {"commit", "mark", "asking"}
        /\ pc'[c] = "mark" => ~row.reauth /\ row.acc \in expired
    BY <1>3, <1>01 DEF ReReadGrant, Leave, Goto, Fresh, vendorVars,
                       outsideVars, LockInv, Inside
  <2>2. PromisedGrant = row
    BY <1>3, <2>1 DEF PromisedGrant, Saving, ReReadGrant
  <2>3. CASE pc'[c] = "mark"
    <3>1. PromisedGrant' = [row EXCEPT !.reauth = TRUE]
      BY <1>01, <2>1, <2>3, PromisedMarkNext DEF Flagged
    <3> QED
      BY <2>1, <2>2, <2>3, <3>1 DEF Promise!GiveUp
  <2>4. CASE pc'[c] # "mark"
    BY <2>1, <2>2, <2>4, PromisedFreeNext
  <2> QED
    BY <2>3, <2>4
\* The vendor's answer is where the refresh takes effect.
<1>4. ASSUME NEW c \in Callers, pc[c] = "asking"
      PROVE  /\ PromisedGrant = row /\ held[c] = row
             /\ row # NoRow /\ ~row.reauth /\ row.acc \in expired
             /\ row.ref # NoToken /\ row.ref \notin spent
  <2>1. lock = {c}
    BY <1>01, <1>4 DEF LockInv, Inside
  <2> QED
    BY <1>01, <1>4, <2>1 DEF PromisedGrant, Saving, AskInv
<1>5. ASSUME NEW c \in Callers, AskAnswered(c) PROVE Promise!Refresh
  <2>1. pc[c] = "asking" /\ pc'[c] = "save" /\ row' = row
    BY <1>5 DEF AskAnswered, Ask, Goto
  <2>2. held'[c] = [acc |-> next, ref |-> IF Rotating THEN next ELSE NoToken,
                    reauth |-> FALSE]
    BY <1>4, <1>5, <2>1 DEF AskAnswered
  <2>3. PromisedGrant' = Upsert(row, held'[c])
    BY <1>01, <2>1, PromisedSaveNext
  <2>4. Upsert(row, held'[c]) =
          [acc |-> next, ref |-> IF Rotating THEN next ELSE row.ref,
           reauth |-> FALSE]
    <3>1. held'[c].acc = next
      BY <2>2
    <3>2. (IF held'[c].ref = NoToken THEN row.ref ELSE held'[c].ref) =
            (IF Rotating THEN next ELSE row.ref)
      <4>1. CASE Rotating
        BY <2>2, <4>1
      <4>2. CASE ~Rotating
        BY <2>2, <4>2
      <4> QED
        BY <4>1, <4>2
    <3> QED
      BY <3>1, <3>2 DEF Upsert
  <2>5. Promise!Spend
    BY <1>4, <1>5, <2>1 DEF AskAnswered, Honour, Promise!Spend
  <2>6. Promise!Refreshable
    <3>1. /\ PromisedGrant.acc \in expired /\ ~PromisedGrant.reauth
          /\ PromisedGrant.ref # 0
      BY <1>4, <2>1
    <3> QED
      BY <3>1 DEF Promise!Refreshable, Promise!NoToken
  <2>7. PromisedGrant = row /\ expired' = expired
    BY <1>4, <1>5, <2>1 DEF AskAnswered, outsideVars
  <2> QED
    BY <2>3, <2>4, <2>5, <2>6, <2>7 DEF Promise!Refresh
<1>6. ASSUME NEW c \in Callers, AskLost(c) \/ AskRefused(c) \/ AskTransient(c)
      PROVE  Promise!GiveUp
  <2>1. pc[c] = "asking" /\ pc'[c] = "mark" /\ row' = row /\ expired' = expired
    BY <1>6 DEF AskLost, AskRefused, AskTransient, Ask, Goto, outsideVars
  <2>2. PromisedGrant' = [row EXCEPT !.reauth = TRUE]
    BY <1>01, <1>4, <2>1, PromisedMarkNext DEF Flagged
  <2>3. Promise!Spend \/ UNCHANGED <<honoured, next>>
    BY <1>4, <1>6, <2>1
       DEF AskLost, AskRefused, AskTransient, Honour, Refuse, Promise!Spend
  <2> QED
    BY <1>4, <2>1, <2>2, <2>3 DEF Promise!GiveUp
\* Storing what was promised.
<1>7. ASSUME NEW c \in Callers, Save(c) PROVE Stutter
  <2>1. /\ pc[c] = "save" /\ pc'[c] = "commit" /\ row' = Upsert(row, held[c])
        /\ UNCHANGED <<lock, honoured, next, expired>>
    BY <1>7 DEF Save, Leave, Goto, vendorVars, outsideVars
  <2>2. \A d \in lock' : pc'[d] \notin {"save", "mark"}
    BY <1>01, <2>1 DEF LockInv, Inside
  <2> QED
    BY <1>01, <2>1, <2>2, PromisedSave, PromisedFreeNext
<1>8. ASSUME NEW c \in Callers, Mark(c) PROVE Stutter
  <2>1. /\ pc[c] = "mark" /\ pc'[c] = "commit" /\ row' = Flagged(row)
        /\ UNCHANGED <<lock, honoured, next, expired>>
    BY <1>8 DEF Mark, Leave, Goto, vendorVars, outsideVars
  <2>2. \A d \in lock' : pc'[d] \notin {"save", "mark"}
    BY <1>01, <2>1 DEF LockInv, Inside
  <2> QED
    BY <1>01, <2>1, <2>2, PromisedMark, PromisedFreeNext
<1>9. ASSUME NEW t \in 1 .. next - 1, Expire(t) PROVE Promise!Expire(t)
  BY <1>9 DEF Expire, vendorVars, Promise!Expire, PromisedGrant, Saving, Upsert,
              Flagged
<1>10. ASSUME Revoke PROVE Promise!Revoke
  BY <1>10 DEF Revoke, Promise!Revoke, PromisedGrant, Saving, Upsert, Flagged
<1>11. \A t \in consent : ~SaveConsent(t)
  BY DEF AskInv
<1>02. Disturbed = FALSE /\ Disturbed' = FALSE
  BY DisturbedStep
<1>12. CASE UNCHANGED vars
  <2>1. Stutter
    BY <1>12 DEF vars, PromisedGrant, Saving, Upsert, Flagged
  <2> QED
    BY <2>1, <1>02 DEF Promise!vars
<1>13. CASE Next
  BY <1>0, <1>02, <1>1, <1>2, <1>3, <1>5, <1>6, <1>7, <1>8, <1>9, <1>10, <1>11,
     <1>13
     DEF Next, Step, Outside, Promise!Next, Promise!vars
<1> QED
  BY <1>12, <1>13

\* Racing callers, a lock that can time out, and a vendor that may refuse or
\* lose an answer implement one atomic refresh per expired token, for as long
\* as nobody disconnects or reconnects and neither a replica nor a query fails
\* (grants.ts:42-79 with grant-store.ts:76-93).
THEOREM RefreshKeepsPromise == Spec => KeepsPromise
<1>1. Init => Promise!Init /\ AskInv
  <2> SUFFICES ASSUME Init PROVE Promise!Init /\ AskInv
    OBVIOUS
  <2>1. PromisedGrant = row
    BY DEF Init, PromisedGrant, Saving
  <2>2. row.reauth = FALSE
    <3>1. CASE row = NoRow
      BY <3>1 DEF NoRow
    <3>2. CASE row # NoRow
      <4>1. PICK r \in {NoToken, 1} :
              row = [acc |-> 1, ref |-> r, reauth |-> FALSE]
        BY <3>2 DEF Init
      <4> QED
        BY <4>1
    <3> QED
      BY <3>1, <3>2
  <2> QED
    <3>1. AskInv
      BY DEF Init, AskInv
    <3>2. expired = {} /\ honoured = {row.ref} \ {NoToken} /\ next = 2
      BY DEF Init
    <3>3. Disturbed = FALSE
      <4>1. used = [k \in Kinds |-> 0] /\ Disturbances \subseteq Kinds
        BY DEF Init, Disturbances, Kinds
      <4> QED
        BY <4>1 DEF Disturbed
    <3> QED
      BY <2>1, <2>2, <3>1, <3>2, <3>3 DEF Promise!Init, Promise!NoToken
<1>2. TypeOK /\ RefreshInv /\ (Disturbed \/ AskInv) /\ [Next]_vars
      => (Disturbed \/ AskInv)'
  BY AskStep, DisturbedStep
<1>3. /\ TypeOK /\ RefreshInv /\ (Disturbed \/ AskInv) /\ [Next]_vars
      /\ TypeOK' /\ RefreshInv'
      => [Promise!Next]_(Promise!vars)
  <2> SUFFICES ASSUME TypeOK, RefreshInv, Disturbed \/ AskInv, [Next]_vars,
                      TypeOK', RefreshInv'
               PROVE  [Promise!Next]_(Promise!vars)
    OBVIOUS
  <2>1. CASE Disturbed'
    BY <2>1 DEF Promise!Next, Disturbed
  <2>2. CASE ~Disturbed'
    BY <2>2, DisturbedStep, PromiseStep
  <2> QED
    BY <2>1, <2>2
<1> QED
  BY <1>1, <1>2, <1>3, Refreshing, PTL DEF Spec, KeepsPromise, Promise!Spec
=============================================================================
