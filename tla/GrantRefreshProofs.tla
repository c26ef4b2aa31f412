------------------------- MODULE GrantRefreshProofs -------------------------
(***************************************************************************)
(* Proofs about GrantRefresh, for every set of callers and every bound.    *)
(***************************************************************************)
EXTENDS GrantRefresh, TLAPS

USE DEF NoToken

-----------------------------------------------------------------------------
(* The operators on the grant row *)

\* An upsert of a token set into a row of the right type has that type.
LEMMA UpsertType ==
  ASSUME NEW r \in Grant, NEW t, t.acc \in Nat, t.ref \in Nat
  PROVE  Upsert(r, t) \in Grant
BY DEF Upsert, Grant

\* Flagging keeps the type, the tokens, and whether there is a row at all.
LEMMA FlaggedType ==
  ASSUME NEW r \in Grant
  PROVE  /\ Flagged(r) \in Grant
         /\ Flagged(r).acc = r.acc /\ Flagged(r).ref = r.ref
         /\ r.reauth => Flagged(r).reauth
         /\ r # NoRow => Flagged(r).reauth /\ Flagged(r) # NoRow
         /\ r = NoRow => Flagged(r) = NoRow
BY DEF Flagged, Grant, NoRow

LEMMA NoRowType == NoRow \in Grant /\ NoRow.acc = 0 /\ NoRow.ref = 0
BY DEF NoRow, Grant

LEMMA HeldType ==
  ASSUME TypeOK, NEW c \in Callers
  PROVE  /\ held[c] \in Grant
         /\ held[c].acc \in Nat /\ held[c].ref \in Nat
BY DEF TypeOK, Grant

\* An event that is counted keeps the counters' type.
LEMMA CountType ==
  ASSUME NEW k \in Kinds, used \in [Kinds -> Nat], Count(k)
  PROVE  used' \in [Kinds -> Nat]
BY DEF Count

-----------------------------------------------------------------------------
(* Type correctness *)

LEMMA TypeStep == TypeOK /\ [Next]_vars => TypeOK'
<1> SUFFICES ASSUME TypeOK, [Next]_vars PROVE TypeOK'
  OBVIOUS
<1> USE NoRowType DEF TypeOK, Kinds
<1>1. ASSUME NEW c \in Callers, ReadGrant(c) PROVE TypeOK'
  BY <1>1 DEF ReadGrant, Finish, Goto, vendorVars, outsideVars, Stages, Results
<1>2. ASSUME NEW c \in Callers, MarkNoRefresh(c) PROVE TypeOK'
  BY <1>2, FlaggedType
     DEF MarkNoRefresh, Finish, Goto, vendorVars, outsideVars, Stages, Results
<1>3. ASSUME NEW c \in Callers, Acquire(c) PROVE TypeOK'
  BY <1>3 DEF Acquire, Goto, vendorVars, outsideVars, Stages
<1>21. ASSUME NEW c \in Callers, LockTimeout(c) PROVE TypeOK'
  BY <1>21 DEF LockTimeout, Finish, Goto, vendorVars, outsideVars,
              Stages, Results
<1>4. ASSUME NEW c \in Callers, ReReadGrant(c) PROVE TypeOK'
  BY <1>4 DEF ReReadGrant, Leave, Goto, vendorVars, outsideVars, Stages, Results
<1>5. ASSUME NEW c \in Callers, AskAnswered(c) PROVE TypeOK'
  <2>1. held' \in [Callers -> Grant]
    BY <1>5, HeldType DEF AskAnswered, Grant
  <2>2. asked' \subseteq Nat /\ spent' \subseteq Nat /\ honoured' \subseteq Nat
    BY <1>5, HeldType DEF AskAnswered, Ask, Honour
  <2>3. next' \in Nat \ {0} /\ pc' \in [Callers -> Stages]
    BY <1>5 DEF AskAnswered, Honour, Goto, Stages
  <2> QED
    BY <1>5, <2>1, <2>2, <2>3 DEF AskAnswered, outsideVars
<1>6. ASSUME NEW c \in Callers, AskLost(c) PROVE TypeOK'
  <2>1. used' \in [Kinds -> Nat]
    BY <1>6, CountType DEF AskLost
  <2>2. asked' \subseteq Nat /\ spent' \subseteq Nat /\ honoured' \subseteq Nat
    BY <1>6, HeldType DEF AskLost, Ask, Honour
  <2>3. next' \in Nat \ {0} /\ pc' \in [Callers -> Stages]
    BY <1>6 DEF AskLost, Honour, Goto, Stages
  <2> QED
    BY <1>6, <2>1, <2>2, <2>3 DEF AskLost
<1>7. ASSUME NEW c \in Callers, AskRefused(c) PROVE TypeOK'
  <2>1. asked' \subseteq Nat /\ honoured' \subseteq Nat
    BY <1>7, HeldType DEF AskRefused, Ask, Refuse
  <2>2. pc' \in [Callers -> Stages]
    BY <1>7 DEF AskRefused, Goto, Stages
  <2> QED
    BY <1>7, <2>1, <2>2 DEF AskRefused, Refuse, outsideVars
<1>8. ASSUME NEW c \in Callers, AskTransient(c) PROVE TypeOK'
  <2>1. used' \in [Kinds -> Nat]
    BY <1>8, CountType DEF AskTransient
  <2>2. asked' \subseteq Nat
    BY <1>8, HeldType DEF AskTransient, Ask
  <2>3. pc' \in [Callers -> Stages]
    BY <1>8 DEF AskTransient, Goto, Stages
  <2> QED
    BY <1>8, <2>1, <2>2, <2>3 DEF AskTransient
<1>9. ASSUME NEW c \in Callers, Save(c) PROVE TypeOK'
  <2>1. row' \in Grant
    BY <1>9, UpsertType DEF Save, Grant
  <2> QED
    BY <1>9, <2>1 DEF Save, Leave, Goto, vendorVars, outsideVars, Stages, Results
<1>10. ASSUME NEW c \in Callers, SaveFails(c) PROVE TypeOK'
  <2>1. used' \in [Kinds -> Nat]
    BY <1>10, CountType DEF SaveFails
  <2> QED
    BY <1>10, <2>1 DEF SaveFails, Goto, vendorVars, Stages
<1>11. ASSUME NEW c \in Callers, Mark(c) PROVE TypeOK'
  BY <1>11, FlaggedType
     DEF Mark, Leave, Goto, vendorVars, outsideVars, Stages, Results
<1>12. ASSUME NEW c \in Callers, Commit(c) PROVE TypeOK'
  BY <1>12 DEF Commit, Finish, Goto, vendorVars, outsideVars, Stages, Results
<1>13. ASSUME NEW c \in Callers, QueryFails(c) PROVE TypeOK'
  <2>1. used' \in [Kinds -> Nat]
    BY <1>13, CountType DEF QueryFails
  <2> QED
    BY <1>13, <2>1
       DEF QueryFails, Finish, Leave, Goto, vendorVars, Stages, Results
<1>14. ASSUME NEW c \in Callers, Crash(c) PROVE TypeOK'
  <2>1. used' \in [Kinds -> Nat]
    BY <1>14, CountType DEF Crash
  <2> QED
    BY <1>14, <2>1 DEF Crash, Finish, Goto, vendorVars, Stages, Results
<1>15. ASSUME NEW t \in 1 .. next - 1, Expire(t) PROVE TypeOK'
  <2>1. used' \in [Kinds -> Nat]
    BY <1>15, CountType DEF Expire
  <2> QED
    BY <1>15, <2>1 DEF Expire, vendorVars
<1>16. ASSUME ExchangeCode PROVE TypeOK'
  <2>1. used' \in [Kinds -> Nat]
    BY <1>16, CountType DEF ExchangeCode
  <2>2. consent' \subseteq TokenSet
    BY <1>16 DEF ExchangeCode, TokenSet
  <2> QED
    BY <1>16, <2>1, <2>2 DEF ExchangeCode
<1>17. ASSUME NEW t \in consent, SaveConsent(t) PROVE TypeOK'
  <2>1. row' \in Grant
    BY <1>17, UpsertType DEF SaveConsent, TokenSet
  <2> QED
    BY <1>17, <2>1 DEF SaveConsent, vendorVars
<1>18. ASSUME Drop PROVE TypeOK'
  <2>1. used' \in [Kinds -> Nat]
    BY <1>18, CountType DEF Drop
  <2> QED
    BY <1>18, <2>1 DEF Drop, vendorVars
<1>19. ASSUME Revoke PROVE TypeOK'
  <2>1. used' \in [Kinds -> Nat]
    BY <1>19, CountType DEF Revoke
  <2> QED
    BY <1>19, <2>1 DEF Revoke
<1>20. CASE UNCHANGED vars
  BY <1>20 DEF vars
<1> QED
  BY <1>1, <1>2, <1>3, <1>4, <1>5, <1>6, <1>7, <1>8, <1>9, <1>10, <1>11,
     <1>12, <1>13, <1>14, <1>15, <1>16, <1>17, <1>18, <1>19, <1>20, <1>21
     DEF Next, Step, Outside

LEMMA TypeInit == ASSUME Init PROVE TypeOK
<1>1. row \in Grant /\ row.ref \in Nat
  <2>1. CASE row = NoRow
    BY <2>1, NoRowType DEF NoRow
  <2>2. CASE row # NoRow
    <3>1. PICK r \in {NoToken, 1} :
            row = [acc |-> 1, ref |-> r, reauth |-> FALSE]
      BY <2>2 DEF Init
    <3> QED
      BY <3>1 DEF Grant
  <2> QED
    BY <2>1, <2>2
<1>2. used \in [Kinds -> Nat]
  BY DEF Init
<1>3. pc \in [Callers -> Stages] /\ result \in [Callers -> Results]
  BY DEF Init, Stages, Results
<1>4. held \in [Callers -> Grant]
  BY NoRowType DEF Init
<1>5. /\ lock \subseteq Callers /\ consent \subseteq TokenSet
      /\ next \in Nat \ {0} /\ expired \subseteq Nat
      /\ spent \subseteq Nat /\ asked \subseteq Nat
  BY DEF Init
<1>6. honoured \subseteq Nat
  BY <1>1 DEF Init
<1> QED
  BY <1>1, <1>2, <1>3, <1>4, <1>5, <1>6 DEF TypeOK

\* Every variable keeps its type: in particular each stored grant, and each
\* grant a call works with, is a whole one.
THEOREM TypeCorrect == Spec => []TypeOK
BY TypeInit, TypeStep, PTL DEF Spec

-----------------------------------------------------------------------------
(* No refresh token is spent twice *)

\* The lock goes to one call at a time, whatever happens to the others.
LEMMA LockStep == ASSUME TypeOK, LockInv, [Next]_vars PROVE LockInv'
<1> USE DEF TypeOK, LockInv, Inside
<1>1. ASSUME NEW c \in Callers, ReadGrant(c) PROVE LockInv'
  BY <1>1 DEF ReadGrant, Finish, Goto
<1>2. ASSUME NEW c \in Callers, MarkNoRefresh(c) \/ LockTimeout(c) PROVE LockInv'
  BY <1>2 DEF MarkNoRefresh, LockTimeout, Finish, Goto
<1>3. ASSUME NEW c \in Callers, Acquire(c) PROVE LockInv'
  BY <1>3 DEF Acquire, Goto
<1>4. ASSUME NEW c \in Callers, ReReadGrant(c) PROVE LockInv'
  BY <1>4 DEF ReReadGrant, Leave, Goto
<1>5. ASSUME NEW c \in Callers,
             AskAnswered(c) \/ AskLost(c) \/ AskRefused(c) \/ AskTransient(c)
      PROVE  LockInv'
  BY <1>5 DEF AskAnswered, AskLost, AskRefused, AskTransient, Ask, Goto
<1>6. ASSUME NEW c \in Callers, Save(c) \/ SaveFails(c) \/ Mark(c) PROVE LockInv'
  BY <1>6 DEF Save, SaveFails, Mark, Leave, Goto
<1>7. ASSUME NEW c \in Callers, Commit(c) \/ Crash(c) PROVE LockInv'
  BY <1>7 DEF Commit, Crash, Finish, Goto
<1>8. ASSUME NEW c \in Callers, QueryFails(c) PROVE LockInv'
  BY <1>8 DEF QueryFails, Finish, Leave, Goto
<1>9. CASE Outside
  BY <1>9 DEF Outside, Expire, ExchangeCode, SaveConsent, Drop, Revoke
<1>10. CASE UNCHANGED vars
  BY <1>10 DEF vars
<1> QED
  BY <1>1, <1>2, <1>3, <1>4, <1>5, <1>6, <1>7, <1>8, <1>9, <1>10 DEF Next, Step

\* Events are counted and never uncounted, so a step that ends undisturbed was
\* undisturbed before, and is none of the events that disturb.
LEMMA CountedOnce ==
  ASSUME used \in [Kinds -> Nat], NEW k \in Kinds, Count(k), NEW j \in Kinds,
         used'[j] = 0
  PROVE  used[j] = 0 /\ j # k
BY DEF Count

LEMMA UsedStep ==
  ASSUME TypeOK, [Next]_vars
  PROVE  used' = used \/ \E k \in Kinds : Count(k)
<1> USE DEF Kinds
<1>1. ASSUME NEW c \in Callers, ReadGrant(c) \/ Step(c) \/ Crash(c)
      PROVE  used' = used \/ \E k \in Kinds : Count(k)
  BY <1>1
     DEF ReadGrant, Step, MarkNoRefresh, Acquire, LockTimeout, ReReadGrant,
         AskAnswered, AskLost, AskRefused, AskTransient, Save, SaveFails, Mark,
         Commit, QueryFails, Crash, outsideVars
<1>2. CASE Outside
  BY <1>2 DEF Outside, Expire, ExchangeCode, SaveConsent, Drop, Revoke
<1>3. CASE UNCHANGED vars
  BY <1>3 DEF vars
<1> QED
  BY <1>1, <1>2, <1>3 DEF Next

LEMMA UndisturbedStep ==
  ASSUME TypeOK, [Next]_vars, Undisturbed'
  PROVE  /\ Undisturbed
         /\ \A c \in Callers : ~Crash(c) /\ ~SaveFails(c) /\ ~QueryFails(c)
         /\ ~Drop /\ ~Count("bare")
<1>1. \A k \in {"bare", "drop", "crash", "dberr"} : k \in Kinds /\ used'[k] = 0
  BY DEF Undisturbed, Kinds
<1>2. Undisturbed
  BY <1>1, UsedStep, CountedOnce DEF Undisturbed, TypeOK
<1>3. ~Count("drop") /\ ~Count("crash") /\ ~Count("dberr") /\ ~Count("bare")
  BY <1>1, CountedOnce DEF TypeOK
<1> QED
  BY <1>2, <1>3 DEF Crash, SaveFails, QueryFails, Drop

\* Each action of an undisturbed grant keeps the tokens apart.
LEMMA WearStep ==
  ASSUME TypeOK, LockInv, LockInv', WearInv, [Next]_vars, Undisturbed, Undisturbed'
  PROVE  WearInv'
<1> USE DEF TypeOK
<1>0. /\ \A c \in Callers : ~Crash(c) /\ ~SaveFails(c) /\ ~QueryFails(c)
      /\ ~Drop /\ ~Count("bare")
  BY UndisturbedStep
<1>1. ASSUME NEW c \in Callers, ReadGrant(c) PROVE WearInv'
  <2>1. SerialInv'
    BY <1>1, HeldType DEF WearInv, SerialInv, Grant, TokenSet, ReadGrant, Finish, Goto, vendorVars, outsideVars, NoRow
  <2>2. TokenInv'
    <3>1. UNCHANGED <<row, honoured, spent, asked, consent>>
      BY <1>1 DEF ReadGrant, vendorVars, outsideVars
    <3>2. ASSUME NEW d \in Callers
          PROVE  /\ pc'[d] # "idle" => row # NoRow
                 /\ pc'[d] \notin {"asking", "save"} \/ (pc'[d] = pc[d] /\ held'[d] = held[d])
      BY <1>1 DEF WearInv, TokenInv, ReadGrant, Finish, Goto
    <3> QED
      BY <3>1, <3>2 DEF WearInv, TokenInv
  <2>3. WornInv'
    BY <1>1, HeldType DEF WearInv, WornInv, Settling, LockInv, Inside, SerialInv, CallInv, TokenInv, ReadGrant, Finish, Goto, vendorVars, outsideVars, NoRow
  <2>4. CallInv'
    BY <1>1, HeldType DEF WearInv, CallInv, WornInv, Settling, LockInv, Inside, SerialInv, TokenInv, ReadGrant, Finish, Goto, vendorVars, outsideVars, NoRow
  <2>5. ConsentInv'
    BY <1>1, HeldType DEF WearInv, ConsentInv, SerialInv, TokenInv, Grant, TokenSet, ReadGrant, Finish, Goto, vendorVars, outsideVars, NoRow
  <2> QED
    BY <2>1, <2>2, <2>3, <2>4, <2>5 DEF WearInv
<1>2. ASSUME NEW c \in Callers, MarkNoRefresh(c) PROVE WearInv'
  <2>1. SerialInv'
    BY <1>2, HeldType, FlaggedType DEF WearInv, SerialInv, Grant, TokenSet, MarkNoRefresh, Finish, Goto, vendorVars, outsideVars, NoRow
  <2>2. TokenInv'
    BY <1>2, HeldType, FlaggedType DEF WearInv, TokenInv, SerialInv, Grant, TokenSet, LockInv, MarkNoRefresh, Finish, Goto, vendorVars, outsideVars, NoRow
  <2>3. WornInv'
    BY <1>2, HeldType, FlaggedType DEF WearInv, WornInv, Settling, LockInv, Inside, SerialInv, CallInv, TokenInv, MarkNoRefresh, Finish, Goto, vendorVars, outsideVars, NoRow
  <2>4. CallInv'
    BY <1>2, HeldType, FlaggedType DEF WearInv, CallInv, WornInv, Settling, LockInv, Inside, SerialInv, TokenInv, MarkNoRefresh, Finish, Goto, vendorVars, outsideVars, NoRow
  <2>5. ConsentInv'
    BY <1>2, HeldType, FlaggedType DEF WearInv, ConsentInv, SerialInv, TokenInv, Grant, TokenSet, MarkNoRefresh, Finish, Goto, vendorVars, outsideVars, NoRow
  <2> QED
    BY <2>1, <2>2, <2>3, <2>4, <2>5 DEF WearInv
<1>3. ASSUME NEW c \in Callers, Acquire(c) PROVE WearInv'
  <2>1. SerialInv'
    BY <1>3, HeldType DEF WearInv, SerialInv, Grant, TokenSet, Acquire, Goto, vendorVars, outsideVars
  <2>2. TokenInv'
    BY <1>3, HeldType DEF WearInv, TokenInv, SerialInv, Grant, TokenSet, LockInv, Acquire, Goto, vendorVars, outsideVars
  <2>3. WornInv'
    BY <1>3, HeldType DEF WearInv, WornInv, Settling, LockInv, Inside, SerialInv, CallInv, TokenInv, Acquire, Goto, vendorVars, outsideVars
  <2>4. CallInv'
    BY <1>3, HeldType DEF WearInv, CallInv, WornInv, Settling, LockInv, Inside, SerialInv, TokenInv, Acquire, Goto, vendorVars, outsideVars
  <2>5. ConsentInv'
    BY <1>3, HeldType DEF WearInv, ConsentInv, SerialInv, TokenInv, Grant, TokenSet, Acquire, Goto, vendorVars, outsideVars
  <2> QED
    BY <2>1, <2>2, <2>3, <2>4, <2>5 DEF WearInv
<1>4. ASSUME NEW c \in Callers, LockTimeout(c) PROVE WearInv'
  <2>1. SerialInv'
    BY <1>4, HeldType DEF WearInv, SerialInv, Grant, TokenSet, LockTimeout, Finish, Goto, vendorVars, outsideVars, NoRow
  <2>2. TokenInv'
    BY <1>4, HeldType DEF WearInv, TokenInv, SerialInv, Grant, TokenSet, LockInv, LockTimeout, Finish, Goto, vendorVars, outsideVars, NoRow
  <2>3. WornInv'
    BY <1>4, HeldType DEF WearInv, WornInv, Settling, LockInv, Inside, SerialInv, CallInv, TokenInv, LockTimeout, Finish, Goto, vendorVars, outsideVars, NoRow
  <2>4. CallInv'
    BY <1>4, HeldType DEF WearInv, CallInv, WornInv, Settling, LockInv, Inside, SerialInv, TokenInv, LockTimeout, Finish, Goto, vendorVars, outsideVars, NoRow
  <2>5. ConsentInv'
    BY <1>4, HeldType DEF WearInv, ConsentInv, SerialInv, TokenInv, Grant, TokenSet, LockTimeout, Finish, Goto, vendorVars, outsideVars, NoRow
  <2> QED
    BY <2>1, <2>2, <2>3, <2>4, <2>5 DEF WearInv
<1>5. ASSUME NEW c \in Callers, ReReadGrant(c) PROVE WearInv'
  <2>1. SerialInv'
    BY <1>5, HeldType DEF WearInv, SerialInv, Grant, TokenSet, ReReadGrant, Leave, Goto, vendorVars, outsideVars, NoRow
  <2>2. TokenInv'
    BY <1>5, HeldType DEF WearInv, TokenInv, SerialInv, Grant, TokenSet, LockInv, ReReadGrant, Leave, Goto, vendorVars, outsideVars, NoRow
  <2>3. WornInv'
    BY <1>5, HeldType DEF WearInv, WornInv, Settling, LockInv, Inside, SerialInv, CallInv, TokenInv, ReReadGrant, Leave, Goto, vendorVars, outsideVars, NoRow
  <2>4. CallInv'
    BY <1>5, HeldType DEF WearInv, CallInv, WornInv, Settling, LockInv, Inside, SerialInv, TokenInv, ReReadGrant, Leave, Goto, vendorVars, outsideVars, NoRow
  <2>5. ConsentInv'
    BY <1>5, HeldType DEF WearInv, ConsentInv, SerialInv, TokenInv, Grant, TokenSet, ReReadGrant, Leave, Goto, vendorVars, outsideVars, NoRow
  <2> QED
    BY <2>1, <2>2, <2>3, <2>4, <2>5 DEF WearInv
<1>6. ASSUME NEW c \in Callers, AskAnswered(c) PROVE WearInv'
  <2>1. SerialInv'
    BY <1>6, HeldType DEF WearInv, SerialInv, Grant, TokenSet, AskAnswered, Ask, Honour, Goto, outsideVars
  <2>2. TokenInv'
    BY <1>6, HeldType DEF WearInv, TokenInv, SerialInv, Grant, TokenSet, LockInv, AskAnswered, Ask, Honour, Goto, outsideVars
  <2>3. WornInv'
    BY <1>6, HeldType DEF WearInv, WornInv, Settling, LockInv, Inside, SerialInv, CallInv, TokenInv, AskAnswered, Ask, Honour, Goto, outsideVars
  <2>4. CallInv'
    BY <1>6, HeldType DEF WearInv, CallInv, WornInv, Settling, LockInv, Inside, SerialInv, TokenInv, AskAnswered, Ask, Honour, Goto, outsideVars
  <2>5. ConsentInv'
    BY <1>6, HeldType DEF WearInv, ConsentInv, SerialInv, TokenInv, Grant, TokenSet, AskAnswered, Ask, Honour, Goto, outsideVars
  <2> QED
    BY <2>1, <2>2, <2>3, <2>4, <2>5 DEF WearInv
<1>7. ASSUME NEW c \in Callers, AskLost(c) PROVE WearInv'
  <2>1. SerialInv'
    BY <1>7, HeldType DEF WearInv, SerialInv, Grant, TokenSet, AskLost, Ask, Honour, Goto, outsideVars
  <2>2. TokenInv'
    BY <1>7, HeldType DEF WearInv, TokenInv, SerialInv, Grant, TokenSet, LockInv, AskLost, Ask, Honour, Goto, outsideVars
  <2>3. WornInv'
    BY <1>7, HeldType DEF WearInv, WornInv, Settling, LockInv, Inside, SerialInv, CallInv, TokenInv, AskLost, Ask, Honour, Goto, outsideVars
  <2>4. CallInv'
    BY <1>7, HeldType DEF WearInv, CallInv, WornInv, Settling, LockInv, Inside, SerialInv, TokenInv, AskLost, Ask, Honour, Goto, outsideVars
  <2>5. ConsentInv'
    BY <1>7, HeldType DEF WearInv, ConsentInv, SerialInv, TokenInv, Grant, TokenSet, AskLost, Ask, Honour, Goto, outsideVars
  <2> QED
    BY <2>1, <2>2, <2>3, <2>4, <2>5 DEF WearInv
<1>8. ASSUME NEW c \in Callers, AskRefused(c) PROVE WearInv'
  <2>1. SerialInv'
    BY <1>8, HeldType DEF WearInv, SerialInv, Grant, TokenSet, AskRefused, Ask, Refuse, Goto, outsideVars
  <2>2. TokenInv'
    BY <1>8, HeldType DEF WearInv, TokenInv, SerialInv, Grant, TokenSet, LockInv, AskRefused, Ask, Refuse, Goto, outsideVars
  <2>3. WornInv'
    BY <1>8, HeldType DEF WearInv, WornInv, Settling, LockInv, Inside, SerialInv, CallInv, TokenInv, AskRefused, Ask, Refuse, Goto, outsideVars
  <2>4. CallInv'
    BY <1>8, HeldType DEF WearInv, CallInv, WornInv, Settling, LockInv, Inside, SerialInv, TokenInv, AskRefused, Ask, Refuse, Goto, outsideVars
  <2>5. ConsentInv'
    BY <1>8, HeldType DEF WearInv, ConsentInv, SerialInv, TokenInv, Grant, TokenSet, AskRefused, Ask, Refuse, Goto, outsideVars
  <2> QED
    BY <2>1, <2>2, <2>3, <2>4, <2>5 DEF WearInv
<1>9. ASSUME NEW c \in Callers, AskTransient(c) PROVE WearInv'
  <2>1. SerialInv'
    BY <1>9, HeldType DEF WearInv, SerialInv, Grant, TokenSet, AskTransient, Ask, Goto, outsideVars
  <2>2. TokenInv'
    BY <1>9, HeldType DEF WearInv, TokenInv, SerialInv, Grant, TokenSet, LockInv, AskTransient, Ask, Goto, outsideVars
  <2>3. WornInv'
    BY <1>9, HeldType DEF WearInv, WornInv, Settling, LockInv, Inside, SerialInv, CallInv, TokenInv, AskTransient, Ask, Goto, outsideVars
  <2>4. CallInv'
    BY <1>9, HeldType DEF WearInv, CallInv, WornInv, Settling, LockInv, Inside, SerialInv, TokenInv, AskTransient, Ask, Goto, outsideVars
  <2>5. ConsentInv'
    BY <1>9, HeldType DEF WearInv, ConsentInv, SerialInv, TokenInv, Grant, TokenSet, AskTransient, Ask, Goto, outsideVars
  <2> QED
    BY <2>1, <2>2, <2>3, <2>4, <2>5 DEF WearInv
<1>10. ASSUME NEW c \in Callers, Save(c) PROVE WearInv'
  <2>1. SerialInv'
    BY <1>10, HeldType DEF WearInv, SerialInv, Grant, TokenSet, Save, Leave, Goto, vendorVars, outsideVars, Upsert
  <2>2. TokenInv'
    BY <1>10, HeldType DEF WearInv, TokenInv, SerialInv, Grant, TokenSet, LockInv, Save, Leave, Goto, vendorVars, outsideVars, Upsert, NoRow
  <2>3. WornInv'
    BY <1>10, HeldType DEF WearInv, WornInv, Settling, LockInv, Inside, SerialInv, CallInv, TokenInv, Save, Leave, Goto, vendorVars, outsideVars, Upsert
  <2>4. CallInv'
    BY <1>10, HeldType DEF WearInv, CallInv, WornInv, Settling, LockInv, Inside, SerialInv, TokenInv, Save, Leave, Goto, vendorVars, outsideVars, Upsert
  <2>5. ConsentInv'
    BY <1>10, HeldType DEF WearInv, ConsentInv, SerialInv, TokenInv, Grant, TokenSet, Save, Leave, Goto, vendorVars, outsideVars, Upsert
  <2> QED
    BY <2>1, <2>2, <2>3, <2>4, <2>5 DEF WearInv
<1>11. ASSUME NEW c \in Callers, Mark(c) PROVE WearInv'
  <2>1. SerialInv'
    BY <1>11, HeldType, FlaggedType DEF WearInv, SerialInv, Grant, TokenSet, Mark, Leave, Goto, vendorVars, outsideVars
  <2>2. TokenInv'
    BY <1>11, HeldType, FlaggedType DEF WearInv, TokenInv, SerialInv, Grant, TokenSet, LockInv, Mark, Leave, Goto, vendorVars, outsideVars
  <2>3. WornInv'
    BY <1>11, HeldType, FlaggedType DEF WearInv, WornInv, Settling, LockInv, Inside, SerialInv, CallInv, TokenInv, Mark, Leave, Goto, vendorVars, outsideVars
  <2>4. CallInv'
    BY <1>11, HeldType, FlaggedType DEF WearInv, CallInv, WornInv, Settling, LockInv, Inside, SerialInv, TokenInv, Mark, Leave, Goto, vendorVars, outsideVars
  <2>5. ConsentInv'
    BY <1>11, HeldType, FlaggedType DEF WearInv, ConsentInv, SerialInv, TokenInv, Grant, TokenSet, Mark, Leave, Goto, vendorVars, outsideVars
  <2> QED
    BY <2>1, <2>2, <2>3, <2>4, <2>5 DEF WearInv
<1>12. ASSUME NEW c \in Callers, Commit(c) PROVE WearInv'
  <2>1. SerialInv'
    BY <1>12, HeldType DEF WearInv, SerialInv, Grant, TokenSet, Commit, Finish, Goto, vendorVars, outsideVars, NoRow
  <2>2. TokenInv'
    BY <1>12, HeldType DEF WearInv, TokenInv, SerialInv, Grant, TokenSet, LockInv, Commit, Finish, Goto, vendorVars, outsideVars, NoRow
  <2>3. WornInv'
    BY <1>12, HeldType DEF WearInv, WornInv, Settling, LockInv, Inside, SerialInv, CallInv, TokenInv, Commit, Finish, Goto, vendorVars, outsideVars, NoRow
  <2>4. CallInv'
    BY <1>12, HeldType DEF WearInv, CallInv, WornInv, Settling, LockInv, Inside, SerialInv, TokenInv, Commit, Finish, Goto, vendorVars, outsideVars, NoRow
  <2>5. ConsentInv'
    BY <1>12, HeldType DEF WearInv, ConsentInv, SerialInv, TokenInv, Grant, TokenSet, Commit, Finish, Goto, vendorVars, outsideVars, NoRow
  <2> QED
    BY <2>1, <2>2, <2>3, <2>4, <2>5 DEF WearInv
<1>13. ASSUME NEW t \in 1 .. next - 1, Expire(t) PROVE WearInv'
  <2>1. SerialInv'
    BY <1>13, HeldType DEF WearInv, SerialInv, Grant, TokenSet, Expire, vendorVars
  <2>2. TokenInv'
    BY <1>13, HeldType DEF WearInv, TokenInv, SerialInv, Grant, TokenSet, LockInv, Expire, vendorVars
  <2>3. WornInv'
    BY <1>13, HeldType DEF WearInv, WornInv, Settling, LockInv, Inside, SerialInv, CallInv, TokenInv, Expire, vendorVars
  <2>4. CallInv'
    BY <1>13, HeldType DEF WearInv, CallInv, WornInv, Settling, LockInv, Inside, SerialInv, TokenInv, Expire, vendorVars
  <2>5. ConsentInv'
    BY <1>13, HeldType DEF WearInv, ConsentInv, SerialInv, TokenInv, Grant, TokenSet, Expire, vendorVars
  <2> QED
    BY <2>1, <2>2, <2>3, <2>4, <2>5 DEF WearInv
<1>14. ASSUME ExchangeCode PROVE WearInv'
  <2>0. /\ consent' = consent \cup {[acc |-> next, ref |-> next]}
        /\ honoured' \subseteq honoured \cup {next}
        /\ next' = next + 1
        /\ UNCHANGED <<row, lock, pc, held, result, expired, spent, asked>>
    BY <1>0, <1>14 DEF ExchangeCode
  <2>1. SerialInv'
    <3>1. \A t \in (honoured \cup spent \cup asked)' : t < next'
      BY <2>0 DEF WearInv, SerialInv
    <3>2. \A t \in consent' : t.acc < next' /\ t.ref < next'
      BY <2>0 DEF WearInv, SerialInv, TokenSet
    <3>3. /\ row'.acc < next' /\ row'.ref < next'
          /\ \A c \in Callers : held'[c].acc < next' /\ held'[c].ref < next'
      BY <2>0, HeldType DEF WearInv, SerialInv, Grant
    <3> QED
      BY <3>1, <3>2, <3>3 DEF SerialInv
  <2>2. TokenInv'
    BY <2>0, HeldType DEF WearInv, TokenInv, SerialInv, Grant, TokenSet, LockInv
  <2>3. WornInv'
    BY <2>0, HeldType DEF WearInv, WornInv, Settling, LockInv, Inside, SerialInv, CallInv, TokenInv
  <2>4. CallInv'
    BY <2>0, HeldType DEF WearInv, CallInv, WornInv, Settling, LockInv, Inside, SerialInv, TokenInv
  <2>5. ConsentInv'
    BY <2>0, HeldType DEF WearInv, ConsentInv, SerialInv, TokenInv, Grant, TokenSet
  <2> QED
    BY <2>1, <2>2, <2>3, <2>4, <2>5 DEF WearInv
<1>15. ASSUME NEW t \in consent, SaveConsent(t) PROVE WearInv'
  <2>1. SerialInv'
    BY <1>15, HeldType DEF WearInv, SerialInv, Grant, TokenSet, SaveConsent, vendorVars, Upsert
  <2>2. TokenInv'
    BY <1>15, HeldType DEF WearInv, TokenInv, SerialInv, Grant, TokenSet, LockInv, SaveConsent, vendorVars, Upsert, NoRow
  <2>3. WornInv'
    BY <1>15, HeldType DEF WearInv, WornInv, ConsentInv, Settling, LockInv, Inside, SerialInv, CallInv, TokenInv, SaveConsent, vendorVars, Upsert
  <2>4. CallInv'
    BY <1>15, HeldType DEF WearInv, CallInv, WornInv, Settling, LockInv, Inside, SerialInv, TokenInv, SaveConsent, vendorVars, Upsert
  <2>5. ConsentInv'
    BY <1>15, HeldType DEF WearInv, ConsentInv, SerialInv, TokenInv, Grant, TokenSet, SaveConsent, vendorVars, Upsert
  <2> QED
    BY <2>1, <2>2, <2>3, <2>4, <2>5 DEF WearInv
<1>16. ASSUME Revoke PROVE WearInv'
  <2>1. SerialInv'
    BY <1>16, HeldType DEF WearInv, SerialInv, Grant, TokenSet, Revoke
  <2>2. TokenInv'
    BY <1>16, HeldType DEF WearInv, TokenInv, SerialInv, Grant, TokenSet, LockInv, Revoke
  <2>3. WornInv'
    BY <1>16, HeldType DEF WearInv, WornInv, Settling, LockInv, Inside, SerialInv, CallInv, TokenInv, Revoke
  <2>4. CallInv'
    BY <1>16, HeldType DEF WearInv, CallInv, WornInv, Settling, LockInv, Inside, SerialInv, TokenInv, Revoke
  <2>5. ConsentInv'
    BY <1>16, HeldType DEF WearInv, ConsentInv, SerialInv, TokenInv, Grant, TokenSet, Revoke
  <2> QED
    BY <2>1, <2>2, <2>3, <2>4, <2>5 DEF WearInv
<1>17. CASE UNCHANGED vars
  BY <1>17 DEF vars, WearInv, SerialInv, TokenInv, WornInv, Settling,
     CallInv, ConsentInv
<1> QED
  BY <1>0, <1>1, <1>2, <1>3, <1>4, <1>5, <1>6, <1>7, <1>8, <1>9, <1>10, <1>11, <1>12, <1>13, <1>14, <1>15, <1>16, <1>17
     DEF Next, Step, Outside

LEMMA RefreshInit == ASSUME Init PROVE RefreshInv
<1>1. /\ row.acc < 2 /\ row.ref < 2
      /\ row # NoRow => row.acc # NoToken
  <2>1. CASE row = NoRow
    BY <2>1 DEF NoRow
  <2>2. CASE row # NoRow
    <3>1. PICK r \in {NoToken, 1} :
            row = [acc |-> 1, ref |-> r, reauth |-> FALSE]
      BY <2>2 DEF Init
    <3> QED
      BY <3>1
  <2> QED
    BY <2>1, <2>2
<1>2. LockInv
  BY DEF Init, LockInv, Inside
<1>3. SerialInv
  <2>1. \A c \in Callers : held[c].acc < next /\ held[c].ref < next
    <3>1. held = [c \in Callers |-> NoRow] /\ next = 2
      BY DEF Init
    <3>2. \A c \in Callers : held[c].acc = 0 /\ held[c].ref = 0
      BY <3>1, NoRowType
    <3>3. 0 < next
      BY <3>1
    <3> QED
      BY <3>2, <3>3
  <2>2. \A t \in honoured \cup spent \cup asked : t < next
    BY <1>1 DEF Init
  <2> QED
    BY <1>1, <2>1, <2>2 DEF Init, SerialInv
<1>4. TokenInv
  BY <1>1 DEF Init, TokenInv
<1>5. WornInv /\ CallInv /\ ConsentInv
  BY DEF Init, WornInv, CallInv, ConsentInv
<1> QED
  BY <1>2, <1>3, <1>4, <1>5 DEF RefreshInv, WearInv

LEMMA RefreshStep ==
  ASSUME TypeOK, RefreshInv, [Next]_vars
  PROVE  RefreshInv'
<1>1. LockInv'
  BY LockStep DEF RefreshInv
<1>2. ASSUME Undisturbed' PROVE WearInv'
  BY <1>1, <1>2, UndisturbedStep, WearStep DEF RefreshInv
<1> QED
  BY <1>1, <1>2 DEF RefreshInv

\* The strengthening holds in every behaviour.
LEMMA Refreshing == Spec => [](TypeOK /\ RefreshInv)
<1>1. Init => TypeOK /\ RefreshInv
  BY TypeInit, RefreshInit
<1>2. TypeOK /\ RefreshInv /\ [Next]_vars => (TypeOK /\ RefreshInv)'
  BY TypeStep, RefreshStep
<1> QED
  BY <1>1, <1>2, PTL DEF Spec

\* The lock and the worn-out tokens, as the runs check them.
THEOREM RefreshInvariant == Spec => []RefreshInv
BY Refreshing, PTL

\* However many calls race, however their answers are lost or refused and
\* whatever reconnects happen in between, no rotated refresh token is presented
\* to the vendor again (grants.ts:54-60).
THEOREM NeverReplays == Spec => []NoReplay
<1>1. RefreshInv => NoReplay
  BY DEF RefreshInv, WearInv, CallInv, NoReplay
<1> QED
  BY <1>1, Refreshing, PTL

\* One expired access token costs the vendor at most one refresh request.
THEOREM RefreshesOnce == Spec => []RefreshOnce
<1>1. RefreshInv => RefreshOnce
  BY DEF RefreshInv, WearInv, CallInv, RefreshOnce
<1> QED
  BY <1>1, Refreshing, PTL
=============================================================================
