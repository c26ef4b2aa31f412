--------------------------- MODULE ToolCallProofs ---------------------------
(***************************************************************************)
(* Proofs about ToolCall, for every set of callers and keys and any quota. *)
(***************************************************************************)
EXTENDS ToolCall, FiniteSetTheorems, TLAPS

USE KeyAssumption, QuotaAssumption

-----------------------------------------------------------------------------
(* Type correctness *)

LEMMA TypeInit == Init => TypeOK
BY DEF Init, TypeOK, Stages, Results, Codes, Switches

\* A step that moves one call, ends it or not, and touches nothing else.
LEMMA TypeMoved ==
  ASSUME TypeOK, NEW c \in Callers, UNCHANGED <<stores, key, history>>,
         \/ \E from, to \in Stages : Pass(c, from, to)
         \/ \E from \in Stages, res \in Results : Leave(c, from, res)
  PROVE  TypeOK'
<1>1. "recording" \in Stages
  BY DEF Stages
<1> QED
  BY <1>1 DEF TypeOK, Pass, Leave, End, Goto, stores, history

LEMMA TypeStep == TypeOK /\ [Next]_vars => TypeOK'
<1> SUFFICES ASSUME TypeOK, [Next]_vars PROVE TypeOK'
  OBVIOUS
<1> USE DEF TypeOK, Goto, End, Pass, Leave, stores, history
<1>1. ASSUME NEW c \in Callers, Refuse(c) PROVE TypeOK'
  BY <1>1 DEF Refuse, Results, Codes
<1>2. ASSUME NEW c \in Callers, NEW k \in Keys \cup {NoKey}, Admit(c, k) PROVE TypeOK'
  <2>1. {"provider", "recording"} \subseteq Stages
    BY DEF Stages
  <2>2. {"none", "tool_not_found", "credential_scope_denied"} \subseteq Results
    BY DEF Results, Codes
  <2> QED
    BY <1>2, <2>1, <2>2 DEF Admit
<1>3. ASSUME NEW c \in Callers, ReadEnabled(c) PROVE TypeOK'
  BY <1>3 DEF ReadEnabled, Stages, Results, Codes
<1>4. ASSUME NEW c \in Callers, ReadOverrides(c) PROVE TypeOK'
  BY <1>4 DEF ReadOverrides, Stages, Results, Codes
<1>5. ASSUME NEW c \in Callers, Lookup(c) PROVE TypeOK'
  BY <1>5 DEF Lookup, Stages, Results, Codes
<1>6. ASSUME NEW c \in Callers, Resolve(c) PROVE TypeOK'
  <2> HIDE DEF TypeOK, Pass, Leave
  <2> QED
    BY <1>6, TypeMoved DEF Resolve, Stages, Results, Codes
<1>7. ASSUME NEW c \in Callers, Answer(c) \/ Timeout(c) \/ Measure(c) PROVE TypeOK'
  <2> HIDE DEF TypeOK, Pass, Leave
  <2>1. CASE Answer(c)
    BY <2>1, TypeMoved DEF Answer, Stages, Results, Codes
  <2>2. CASE Timeout(c)
    BY <2>2, TypeMoved DEF Timeout, Stages, Results, Codes
  <2>3. CASE Measure(c)
    BY <2>3, TypeMoved DEF Measure, Stages, Results, Codes
  <2> QED
    BY <1>7, <2>1, <2>2, <2>3
<1>8. ASSUME NEW c \in Callers, Sweep(c) PROVE TypeOK'
  BY <1>8 DEF Sweep, Stages
<1>9. ASSUME NEW c \in Callers, Store(c) PROVE TypeOK'
  <2>1. {"purging", "recording"} \subseteq Stages /\ "ok" \in Results
    BY DEF Stages, Results
  <2> QED
    BY <1>9, <2>1 DEF Store
<1>10. ASSUME NEW c \in Callers, Purge(c) \/ Put(c) PROVE TypeOK'
  <2>1. {"putting", "recording"} \subseteq Stages /\ "ok" \in Results
    BY DEF Stages, Results
  <2> QED
    BY <1>10, <2>1 DEF Purge, Put
<1>11. ASSUME NEW c \in Callers, Record(c) \/ QueryFails(c) \/ Crash(c) PROVE TypeOK'
  <2>1. {"idle", "recording"} \subseteq Stages /\ {"none", "internal_error"} \subseteq Results
    BY DEF Stages, Results
  <2> QED
    BY <1>11, <2>1 DEF Record, QueryFails, Crash
<1>12. ASSUME NEW s \in Switches, SwitchOff(s) \/ SwitchOn(s) PROVE TypeOK'
  BY <1>12 DEF SwitchOff, SwitchOn
<1>13. ASSUME NEW k \in Keys, ExpireKey(k) PROVE TypeOK'
  BY <1>13 DEF ExpireKey
<1>14. CASE ExpireFile
  BY <1>14 DEF ExpireFile
<1>15. CASE UNCHANGED vars
  BY <1>15 DEF vars
<1> QED
  BY <1>1, <1>2, <1>3, <1>4, <1>5, <1>6, <1>7, <1>8, <1>9, <1>10, <1>11,
     <1>12, <1>13, <1>14, <1>15 DEF Next, Step

\* Every reachable state is well typed, whatever calls, failures and switches.
THEOREM TypeCorrect == Spec => []TypeOK
BY TypeInit, TypeStep, PTL DEF Spec

-----------------------------------------------------------------------------
(* A write that has been answered is not performed again *)

LEMMA PerformedInit == Init => PerformedInv
BY DEF Init, PerformedInv

LEMMA PerformedStep ==
  ASSUME TypeOK, PerformedInv, [Next]_vars
  PROVE  PerformedInv'
<1> USE DEF TypeOK, PerformedInv, Goto, End, Pass, Leave, stores, history
<1>1. ASSUME NEW c \in Callers, Refuse(c) PROVE PerformedInv'
  BY <1>1 DEF Refuse
<1>2. ASSUME NEW c \in Callers, NEW k \in Keys \cup {NoKey}, Admit(c, k)
      PROVE  PerformedInv'
  BY <1>2 DEF Admit
<1>3. ASSUME NEW c \in Callers, ReadEnabled(c) \/ ReadOverrides(c) PROVE PerformedInv'
  BY <1>3 DEF ReadEnabled, ReadOverrides
<1>4. ASSUME NEW c \in Callers, Lookup(c) \/ Resolve(c) PROVE PerformedInv'
  BY <1>4 DEF Lookup, Resolve
<1>5. ASSUME NEW c \in Callers, Answer(c) \/ Timeout(c) PROVE PerformedInv'
  BY <1>5 DEF Answer, Timeout
<1>6. ASSUME NEW c \in Callers, Sweep(c) \/ Measure(c) PROVE PerformedInv'
  BY <1>6 DEF Sweep, Measure
<1>7. ASSUME NEW c \in Callers, Store(c) PROVE PerformedInv'
  BY <1>7 DEF Store
<1>8. ASSUME NEW c \in Callers, Purge(c) PROVE PerformedInv'
  BY <1>8 DEF Purge
<1>9. ASSUME NEW c \in Callers, Put(c) PROVE PerformedInv'
  BY <1>9 DEF Put
<1>10. ASSUME NEW c \in Callers, Record(c) PROVE PerformedInv'
  BY <1>10 DEF Record
<1>11. ASSUME NEW c \in Callers, QueryFails(c) \/ Crash(c) PROVE PerformedInv'
  BY <1>11 DEF QueryFails, Crash
<1>12. ASSUME NEW s \in Switches, SwitchOff(s) \/ SwitchOn(s) PROVE PerformedInv'
  BY <1>12 DEF SwitchOff, SwitchOn
<1>13. ASSUME NEW k \in Keys, ExpireKey(k) PROVE PerformedInv'
  BY <1>13 DEF ExpireKey
<1>14. CASE ExpireFile \/ UNCHANGED vars
  BY <1>14 DEF ExpireFile, vars
<1> QED
  BY <1>1, <1>2, <1>3, <1>4, <1>5, <1>6, <1>7, <1>8, <1>9, <1>10, <1>11,
     <1>12, <1>13, <1>14 DEF Next, Step

\* Once a client has the result of a write, no call that it then makes with
\* the same key reaches the vendor while the row lives, however calls race,
\* fail half way or expire rows in between (idempotency-store.ts:10-35).
THEOREM PerformsOnce == Spec => []PerformedOnce
<1>1. TypeOK /\ PerformedInv /\ [Next]_vars => (TypeOK /\ PerformedInv)'
  BY TypeStep, PerformedStep
<1>2. PerformedInv => PerformedOnce
  BY DEF PerformedInv, PerformedOnce
<1> QED
  BY <1>1, <1>2, TypeInit, PerformedInit, PTL DEF Spec

-----------------------------------------------------------------------------
(* Off is off *)

LEMMA OffInit == Init => OffInv /\ OffIsOff
BY DEF Init, OffInv, OffIsOff

LEMMA OffStep ==
  ASSUME TypeOK, OffInv, OffIsOff, [Next]_vars
  PROVE  (OffInv /\ OffIsOff)'
<1> USE DEF TypeOK, Switches, OffInv, OffIsOff, Goto, End, Pass, Leave, stores, history
<1>1. ASSUME NEW c \in Callers, Refuse(c) PROVE (OffInv /\ OffIsOff)'
  BY <1>1 DEF Refuse
<1>2. ASSUME NEW c \in Callers, NEW k \in Keys \cup {NoKey}, Admit(c, k)
      PROVE  (OffInv /\ OffIsOff)'
  BY <1>2 DEF Admit
<1>3. ASSUME NEW c \in Callers, ReadEnabled(c) \/ ReadOverrides(c)
      PROVE  (OffInv /\ OffIsOff)'
  BY <1>3 DEF ReadEnabled, ReadOverrides
<1>4. ASSUME NEW c \in Callers, Lookup(c) \/ Resolve(c) \/ Answer(c) \/ Timeout(c)
      PROVE  (OffInv /\ OffIsOff)'
  BY <1>4 DEF Lookup, Resolve, Answer, Timeout
<1>5. ASSUME NEW c \in Callers, Sweep(c) \/ Measure(c) \/ Store(c) \/ Purge(c) \/ Put(c)
      PROVE  (OffInv /\ OffIsOff)'
  BY <1>5 DEF Sweep, Measure, Store, Purge, Put
<1>6. ASSUME NEW c \in Callers, Record(c) \/ QueryFails(c) \/ Crash(c)
      PROVE  (OffInv /\ OffIsOff)'
  BY <1>6 DEF Record, QueryFails, Crash
<1>7. ASSUME NEW s \in Switches, SwitchOff(s) \/ SwitchOn(s)
      PROVE  (OffInv /\ OffIsOff)'
  BY <1>7 DEF SwitchOff, SwitchOn
<1>8. ASSUME NEW k \in Keys, ExpireKey(k) PROVE (OffInv /\ OffIsOff)'
  BY <1>8 DEF ExpireKey
<1>9. CASE ExpireFile \/ UNCHANGED vars
  BY <1>9 DEF ExpireFile, vars
<1> QED
  BY <1>1, <1>2, <1>3, <1>4, <1>5, <1>6, <1>7, <1>8, <1>9 DEF Next, Step

\* A call begun while the provider is disconnected or the tool disabled never
\* reaches the vendor or a stored result, unless a human switches it on again
\* (call-tool.ts:50-61, before 63-69).
THEOREM OffStaysOff == Spec => []OffIsOff
<1>1. TypeOK /\ (OffInv /\ OffIsOff) /\ [Next]_vars => (TypeOK /\ OffInv /\ OffIsOff)'
  BY TypeStep, OffStep
<1> QED
  BY <1>1, TypeInit, OffInit, PTL DEF Spec

-----------------------------------------------------------------------------
(* The files of a workspace are bounded *)

LEMMA StoringFinite ==
  /\ IsFiniteSet(Storing)
  /\ Cardinality(Storing) \in Nat
  /\ Cardinality(Callers) \in Nat \ {0}
  /\ Cardinality(Storing) <= Cardinality(Callers)
<1>1. Storing \in SUBSET Callers
  BY DEF Storing
<1>2. IsFiniteSet(Callers) /\ Callers # {}
  BY CallerAssumption
<1> QED
  BY <1>1, <1>2, FS_Subset, FS_CardinalityType, FS_EmptySet

\* A step after which no more calls are about to insert and no more rows are
\* counted keeps the bound.
LEMMA FilesKept ==
  ASSUME TypeOK, TypeOK', FilesInv, Storing' \subseteq Storing,
         files' + stale' <= files + stale
  PROVE  FilesInv'
<1>1. IsFiniteSet(Storing) /\ Cardinality(Storing) \in Nat /\ Cardinality(Callers) \in Nat
  BY StoringFinite
<1>2. /\ IsFiniteSet(Storing')
      /\ Cardinality(Storing') <= Cardinality(Storing)
      /\ Cardinality(Storing') \in Nat
  BY <1>1, FS_Subset, FS_CardinalityType
<1>3. files + stale \in Nat /\ files' + stale' \in Nat
  <2>1. {files, stale, files', stale'} \subseteq Nat
    BY DEF TypeOK
  <2> QED
    BY <2>1
<1> DEFINE now == files + stale
           then == files' + stale'
           all == Cardinality(Callers)
           before == Cardinality(Storing)
           after == Cardinality(Storing')
<1>4. now + before <= FileQuota + all - 1
  BY DEF FilesInv
<1>5. then + after <= FileQuota + all - 1
  <2> HIDE DEF now, then, all, before, after
  <2>1. now \in Nat /\ then \in Nat /\ all \in Nat /\ before \in Nat /\ after \in Nat
    BY <1>1, <1>2, <1>3 DEF now, then, all, before, after
  <2>2. then <= now /\ after <= before
    BY <1>2 DEF now, then, before, after
  <2> QED
    BY <1>4, <2>1, <2>2
<1> QED
  BY <1>5 DEF FilesInv

LEMMA FilesMeasure ==
  ASSUME TypeOK, TypeOK', FilesInv, NEW c \in Callers, Measure(c)
  PROVE  FilesInv'
<1>1. UNCHANGED <<files, stale>>
  BY DEF Measure, stores
<1>2. files \in Nat /\ stale \in Nat /\ pc \in [Callers -> Stages]
  BY DEF TypeOK
<1>3. CASE files + stale < FileQuota
  <2>1. Storing' \in SUBSET Callers
    BY DEF Storing
  <2>2. Cardinality(Storing') \in Nat /\ Cardinality(Storing') <= Cardinality(Callers)
    BY <2>1, FS_Subset, FS_CardinalityType, CallerAssumption
  <2>3. Cardinality(Callers) \in Nat
    BY StoringFinite
  <2> QED
    BY <1>1, <1>2, <1>3, <2>2, <2>3 DEF FilesInv
<1>4. CASE ~(files + stale < FileQuota)
  <2>1. Storing' \subseteq Storing
    BY <1>2, <1>4 DEF Measure, Storing, Leave, End, Goto
  <2> QED
    BY <1>1, <1>2, <2>1, FilesKept
<1> QED
  BY <1>3, <1>4

LEMMA FilesStore ==
  ASSUME TypeOK, TypeOK', FilesInv, NEW c \in Callers, Store(c)
  PROVE  FilesInv'
<1>1. c \in Storing /\ Storing' = Storing \ {c}
  BY DEF Store, Storing, TypeOK, Goto, End
<1>2. /\ Cardinality(Storing \ {c}) = Cardinality(Storing) - 1
      /\ Cardinality(Storing) \in Nat
  BY <1>1, StoringFinite, FS_RemoveElement
<1>3. Cardinality(Storing') = Cardinality(Storing) - 1
  BY <1>1, <1>2
<1>4. files' = files + 1 /\ stale' = stale
  BY DEF Store
<1> QED
  BY <1>2, <1>3, <1>4, StoringFinite DEF FilesInv, TypeOK

LEMMA FilesStep ==
  ASSUME TypeOK, TypeOK', FilesInv, [Next]_vars
  PROVE  FilesInv'
<1>1. pc \in [Callers -> Stages] /\ files \in Nat /\ stale \in Nat
  BY DEF TypeOK
<1> USE DEF Goto, End, Pass, Leave, stores, history
<1>2. ASSUME NEW c \in Callers, NEW k \in Keys \cup {NoKey}, Admit(c, k) PROVE FilesInv'
  BY <1>1, <1>2, FilesKept DEF Admit, Storing
<1>3. ASSUME NEW c \in Callers,
             \/ Refuse(c) \/ ReadEnabled(c) \/ ReadOverrides(c) \/ Lookup(c) \/ Resolve(c)
             \/ Answer(c) \/ Timeout(c) \/ Put(c) \/ QueryFails(c) \/ Crash(c) \/ Record(c)
             \/ Purge(c)
      PROVE  FilesInv'
  <2>1. UNCHANGED <<files, stale>>
    BY <1>3 DEF Refuse, ReadEnabled, ReadOverrides, Lookup, Resolve, Answer, Timeout,
                Put, QueryFails, Crash, Record, Purge
  <2>2. \/ UNCHANGED pc
        \/ \E to \in Stages \ {"storing"} : pc' = [pc EXCEPT ![c] = to]
    BY <1>3 DEF Refuse, ReadEnabled, ReadOverrides, Lookup, Resolve, Answer, Timeout,
                Put, QueryFails, Crash, Record, Purge, Stages
  <2>3. Storing' \subseteq Storing
    BY <1>1, <2>2 DEF Storing
  <2> QED
    BY <1>1, <2>1, <2>3, FilesKept
<1>4. ASSUME NEW c \in Callers, Sweep(c) PROVE FilesInv'
  BY <1>1, <1>4, FilesKept DEF Sweep, Storing
<1>5. ASSUME NEW s \in Switches, SwitchOff(s) \/ SwitchOn(s) PROVE FilesInv'
  BY <1>1, <1>5, FilesKept DEF SwitchOff, SwitchOn, Storing
<1>6. ASSUME NEW k \in Keys, ExpireKey(k) PROVE FilesInv'
  BY <1>1, <1>6, FilesKept DEF ExpireKey, Storing
<1>7. CASE ExpireFile
  BY <1>1, <1>7, FilesKept DEF ExpireFile, Storing
<1>8. CASE UNCHANGED vars
  BY <1>1, <1>8, FilesKept DEF vars, Storing
<1> QED
  BY <1>2, <1>3, <1>4, <1>5, <1>6, <1>7, <1>8, FilesMeasure, FilesStore DEF Next, Step

LEMMA FilesInit == Init => FilesInv
<1> SUFFICES ASSUME Init PROVE FilesInv
  OBVIOUS
<1>1. Storing = {} /\ files = 0 /\ stale = 0
  BY DEF Init, Storing
<1> QED
  BY <1>1, StoringFinite, FS_EmptySet DEF FilesInv

\* Whatever calls race, a workspace has at most one file past its quota for
\* every call but one (file-store.ts:20-32 measures before it inserts).
THEOREM BoundsFiles == Spec => []FilesBounded
<1>1. TypeOK /\ FilesInv /\ [Next]_vars => (TypeOK /\ FilesInv)'
  BY TypeStep, FilesStep
<1>2. TypeOK /\ FilesInv => FilesBounded
  BY StoringFinite DEF TypeOK, FilesInv, FilesBounded
<1> QED
  BY <1>1, <1>2, TypeInit, FilesInit, PTL DEF Spec
=============================================================================
