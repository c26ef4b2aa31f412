---------------------------- MODULE GrantRefresh ----------------------------
(***************************************************************************)
(* One stored OAuth grant of one workspace and the calls that need an      *)
(* access token from it: createGrantResolver (application/grants.ts) over  *)
(* the Postgres grant store (adapters/db/grant-store.ts).                  *)
(*                                                                         *)
(* A caller is one run of accessTokenFor, in any replica.  Every await of  *)
(* the source separates two actions.  Tokens are serial numbers given out  *)
(* by the vendor in order; what the properties need of expiresAt is        *)
(* whether the token is past its skew window, so a token expires by an     *)
(* action (a token without expiresAt is one that never does).  The vendor  *)
(* is external: it honours some refresh tokens, a rotating one stops       *)
(* honouring a token the moment it is presented, and revokes the grant     *)
(* when a spent one comes back.                                            *)
(***************************************************************************)
EXTENDS Naturals, FiniteSets

CONSTANTS
  Callers,   \* concurrent runs of accessTokenFor, across replicas
  Rotating,  \* TRUE: every refresh answers with a new refresh token
  Bound,     \* how often each kind of outside event may happen
  Mixed      \* how many kinds of them may happen in one behaviour

\* A bare consent is one that brings no refresh token; a request is lost
\* whether it fails before the vendor acts on it or after.
Kinds == {"expire", "consent", "bare", "drop", "crash", "dberr",
          "revoke", "lost"}

ASSUME CallersAssumption == Callers # {}
ASSUME VendorAssumption == Rotating \in BOOLEAN
ASSUME BoundAssumption == Bound \in [Kinds -> Nat] /\ Mixed \in Nat

NoToken == 0

VARIABLES
  row,        \* the row of the grants table, or NoRow
  lock,       \* holders of the advisory lock of this grant (at most one)
  pc,         \* where each call stands
  held,       \* the grant or the token set each call works with
  result,     \* how each call ended, or is about to end
  consent,    \* token sets a connect has received and not yet saved
  next,       \* vendor: the next token serial
  expired,    \* access tokens past their skew window
  honoured,   \* vendor: refresh tokens it accepts
  spent,      \* vendor: refresh tokens it has rotated out
  asked,      \* history: access tokens a refresh was sent on behalf of
  used        \* how many outside events of each kind have happened

vars == <<row, lock, pc, held, result, consent, next, expired, honoured,
          spent, asked, used>>

-----------------------------------------------------------------------------
(* Types *)

TokenSet == [acc : Nat, ref : Nat]
Grant == [acc : Nat, ref : Nat, reauth : BOOLEAN]
NoRow == [acc |-> NoToken, ref |-> NoToken, reauth |-> FALSE]

Stages == {"idle", "noRefresh", "queued", "locked", "asking", "save",
           "mark", "commit"}
Inside == {"locked", "asking", "save", "mark", "commit"}
Results == {"none", "null", "token", "reauth", "error"}

TypeOK ==
  /\ row \in Grant
  /\ lock \subseteq Callers
  /\ pc \in [Callers -> Stages]
  /\ held \in [Callers -> Grant]
  /\ result \in [Callers -> Results]
  /\ consent \subseteq TokenSet
  /\ next \in Nat \ {0}
  /\ expired \subseteq Nat
  /\ honoured \subseteq Nat
  /\ spent \subseteq Nat
  /\ asked \subseteq Nat
  /\ used \in [Kinds -> Nat]

\* No grant yet, or one that an earlier connect has saved.
Init ==
  /\ row \in {NoRow} \cup
       {[acc |-> 1, ref |-> r, reauth |-> FALSE] : r \in {NoToken, 1}}
  /\ lock = {}
  /\ pc = [c \in Callers |-> "idle"]
  /\ held = [c \in Callers |-> NoRow]
  /\ result = [c \in Callers |-> "none"]
  /\ consent = {}
  /\ next = 2
  /\ expired = {}
  /\ honoured = {row.ref} \ {NoToken}
  /\ spent = {}
  /\ asked = {}
  /\ used = [k \in Kinds |-> 0]

Count(k) ==
  /\ used[k] < Bound[k]
  /\ Cardinality({j \in Kinds : used[j] > 0} \cup {k}) <= Mixed
  /\ used' = [used EXCEPT ![k] = @ + 1]

-----------------------------------------------------------------------------
(* The grant row *)

Fresh(g) == g.acc \notin expired

\* Mutant: the row a save writes has lost its flag column.
UpsertUnflagged(r, t) ==
  [acc |-> t.acc, ref |-> IF t.ref = NoToken THEN r.ref ELSE t.ref]

\* save: an upsert that keeps the stored refresh token when the token set has
\* none, and always clears the flag.
Upsert(r, t) ==
  [acc |-> t.acc, ref |-> IF t.ref = NoToken THEN r.ref ELSE t.ref,
   reauth |-> FALSE]

\* markReauth: an UPDATE, which finds nothing when the row is gone.
Flagged(r) == IF r = NoRow THEN NoRow ELSE [r EXCEPT !.reauth = TRUE]

-----------------------------------------------------------------------------
(* The caller *)

Goto(c, stage) == pc' = [pc EXCEPT ![c] = stage]

\* The call returns or throws.
Finish(c, res) ==
  /\ Goto(c, "idle")
  /\ result' = [result EXCEPT ![c] = res]
  /\ held' = [held EXCEPT ![c] = NoRow]

\* fn returns or throws: the transaction that holds the lock is still open.
Leave(c, res) == Goto(c, "commit") /\ result' = [result EXCEPT ![c] = res]

vendorVars == <<next, honoured, spent, asked>>
outsideVars == <<consent, expired, used>>

\* The first load, outside the lock, and what follows it up to the next await.
ReadGrant(c) ==
  /\ pc[c] = "idle"
  /\ \/ row = NoRow /\ Finish(c, "null")
     \/ row # NoRow /\ row.reauth /\ Finish(c, "reauth")
     \/ row # NoRow /\ ~row.reauth /\ Fresh(row) /\ Finish(c, "token")
     \/ /\ row # NoRow /\ ~row.reauth /\ ~Fresh(row)
        /\ Goto(c, IF row.ref = NoToken THEN "noRefresh" ELSE "queued")
        /\ held' = [held EXCEPT ![c] = row]
        /\ result' = [result EXCEPT ![c] = "none"]
  /\ UNCHANGED <<row, lock, vendorVars, outsideVars>>

\* An expired grant without a refresh token is flagged outside the lock.
MarkNoRefresh(c) ==
  /\ pc[c] = "noRefresh"
  /\ row' = Flagged(row)
  /\ Finish(c, "reauth")
  /\ UNCHANGED <<lock, vendorVars, outsideVars>>

\* Mutant: an in-process lock, which a caller in another replica does not see.
AcquirePerProcess(c) ==
  /\ pc[c] = "queued"
  /\ lock' = lock \cup {c}
  /\ Goto(c, "locked")
  /\ UNCHANGED <<row, held, result, vendorVars, outsideVars>>

\* pg_advisory_xact_lock is granted.
Acquire(c) ==
  /\ pc[c] = "queued"
  /\ lock = {}
  /\ lock' = {c}
  /\ Goto(c, "locked")
  /\ UNCHANGED <<row, held, result, vendorVars, outsideVars>>

\* lock_timeout: Postgres refuses the lock to a waiter it has kept too long.
LockTimeout(c) ==
  /\ pc[c] = "queued"
  /\ lock # {}
  /\ Finish(c, "error")
  /\ UNCHANGED <<row, lock, vendorVars, outsideVars>>

\* Mutant: the call trusts the copy it read before it queued.
ReReadNothing(c) ==
  /\ pc[c] = "locked"
  /\ Goto(c, "asking")
  /\ UNCHANGED <<row, lock, held, result, vendorVars, outsideVars>>

\* Mutant: the re-read looks at the expiry and not at the flag.
ReReadExpiryOnly(c) ==
  LET current == IF row = NoRow THEN held[c] ELSE row IN
  /\ pc[c] = "locked"
  /\ held' = [held EXCEPT ![c] = current]
  /\ \/ Fresh(current) /\ Leave(c, "token")
     \/ /\ ~Fresh(current)
        /\ Goto(c, IF current.ref = NoToken THEN "mark" ELSE "asking")
        /\ UNCHANGED result
  /\ UNCHANGED <<row, lock, vendorVars, outsideVars>>

\* The re-read inside the lock.  A row that has gone meanwhile leaves the call
\* with the copy it read before it queued.
ReReadGrant(c) ==
  LET current == IF row = NoRow THEN held[c] ELSE row IN
  /\ pc[c] = "locked"
  /\ held' = [held EXCEPT ![c] = current]
  /\ \/ current.reauth /\ Leave(c, "reauth")
     \/ ~current.reauth /\ Fresh(current) /\ Leave(c, "token")
     \/ /\ ~current.reauth /\ ~Fresh(current)
        /\ Goto(c, IF current.ref = NoToken THEN "mark" ELSE "asking")
        /\ UNCHANGED result
  /\ UNCHANGED <<row, lock, vendorVars, outsideVars>>

-----------------------------------------------------------------------------
(* The vendor's token endpoint *)

\* The vendor accepts the refresh token the call presents.
Honour(c) ==
  /\ held[c].ref \in honoured
  /\ next' = next + 1
  /\ honoured' = IF Rotating THEN (honoured \ {held[c].ref}) \cup {next}
                             ELSE honoured
  /\ spent' = IF Rotating THEN spent \cup {held[c].ref} ELSE spent

\* It refuses one it does not honour, and a spent one costs the whole grant.
Refuse(c) ==
  /\ held[c].ref \notin honoured
  /\ honoured' = IF held[c].ref \in spent THEN {} ELSE honoured
  /\ UNCHANGED <<next, spent>>

Ask(c) ==
  /\ pc[c] = "asking"
  /\ asked' = asked \cup {held[c].acc}

\* The tokens arrive.
AskAnswered(c) ==
  /\ Ask(c) /\ Honour(c)
  /\ held' = [held EXCEPT ![c] =
       [acc |-> next, ref |-> IF Rotating THEN next ELSE NoToken,
        reauth |-> FALSE]]
  /\ Goto(c, "save")
  /\ UNCHANGED <<row, lock, result, outsideVars>>

\* Mutant: an answer that does not parse is thrown without flagging the grant.
AskLostUnflagged(c) ==
  /\ Ask(c) /\ Honour(c) /\ Count("lost")
  /\ Leave(c, "error")
  /\ UNCHANGED <<row, lock, held, consent, expired>>

\* The vendor has served the refresh but the answer never arrives whole.
AskLost(c) ==
  /\ Ask(c) /\ Honour(c) /\ Count("lost")
  /\ Goto(c, "mark")
  /\ UNCHANGED <<row, lock, held, result, consent, expired>>

\* Mutant: a refusal is retried for as long as it lasts.
AskRefusedRetried(c) ==
  /\ Ask(c) /\ Refuse(c)
  /\ UNCHANGED <<row, lock, pc, held, result, outsideVars>>

\* The vendor says no.
AskRefused(c) ==
  /\ Ask(c) /\ Refuse(c)
  /\ Goto(c, "mark")
  /\ UNCHANGED <<row, lock, held, result, outsideVars>>

\* The request fails before the vendor acts on it: a connection error, a 5xx,
\* a client id missing from the environment.
AskTransient(c) ==
  /\ Ask(c) /\ Count("lost")
  /\ Goto(c, "mark")
  /\ UNCHANGED <<row, lock, held, result, consent, expired, next, honoured,
                 spent>>

-----------------------------------------------------------------------------
(* Storing what came back *)

Save(c) ==
  /\ pc[c] = "save"
  /\ row' = Upsert(row, held[c])
  /\ Leave(c, "token")
  /\ UNCHANGED <<lock, held, vendorVars, outsideVars>>

\* The save throws, and the catch that surrounds it treats the failure as a
\* rejected refresh.
SaveFails(c) ==
  /\ pc[c] = "save"
  /\ Count("dberr")
  /\ Goto(c, "mark")
  /\ UNCHANGED <<row, lock, held, result, vendorVars, consent, expired>>

Mark(c) ==
  /\ pc[c] = "mark"
  /\ row' = Flagged(row)
  /\ Leave(c, "reauth")
  /\ UNCHANGED <<lock, held, vendorVars, outsideVars>>

\* COMMIT ends the transaction and with it the lock.
Commit(c) ==
  /\ pc[c] = "commit"
  /\ lock' = lock \ {c}
  /\ Finish(c, result[c])
  /\ UNCHANGED <<row, vendorVars, outsideVars>>

\* A query of the call's own fails: it ends with the database's error, through
\* the COMMIT when it held the lock.
QueryFails(c) ==
  /\ Count("dberr")
  /\ \/ pc[c] \in {"noRefresh", "queued"} /\ Finish(c, "error") /\ UNCHANGED lock
     \/ /\ pc[c] \in {"locked", "mark"} /\ Leave(c, "error")
        /\ UNCHANGED <<held, lock>>
     \/ pc[c] = "commit" /\ Finish(c, "error") /\ lock' = lock \ {c}
  /\ UNCHANGED <<row, vendorVars, consent, expired>>

\* The replica dies: its connection closes and Postgres frees the lock.
Crash(c) ==
  /\ pc[c] # "idle"
  /\ Count("crash")
  /\ lock' = lock \ {c}
  /\ Finish(c, "none")
  /\ UNCHANGED <<row, vendorVars, consent, expired>>

-----------------------------------------------------------------------------
(* Everything else that touches the grant *)

\* A token reaches the minute before its expiry.
Expire(t) ==
  /\ t \notin expired
  /\ Count("expire")
  /\ expired' = expired \cup {t}
  /\ UNCHANGED <<row, lock, pc, held, result, consent, vendorVars>>

\* The vendor answers a connect's code exchange, with a refresh token or, as
\* when the account has consented before, without one.  The two kinds share
\* the bound on consents.
ExchangeCode ==
  /\ used["consent"] + used["bare"] < Bound["consent"]
  /\ \E ref \in {next, NoToken} :
       /\ Count(IF ref = NoToken THEN "bare" ELSE "consent")
       /\ consent' = consent \cup {[acc |-> next, ref |-> ref]}
       /\ honoured' = (honoured \cup {ref}) \ {NoToken}
  /\ next' = next + 1
  /\ UNCHANGED <<row, lock, pc, held, result, expired, spent, asked>>

\* The connect saves its tokens; nothing takes the refresh lock for it.
SaveConsent(t) ==
  /\ row' = Upsert(row, t)
  /\ consent' = consent \ {t}
  /\ UNCHANGED <<lock, pc, held, result, vendorVars, expired, used>>

\* The last provider on the grant is disconnected; no lock here either.
Drop ==
  /\ row # NoRow
  /\ Count("drop")
  /\ row' = NoRow
  /\ UNCHANGED <<lock, pc, held, result, vendorVars, consent, expired>>

\* The account's owner withdraws the consents at the vendor.
Revoke ==
  /\ honoured # {}
  /\ Count("revoke")
  /\ honoured' = {}
  /\ UNCHANGED <<row, lock, pc, held, result, consent, next, expired, spent,
                 asked>>

-----------------------------------------------------------------------------

Step(c) ==
  \/ MarkNoRefresh(c) \/ Acquire(c) \/ LockTimeout(c) \/ ReReadGrant(c)
  \/ AskAnswered(c) \/ AskLost(c) \/ AskRefused(c) \/ AskTransient(c)
  \/ Save(c) \/ SaveFails(c) \/ Mark(c) \/ Commit(c) \/ QueryFails(c)

Outside ==
  \/ \E t \in 1 .. next - 1 : Expire(t)
  \/ ExchangeCode
  \/ \E t \in consent : SaveConsent(t)
  \/ Drop
  \/ Revoke

Next ==
  \/ \E c \in Callers : ReadGrant(c) \/ Step(c) \/ Crash(c)
  \/ Outside

Spec == Init /\ [][Next]_vars

\* A call that has begun keeps taking steps: every await it is stopped at is
\* answered or fails, the lock wait after LOCK_TIMEOUT, the vendor's request
\* when the connection or the client gives up.
Fairness == \A c \in Callers : WF_vars(Step(c))

FairSpec == Spec /\ Fairness

-----------------------------------------------------------------------------
(* Properties *)

\* What the promises about refreshing rest on: so far nobody has deleted the
\* grant, no replica has died and no query has failed between the vendor's
\* answer and its save; and every reconnect brought a refresh token of its own.
Undisturbed == \A k \in {"bare", "drop", "crash", "dberr"} : used[k] = 0

\* No refresh token that the vendor has rotated out is presented to it again:
\* "spending the rotated token again is the revoke" (grants.ts:58-59).
NoReplay ==
  Undisturbed => \A c \in Callers : pc[c] = "asking" => held[c].ref \notin spent

\* Calls that race on one expired access token refresh it once between them:
\* a call about to ask the vendor works on a token nobody has asked for yet.
RefreshOnce ==
  Undisturbed => \A c \in Callers : pc[c] = "asking" => held[c].acc \notin asked

\* A grant is flagged for a human only when the vendor no longer honours what
\* is stored: as long as it does, the next call can still refresh.
FlagMeansDead == row.reauth => row.ref \notin honoured

\* Once a disconnect has dropped the grant only a connect brings one back.
DropIsFinal ==
  [][row = NoRow /\ row' # NoRow => consent' # consent]_vars

\* A call that has read an expired grant ends, whatever the vendor, the lock's
\* holder or the database do.
CallEnds == \A c \in Callers : pc[c] # "idle" ~> pc[c] = "idle"

-----------------------------------------------------------------------------
(* The inductive invariant behind NoReplay and RefreshOnce *)

\* The lock belongs to the one call that is between its grant and its COMMIT.
LockInv ==
  /\ \A c \in Callers : pc[c] \in Inside <=> c \in lock
  /\ \A c, d \in lock : c = d

\* Serials come from the vendor in order, so a new one was never seen before.
SerialInv ==
  /\ row.acc < next /\ row.ref < next
  /\ \A c \in Callers : held[c].acc < next /\ held[c].ref < next
  /\ \A t \in consent : t.acc < next /\ t.ref < next
  /\ \A t \in honoured \cup spent \cup asked : t < next

\* Token 0 stands for none: it is never spent, and no token set lacks an
\* access token.
TokenInv ==
  /\ NoToken \notin spent \cup asked \cup honoured
  /\ row # NoRow => row.acc # NoToken
  /\ \A c \in Callers :
       /\ pc[c] # "idle" => row # NoRow
       /\ pc[c] \in {"asking", "save"} => held[c].acc # NoToken
  /\ \A t \in consent : t.acc # NoToken /\ t.ref # NoToken
  /\ spent # {} => Rotating

\* The stored token is worn out only while the call that wore it out is still
\* inside the lock, on its way to replace it or to flag it.
Settling == \E c \in lock : pc[c] \in {"save", "mark"}

WornInv ==
  /\ row.ref \in spent => row.reauth \/ Settling
  /\ row.acc \in asked => row.reauth \/ Settling

\* What a call is about to ask with, or to save, is not worn out.
CallInv ==
  \A c \in Callers :
    /\ pc[c] = "asking" => held[c].ref \notin spent /\ held[c].acc \notin asked
    /\ pc[c] = "save" => /\ held[c].ref \notin spent /\ held[c].acc \notin asked
                         /\ Rotating => held[c].ref # NoToken

\* Neither is a consent on its way: no call and no row has its tokens yet.
ConsentInv ==
  \A t \in consent :
    /\ t.ref \notin spent /\ t.acc \notin asked
    /\ row.ref # t.ref /\ row.acc # t.acc
    /\ \A c \in Callers : held[c].ref # t.ref /\ held[c].acc # t.acc
    /\ \A u \in consent : u = t \/ (u.ref # t.ref /\ u.acc # t.acc)

WearInv == SerialInv /\ TokenInv /\ WornInv /\ CallInv /\ ConsentInv

RefreshInv == LockInv /\ (Undisturbed => WearInv)

-----------------------------------------------------------------------------
(* What the calls implement *)

\* The grant as the call inside the lock is about to leave it.
Saving == {c \in lock : pc[c] = "save"}

PromisedGrant ==
  IF Saving # {} THEN Upsert(row, held[CHOOSE c \in Saving : TRUE])
  ELSE IF \E c \in lock : pc[c] = "mark" THEN Flagged(row) ELSE row

\* While no connect replaces it, a grant stays as its refresher has read it.
AskInv ==
  /\ consent = {}
  /\ \A c \in Callers :
       /\ pc[c] = "asking" =>
            held[c] = row /\ ~row.reauth /\ row.acc \in expired /\ row.ref # NoToken
       /\ pc[c] = "save" =>
            ~row.reauth /\ row.ref # NoToken
       /\ pc[c] = "noRefresh" => row.ref = NoToken /\ row.acc \in expired

\* What ends the promise: a disconnect, a crash, a failing query, a reconnect.
Disturbances == {"drop", "crash", "dberr", "consent", "bare"}

Disturbed == \E k \in Disturbances : used[k] > 0

Promise == INSTANCE GrantPromise
  WITH grant <- PromisedGrant, disturbed <- Disturbed

\* Until the first of them, refreshing under the lock is the atomic refresh
\* that the resolver promises.
KeepsPromise == Promise!Spec
=============================================================================
