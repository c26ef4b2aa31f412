---------------------------- MODULE GrantPromise ----------------------------
(***************************************************************************)
(* What the refresh of a grant promises its callers, whatever number of    *)
(* them race for it (application/grants.ts:54-59): asking the vendor and   *)
(* storing its answer are one step, taken once for an expired access       *)
(* token, and always with a refresh token the vendor has not rotated out.  *)
(* There are no callers, no lock and no request in flight here, and the    *)
(* vendor has no memory of spent tokens because none ever comes back.      *)
(* The promise ends with the first disconnect, reconnect, crash or failing *)
(* query: from then on anything may become of the grant.                   *)
(***************************************************************************)
EXTENDS Naturals

CONSTANT Rotating

VARIABLES grant, honoured, next, expired, disturbed

vars == <<grant, honoured, next, expired, disturbed>>

NoToken == 0

\* The grant as a fresh consent leaves it, or none.
Init ==
  /\ grant.reauth = FALSE
  /\ expired = {}
  /\ honoured = {grant.ref} \ {NoToken}
  /\ next = 2
  /\ disturbed = FALSE

Refreshable ==
  grant.acc \in expired /\ ~grant.reauth /\ grant.ref # NoToken

\* The vendor takes the stored refresh token, and a rotating one replaces it.
Spend ==
  /\ grant.ref \in honoured
  /\ next' = next + 1
  /\ honoured' = IF Rotating THEN (honoured \ {grant.ref}) \cup {next}
                             ELSE honoured

Refresh ==
  /\ Refreshable /\ Spend
  /\ grant' = [acc |-> next, ref |-> IF Rotating THEN next ELSE grant.ref,
               reauth |-> FALSE]
  /\ UNCHANGED expired

\* The answer is a refusal, or none at all: a human has to reconnect.
GiveUp ==
  /\ grant.acc \in expired /\ ~grant.reauth
  /\ Spend \/ UNCHANGED <<honoured, next>>
  /\ grant' = [grant EXCEPT !.reauth = TRUE]
  /\ UNCHANGED expired

Expire(t) ==
  /\ expired' = expired \cup {t}
  /\ UNCHANGED <<grant, honoured, next>>

Revoke ==
  /\ honoured' = {}
  /\ UNCHANGED <<grant, next, expired>>

Next ==
  \/ disturbed' = TRUE
  \/ /\ disturbed' = FALSE
     /\ Refresh \/ GiveUp \/ (\E t \in 1 .. next - 1 : Expire(t)) \/ Revoke

Spec == Init /\ [][Next]_vars
=============================================================================
