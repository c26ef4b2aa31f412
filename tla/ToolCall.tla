------------------------------ MODULE ToolCall ------------------------------
(***************************************************************************)
(* The calls of one workspace to one tool: meteredCall                     *)
(* (application/metering.ts) around callTool (application/call-tool.ts),   *)
(* over the enablement, idempotency and file stores.                       *)
(*                                                                         *)
(* A caller is one request in any replica, and every await separates two   *)
(* actions.  A call that carries a key is a write with an idempotency key; *)
(* a read, and a write without one, has none.  How a grant is resolved is  *)
(* module GrantRefresh: here it has an outcome.  The vendor is external    *)
(* and may never answer.  A file counts one against the workspace's quota. *)
(***************************************************************************)
EXTENDS Naturals, FiniteSets

CONSTANTS
  Callers,
  Keys,        \* idempotency keys
  NoKey,
  FileQuota    \* files a workspace may park (QUOTA_BYTES)

ASSUME CallerAssumption == IsFiniteSet(Callers) /\ Callers # {}
ASSUME KeyAssumption == NoKey \notin Keys
ASSUME QuotaAssumption == FileQuota \in Nat

VARIABLES
  on,       \* which of the two switches are on: the provider, the tool
  idem,     \* idempotency_keys: no row, a live row, one older than its TTL
  files,    \* rows of the files table within their TTL
  stale,    \* rows of the files table past it
  pc,       \* where each call stands
  key,      \* the idempotency key it replays by, or NoKey
  result,   \* how it is about to end, or was refused
  done,     \* history: keys whose result a client has and can replay
  late,     \* history: calls begun with a key that was done
  off       \* history: per call, the switches off since before it began

stores == <<on, idem, files, stale>>
history == <<done, late, off>>
vars == <<on, idem, files, stale, pc, key, result, done, late, off>>

Switches == {"provider", "tool"}

\* The codes of GatewayError, and what toEnvelope makes of any other error.
Codes == {"invalid_arguments", "invalid_credential", "provider_not_connected",
          "credential_scope_denied", "plan_blocked", "tool_not_found",
          "reauth_required", "quota_exceeded", "rate_limited",
          "upstream_error", "upstream_timeout"}
Results == Codes \cup {"none", "ok", "internal_error"}

Stages == {"idle", "provider", "tool", "lookup", "token", "asking", "sweeping",
           "measuring", "storing", "purging", "putting", "recording"}

TypeOK ==
  /\ on \subseteq Switches
  /\ idem \in [Keys -> {"absent", "live", "expired"}]
  /\ files \in Nat /\ stale \in Nat
  /\ pc \in [Callers -> Stages]
  /\ key \in [Callers -> Keys \cup {NoKey}]
  /\ result \in [Callers -> Results]
  /\ done \subseteq Keys
  /\ late \subseteq Callers
  /\ off \in [Callers -> SUBSET Switches]

Init ==
  /\ on \in SUBSET Switches
  /\ idem = [k \in Keys |-> "absent"]
  /\ files = 0 /\ stale = 0
  /\ pc = [c \in Callers |-> "idle"]
  /\ key = [c \in Callers |-> NoKey]
  /\ result = [c \in Callers |-> "none"]
  /\ done = {}
  /\ late = {}
  /\ off = [c \in Callers |-> {}]

-----------------------------------------------------------------------------
(* How a call moves *)

Goto(c, stage) == pc' = [pc EXCEPT ![c] = stage]

\* callTool returns or throws; its finally records the call.
End(c, res) == Goto(c, "recording") /\ result' = [result EXCEPT ![c] = res]

\* The call is at a stage, and moves on to another with its result open.
Pass(c, from, to) == pc[c] = from /\ Goto(c, to) /\ UNCHANGED result

\* The call is at a stage, and ends there.
Leave(c, from, res) == pc[c] = from /\ End(c, res)

-----------------------------------------------------------------------------
(* The gates in front of the vendor *)

\* assertQuota throws: there is no record of such a call.
Refuse(c) ==
  /\ pc[c] = "idle"
  /\ \E code \in {"quota_exceeded", "invalid_credential"} :
       result' = [result EXCEPT ![c] = code]
  /\ UNCHANGED <<stores, pc, key, history>>

\* assertQuota returns, and what needs no store follows at once: the name, the
\* registry and the scope of the credential.
Admit(c, k) ==
  /\ pc[c] = "idle"
  /\ key' = [key EXCEPT ![c] = k]
  /\ late' = IF k \in done THEN late \cup {c} ELSE late
  /\ off' = [off EXCEPT ![c] = Switches \ on]
  /\ \/ Goto(c, "provider") /\ result' = [result EXCEPT ![c] = "none"]
     \/ End(c, "tool_not_found")
     \/ End(c, "credential_scope_denied")
  /\ UNCHANGED <<stores, done>>

\* enabledPrefixes
ReadEnabled(c) ==
  /\ \/ "provider" \in on /\ Pass(c, "provider", "tool")
     \/ "provider" \notin on /\ Leave(c, "provider", "provider_not_connected")
  /\ UNCHANGED <<stores, key, history>>

\* Mutant: a stored result is replayed before the tool's override is read.
ReadOverridesLate(c) ==
  /\ pc[c] = "tool"
  /\ \/ key[c] \in Keys /\ idem[key[c]] = "live" /\ Leave(c, "tool", "ok")
     \/ "tool" \in on /\ Pass(c, "tool", IF key[c] = NoKey THEN "token" ELSE "lookup")
     \/ "tool" \notin on /\ Leave(c, "tool", "tool_not_found")
  /\ UNCHANGED <<stores, key, history>>

\* disabledTools
ReadOverrides(c) ==
  /\ \/ "tool" \in on /\ Pass(c, "tool", IF key[c] = NoKey THEN "token" ELSE "lookup")
     \/ "tool" \notin on /\ Leave(c, "tool", "tool_not_found")
  /\ UNCHANGED <<stores, key, history>>

\* idempotency.get: a live row answers the call.
Lookup(c) ==
  /\ pc[c] = "lookup"
  /\ \/ idem[key[c]] = "live" /\ Leave(c, "lookup", "ok")
     \/ idem[key[c]] # "live" /\ Pass(c, "lookup", "token")
  /\ UNCHANGED <<stores, key, history>>

\* accessTokenFor returns a token, returns null, or throws.
Resolve(c) ==
  /\ \/ Pass(c, "token", "asking")
     \/ \E res \in {"provider_not_connected", "reauth_required", "internal_error"} :
          Leave(c, "token", res)
  /\ UNCHANGED <<stores, key, history>>

-----------------------------------------------------------------------------
(* The vendor and the timer *)

\* Mutant: the adapter passes the vendor's own error code through.
AnswerRaw(c) ==
  /\ \/ key[c] = NoKey /\ Leave(c, "asking", "ok")
     \/ key[c] # NoKey /\ Pass(c, "asking", "purging")
     \/ Pass(c, "asking", "sweeping")
     \/ Leave(c, "asking", "notFound")
  /\ UNCHANGED <<stores, key, history>>

\* The vendor answers in time: with a result that fits inline, with bytes that
\* do not, or with an error that the adapter maps to a code.
Answer(c) ==
  /\ \/ key[c] = NoKey /\ Leave(c, "asking", "ok")
     \/ key[c] # NoKey /\ Pass(c, "asking", "purging")
     \/ Pass(c, "asking", "sweeping")
     \/ \E code \in {"upstream_error", "rate_limited", "reauth_required",
                     "credential_scope_denied", "invalid_arguments"} :
          Leave(c, "asking", code)
  /\ UNCHANGED <<stores, key, history>>

\* Mutant: a call with a key waits for its vendor without a timer.
TimeoutUnkeyed(c) ==
  /\ key[c] = NoKey
  /\ Leave(c, "asking", "upstream_timeout")
  /\ UNCHANGED <<stores, key, history>>

\* The timer wins the race; what the vendor does afterwards is lost.
Timeout(c) ==
  /\ Leave(c, "asking", "upstream_timeout")
  /\ UNCHANGED <<stores, key, history>>

-----------------------------------------------------------------------------
(* Large results become files *)

\* files.put deletes what is past its TTL,
Sweep(c) ==
  /\ Pass(c, "sweeping", "measuring")
  /\ stale' = 0
  /\ UNCHANGED <<on, idem, files, key, history>>

\* Mutant: a file is refused only once the quota is already exceeded.
MeasureLoose(c) ==
  /\ \/ files + stale <= FileQuota /\ Pass(c, "measuring", "storing")
     \/ files + stale > FileQuota /\ Leave(c, "measuring", "internal_error")
  /\ UNCHANGED <<stores, key, history>>

\* sums what is left, and throws a plain error when the quota is reached,
Measure(c) ==
  /\ \/ files + stale < FileQuota /\ Pass(c, "measuring", "storing")
     \/ files + stale >= FileQuota /\ Leave(c, "measuring", "internal_error")
  /\ UNCHANGED <<stores, key, history>>

\* and inserts.
Store(c) ==
  /\ pc[c] = "storing"
  /\ files' = files + 1
  /\ \/ key[c] = NoKey /\ End(c, "ok")
     \/ key[c] # NoKey /\ Goto(c, "purging") /\ UNCHANGED result
  /\ UNCHANGED <<on, idem, stale, key, history>>

-----------------------------------------------------------------------------
(* A write's result is kept for a replay *)

\* Mutant: expired rows are left for a cron that nobody runs.
PurgeNothing(c) ==
  /\ Pass(c, "purging", "putting")
  /\ UNCHANGED <<stores, key, history>>

\* idempotency.put deletes the workspace's expired rows,
Purge(c) ==
  /\ Pass(c, "purging", "putting")
  /\ idem' = [k \in Keys |-> IF idem[k] = "expired" THEN "absent" ELSE idem[k]]
  /\ UNCHANGED <<on, files, stale, key, history>>

\* and inserts; a row that is already there is kept.
Put(c) ==
  /\ Leave(c, "putting", "ok")
  /\ idem' = [idem EXCEPT ![key[c]] = IF @ = "absent" THEN "live" ELSE @]
  /\ UNCHANGED <<on, files, stale, key, history>>

\* recordCall commits or fails, which is the same to the client: it now has
\* the result.
Record(c) ==
  /\ pc[c] = "recording"
  /\ Goto(c, "idle")
  /\ done' = IF result[c] = "ok" THEN done \cup ({key[c]} \cap Keys) ELSE done
  /\ late' = late \ {c}
  /\ off' = [off EXCEPT ![c] = {}]
  /\ key' = [key EXCEPT ![c] = NoKey]
  /\ result' = [result EXCEPT ![c] = "none"]
  /\ UNCHANGED stores

-----------------------------------------------------------------------------
(* Failures, and everything else that touches the stores *)

\* A query of the call's own rejects: nothing maps that to a code.
QueryFails(c) ==
  /\ pc[c] \in Stages \ {"idle", "token", "asking", "recording"}
  /\ End(c, "internal_error")
  /\ UNCHANGED <<stores, key, history>>

\* The replica dies, and the client has no answer.
Crash(c) ==
  /\ pc[c] # "idle"
  /\ Goto(c, "idle")
  /\ result' = [result EXCEPT ![c] = "none"]
  /\ key' = [key EXCEPT ![c] = NoKey]
  /\ late' = late \ {c}
  /\ off' = [off EXCEPT ![c] = {}]
  /\ UNCHANGED <<stores, done>>

\* A human disconnects the provider or disables the tool.
SwitchOff(s) ==
  /\ on' = on \ {s}
  /\ UNCHANGED <<idem, files, stale, pc, key, result, history>>

\* A human connects the provider or enables the tool.
SwitchOn(s) ==
  /\ on' = on \cup {s}
  /\ off' = [c \in Callers |-> off[c] \ {s}]
  /\ UNCHANGED <<idem, files, stale, pc, key, result, done, late>>

\* A row turns 24 hours old.  No call lasts that long: one that has looked for
\* the row, or is being recorded, ends long before the row expires.
ExpireKey(k) ==
  /\ idem[k] = "live"
  /\ \A c \in Callers : key[c] = k => pc[c] \in {"provider", "tool", "lookup"}
  /\ idem' = [idem EXCEPT ![k] = "expired"]
  /\ done' = done \ {k}
  /\ late' = {c \in late : key[c] # k}
  /\ UNCHANGED <<on, files, stale, pc, key, result, off>>

ExpireFile ==
  /\ files > 0
  /\ files' = files - 1 /\ stale' = stale + 1
  /\ UNCHANGED <<on, idem, pc, key, result, history>>

-----------------------------------------------------------------------------

\* What the gateway itself does for a call, the timer included.
Step(c) ==
  \/ ReadEnabled(c) \/ ReadOverrides(c) \/ Lookup(c) \/ Resolve(c) \/ Timeout(c)
  \/ Sweep(c) \/ Measure(c) \/ Store(c) \/ Purge(c) \/ Put(c) \/ Record(c)

Next ==
  \/ \E c \in Callers :
       \/ Refuse(c) \/ Step(c) \/ Answer(c) \/ QueryFails(c) \/ Crash(c)
       \/ \E k \in Keys \cup {NoKey} : Admit(c, k)
  \/ \E s \in Switches : SwitchOff(s) \/ SwitchOn(s)
  \/ \E k \in Keys : ExpireKey(k)
  \/ ExpireFile

Spec == Init /\ [][Next]_vars

\* Queries return, the grant is resolved and the timer fires; the vendor owes
\* nothing.
Fairness == \A c \in Callers : WF_vars(Step(c))

FairSpec == Spec /\ Fairness

-----------------------------------------------------------------------------
(* Properties *)

\* A write that its client has a result of is not performed again: whoever
\* calls with the same key afterwards, while the row lives, gets the replay
\* (call-tool.ts:63-69, idempotency-store.ts:19-35).
PerformedOnce == \A c \in late : pc[c] # "asking"

\* A call begun after the provider was disconnected or the tool disabled, and
\* not undone since, neither reaches the vendor nor gets a stored result.
OffIsOff ==
  \A c \in Callers : off[c] # {} =>
    /\ pc[c] \in {"idle", "provider", "tool", "recording"}
    /\ pc[c] = "recording" => result[c] # "ok"

\* Files are measured and inserted in two statements, so calls that race can
\* pass the quota, by no more than there are of them.
FilesBounded == files + stale <= FileQuota + Cardinality(Callers) - 1

\* What each of the three rests on.  A done key has a live row, and whoever is
\* about to make one done has seen to it.
PerformedInv ==
  /\ \A k \in done : idem[k] = "live"
  /\ \A c \in late :
       /\ key[c] \in done
       /\ pc[c] \in {"provider", "tool", "lookup", "recording"}
  /\ \A c \in Callers : key[c] \in Keys =>
       /\ pc[c] = "recording" /\ result[c] = "ok" => idem[key[c]] = "live"
       /\ pc[c] = "putting" => idem[key[c]] # "expired"
  /\ \A c \in Callers : pc[c] \in {"lookup", "purging", "putting"} => key[c] # NoKey

\* A switch that is off since before the call stops it where it is read.
OffInv ==
  \A c \in Callers :
    /\ off[c] \cap on = {}
    /\ pc[c] = "idle" => off[c] = {}
    /\ "provider" \in off[c] => pc[c] # "tool"

\* Every call between the measure and the insert may add one.
Storing == {c \in Callers : pc[c] = "storing"}
FilesInv ==
  files + stale + Cardinality(Storing) <= FileQuota + Cardinality(Callers) - 1

\* Every call that is admitted ends, whatever the vendor does.
CallEnds == \A c \in Callers : pc[c] # "idle" ~> pc[c] = "idle"
=============================================================================
