--------------------------- MODULE SurfacesProofs ---------------------------
(***************************************************************************)
(* Proofs about Surfaces, for any number of requests, administrators and   *)
(* credentials, any registry and any rate.                                 *)
(***************************************************************************)
EXTENDS Surfaces, FiniteSetTheorems, WellFoundedInduction, TLAPS

LEMMA Division ==
  ASSUME NEW t \in Nat, NEW d \in Nat \ {0}
  PROVE  t \div d \in Nat /\ t % d \in 0 .. d - 1 /\ t = d * (t \div d) + (t % d)
OBVIOUS

LEMMA Below ==
  ASSUME NEW d \in Nat \ {0}, NEW p \in Nat, NEW q \in Nat, q > p
  PROVE  d * q >= d * p + d
OBVIOUS

LEMMA DivisionAdds ==
  ASSUME NEW x \in Nat, NEW y \in Nat, NEW d \in Nat \ {0}
  PROVE  (x \div d) + (y \div d) <= (x + y) \div d
<1> DEFINE a == x \div d
           b == y \div d
           c == (x + y) \div d
<1>1. a \in Nat /\ b \in Nat /\ c \in Nat
  BY Division
<1>2. d * a <= x /\ d * b <= y /\ x + y < d * c + d
  BY Division
<1>3. ASSUME a + b > c PROVE FALSE
  <2> HIDE DEF a, b, c
  <2>1. d * (a + b) >= d * c + d
    BY <1>1, <1>3, Below
  <2>2. d * (a + b) = d * a + d * b
    BY <1>1
  <2> QED
    BY <2>1, <2>2, <1>1, <1>2
<1> QED
  BY <1>1, <1>3

\* At least half of what is divided survives the rounding, if anything does.
LEMMA HalfSurvives ==
  ASSUME NEW x \in Nat, NEW d \in Nat \ {0}, x \div d > 0
  PROVE  2 * (d * (x \div d)) >= x
<1> DEFINE q == x \div d
<1>1. q \in Nat /\ x < d * q + d
  BY Division
<1>2. q > 0
  OBVIOUS
<1> HIDE DEF q
<1>3. d * q >= d * 0 + d /\ d * q \in Nat
  BY <1>1, <1>2, Below
<1>4. 2 * (d * q) >= x
  BY <1>1, <1>3
<1> QED
  BY <1>4 DEF q

USE RegistryAssumption, ScopeAssumption, RateAssumption, BoundAssumption

-----------------------------------------------------------------------------
(* Types *)

\* The stages at which a request has a credential.
Held == {"known", "admitted", "enabled", "answered"}

Typed(r) ==
  /\ req[r].at \in {"known", "admitted"} =>
       req[r] = [at |-> req[r].at, kind |-> req[r].kind, tool |-> req[r].tool,
                 cred |-> req[r].cred, scope |-> req[r].scope, begun |-> req[r].begun]
  /\ req[r].at \in Held =>
       /\ req[r].kind \in Kinds /\ req[r].cred \in Credentials
       /\ req[r].scope \in Scopes /\ req[r].begun \in Nat
       /\ req[r].kind \notin Lists => req[r].tool \in Tools
  /\ req[r].at = "enabled" => req[r].on \subseteq Prefixes

AdminTyped(a) ==
  IF admin[a].at = "idle" THEN admin[a] = Idle
  ELSE admin[a] = [at |-> admin[a].at, action |-> admin[a].action, target |-> admin[a].target]

\* The types with what the steps read of a request's and an admin's record.
TypeInv ==
  /\ TypeOK
  /\ bucket = [tokens |-> bucket.tokens, refilledAt |-> bucket.refilledAt]
  /\ req = [r \in Requests |-> req[r]]
  /\ \A r \in Requests : Typed(r)
  /\ admin = [a \in Admins |-> admin[a]]
  /\ \A a \in Admins : AdminTyped(a)

LEMMA TypeInit == Init => TypeInv
<1> SUFFICES ASSUME Init PROVE TypeInv
  OBVIOUS
<1> USE DEF Init
<1>1. creds \in [Credentials -> [state : {"none", "live", "revoked"}, scope : Scopes]]
  <2>1. (CHOOSE s \in Scopes : TRUE) \in Scopes
    OBVIOUS
  <2> QED
    BY <2>1
<1>2. TypeOK
  BY <1>1 DEF TypeOK, Idle
<1>3. \A r \in Requests : req[r] = Idle
  OBVIOUS
<1>4. \A a \in Admins : admin[a] = Idle
  OBVIOUS
<1>5. \A r \in Requests : Typed(r)
  BY <1>3 DEF Typed, Idle, Held
<1>6. \A a \in Admins : AdminTyped(a)
  BY <1>4 DEF AdminTyped, Idle
<1> QED
  BY <1>2, <1>5, <1>6 DEF TypeInv

\* What the limiter refills.
LEMMA RefillTyped ==
  ASSUME TypeInv
  PROVE  /\ Refill \in Nat
         /\ Refilled.tokens \in 0 .. PerMinute /\ Refilled.refilledAt \in 0 .. now
         /\ Refilled = [tokens |-> Refilled.tokens, refilledAt |-> Refilled.refilledAt]
<1>1. now \in Nat /\ bucket.refilledAt \in 0 .. now /\ bucket.tokens \in 0 .. PerMinute
  BY DEF TypeInv, TypeOK
<1>2. (now - bucket.refilledAt) * PerMinute \in Nat
  <2>1. now - bucket.refilledAt \in Nat
    BY <1>1
  <2> QED
    BY <2>1
<1>3. Refill \in Nat
  BY <1>2, Division DEF Refill
<1> QED
  BY <1>1, <1>3 DEF Refilled, Least, TypeInv

\* A step that replaces one request's record keeps the types if that record has them.
LEMMA RequestKept ==
  ASSUME TypeInv, NEW r \in Requests, NEW rec, Set(r, rec), UNCHANGED Others,
         rec.at \in {"idle", "known", "admitted", "enabled", "answered", "mixed", "failed"},
         rec.at \in {"known", "admitted"} =>
           rec = [at |-> rec.at, kind |-> rec.kind, tool |-> rec.tool,
                  cred |-> rec.cred, scope |-> rec.scope, begun |-> rec.begun],
         rec.at \in Held =>
           /\ rec.kind \in Kinds /\ rec.cred \in Credentials
           /\ rec.scope \in Scopes /\ rec.begun \in Nat
           /\ rec.kind \notin Lists => rec.tool \in Tools,
         rec.at = "enabled" => rec.on \subseteq Prefixes,
         bucket'.tokens \in 0 .. PerMinute, bucket'.refilledAt \in 0 .. now,
         bucket' = [tokens |-> bucket'.tokens, refilledAt |-> bucket'.refilledAt],
         admitted' \in Nat, earned' \in Nat
  PROVE  TypeInv'
<1>1. req'[r] = rec /\ \A q \in Requests \ {r} : req'[q] = req[q]
  BY DEF TypeInv, Set
<1>2. req' = [q \in Requests |-> req'[q]]
  BY DEF TypeInv, Set
<1>3. UNCHANGED <<now, creds, enabled, disabled, plan, admin, audit, version>>
  BY DEF Others, switches, plane
<1>4. \A q \in Requests :
        req'[q].at \in {"idle", "known", "admitted", "enabled", "answered", "mixed", "failed"}
  <2>1. ASSUME NEW q \in Requests \ {r} PROVE req'[q].at \in
           {"idle", "known", "admitted", "enabled", "answered", "mixed", "failed"}
    BY <1>1 DEF TypeInv, TypeOK
  <2> QED
    BY <1>1, <2>1
<1>5. TypeOK'
  BY <1>3, <1>4 DEF TypeInv, TypeOK
<1>6. \A q \in Requests : Typed(q)'
  <2>1. ASSUME NEW q \in Requests \ {r} PROVE Typed(q)'
    BY <1>1, <1>3 DEF TypeInv, Typed
  <2>2. Typed(r)'
    BY <1>1 DEF Typed
  <2> QED
    BY <2>1, <2>2
<1>7. \A a \in Admins : AdminTyped(a)'
  BY <1>3 DEF TypeInv, AdminTyped
<1> QED
  BY <1>2, <1>3, <1>5, <1>6, <1>7 DEF TypeInv

LEMMA LimiterTyped ==
  ASSUME TypeInv, UNCHANGED limiter
  PROVE  /\ bucket'.tokens \in 0 .. PerMinute /\ bucket'.refilledAt \in 0 .. now
         /\ bucket' = [tokens |-> bucket'.tokens, refilledAt |-> bucket'.refilledAt]
         /\ admitted' \in Nat /\ earned' \in Nat
BY DEF TypeInv, TypeOK, limiter

LEMMA AnswerTyped ==
  ASSUME TypeInv, NEW r \in Requests, NEW tools, NEW whole \in BOOLEAN,
         req[r].at \in {"admitted", "enabled"}, Answer(r, tools, whole)
  PROVE  TypeInv'
<1> DEFINE rec == IF req[r].begun # version THEN [at |-> "mixed"]
            ELSE [at |-> "answered", kind |-> req[r].kind, tool |-> req[r].tool,
                  cred |-> req[r].cred, scope |-> req[r].scope, begun |-> req[r].begun,
                  tools |-> tools, whole |-> whole]
<1>1. Set(r, rec) /\ UNCHANGED Others /\ UNCHANGED limiter
  BY DEF Answer
<1>2. Typed(r)
  BY DEF TypeInv
<1>3. /\ rec.at \in {"mixed", "answered"}
      /\ rec.at = "answered" =>
           /\ rec.kind \in Kinds /\ rec.cred \in Credentials
           /\ rec.scope \in Scopes /\ rec.begun \in Nat
           /\ rec.kind \notin Lists => rec.tool \in Tools
  BY <1>2 DEF Typed, Held
<1> HIDE DEF rec
<1> QED
  BY <1>1, <1>3, LimiterTyped, RequestKept DEF Held

LEMMA BeginTyped ==
  ASSUME TypeInv, NEW r \in Requests, NEW c \in Credentials, NEW kind \in Kinds, NEW t,
         kind \notin Lists => t \in Tools, Authenticate(r, c, kind, t)
  PROVE  TypeInv'
<1> PICK rec : rec = [at |-> IF kind \in {"rest_list", "rest_search"} THEN "admitted" ELSE "known",
             kind |-> kind, tool |-> t, cred |-> c, scope |-> creds[c].scope, begun |-> version]
  OBVIOUS
<1>1. Set(r, rec) /\ UNCHANGED Others /\ UNCHANGED limiter
  BY DEF Authenticate
<1>2. creds[c].scope \in Scopes /\ version \in Nat
  BY DEF TypeInv, TypeOK
<1>3. /\ rec.at \in {"known", "admitted"}
      /\ rec = [at |-> rec.at, kind |-> rec.kind, tool |-> rec.tool,
                  cred |-> rec.cred, scope |-> rec.scope, begun |-> rec.begun]
      /\ rec.kind \in Kinds /\ rec.cred \in Credentials
      /\ rec.scope \in Scopes /\ rec.begun \in Nat
      /\ rec.kind \notin Lists => rec.tool \in Tools
  BY <1>2
<1> QED
  BY <1>1, <1>3, LimiterTyped, RequestKept

LEMMA StepTyped ==
  ASSUME TypeInv, NEW r \in Requests, Step(r)
  PROVE  TypeInv'
<1>0. Typed(r) /\ req[r].at \in {"idle", "known", "admitted", "enabled", "answered", "mixed", "failed"}
  BY DEF TypeInv, TypeOK
<1>1. CASE Limit(r)
  <2>1. UNCHANGED Others /\ earned' = earned + Refill /\ earned' \in Nat
    BY <1>1, RefillTyped DEF Limit, TypeInv, TypeOK
  <2>2. CASE Refilled.tokens = 0 /\ bucket' = Refilled /\ Set(r, Gone) /\ UNCHANGED admitted
    <3>1. admitted' \in Nat
      BY <2>2 DEF TypeInv, TypeOK
    <3>2. Gone.at = "failed"
      BY DEF Gone
    <3> QED
      BY <2>1, <2>2, <3>1, <3>2, RefillTyped, RequestKept DEF Held
  <2>3. CASE /\ Refilled.tokens > 0 /\ bucket' = [Refilled EXCEPT !.tokens = @ - 1]
             /\ Set(r, [req[r] EXCEPT !.at = "admitted"]) /\ admitted' = admitted + 1
    <3>1. admitted' \in Nat
      BY <2>3 DEF TypeInv, TypeOK
    <3>2. bucket' = [tokens |-> Refilled.tokens - 1, refilledAt |-> Refilled.refilledAt]
      BY <2>3, RefillTyped
    <3>3. PICK rec : rec = [at |-> "admitted", kind |-> req[r].kind, tool |-> req[r].tool,
                 cred |-> req[r].cred, scope |-> req[r].scope, begun |-> req[r].begun]
      OBVIOUS
    <3>4. [req[r] EXCEPT !.at = "admitted"] = rec
      BY <1>0, <1>1, <3>3 DEF Limit, Typed
    <3>5. /\ rec.kind \in Kinds /\ rec.cred \in Credentials
          /\ rec.scope \in Scopes /\ rec.begun \in Nat
          /\ rec.kind \notin Lists => rec.tool \in Tools
      BY <1>0, <1>1, <3>3 DEF Limit, Typed, Held
    <3>6. /\ rec.at = "admitted"
          /\ rec = [at |-> rec.at, kind |-> rec.kind, tool |-> rec.tool,
                    cred |-> rec.cred, scope |-> rec.scope, begun |-> rec.begun]
      BY <3>3
    <3>7. Set(r, rec)
      BY <2>3, <3>4
    <3>8. /\ bucket'.tokens \in 0 .. PerMinute /\ bucket'.refilledAt \in 0 .. now
          /\ bucket' = [tokens |-> bucket'.tokens, refilledAt |-> bucket'.refilledAt]
      BY <2>3, <3>2, RefillTyped
    <3> QED
      BY <2>1, <3>1, <3>5, <3>6, <3>7, <3>8, RequestKept
  <2> QED
    BY <1>1, <2>2, <2>3 DEF Limit
<1>2. CASE Deny(r)
  <2>1. req[r].at \in {"admitted", "enabled"} /\ Answer(r, {}, FALSE)
    BY <1>2 DEF Deny
  <2> QED
    BY <2>1, AnswerTyped
<1>3. CASE ReadEnabled(r)
  <2>1. PICK rec : rec = [at |-> "enabled", kind |-> req[r].kind, tool |-> req[r].tool,
             cred |-> req[r].cred, scope |-> req[r].scope, begun |-> req[r].begun, on |-> enabled]
    OBVIOUS
  <2>2. Set(r, rec) /\ UNCHANGED Others /\ UNCHANGED limiter
    BY <1>3, <2>1 DEF ReadEnabled
  <2>3. /\ rec.at = "enabled" /\ rec.kind \in Kinds /\ rec.cred \in Credentials
        /\ rec.scope \in Scopes /\ rec.begun \in Nat
        /\ rec.kind \notin Lists => rec.tool \in Tools
        /\ rec.on \subseteq Prefixes
    BY <1>0, <1>3, <2>1 DEF ReadEnabled, Typed, Held, TypeInv, TypeOK
  <2> QED
    BY <2>2, <2>3, LimiterTyped, RequestKept DEF Held
<1>4. CASE AnswerList(r)
  BY <1>4, AnswerTyped DEF AnswerList
<1>5. CASE AnswerSearch(r)
  <2>1. req[r].at \in {"admitted", "enabled"} /\ \E tools : Answer(r, tools, FALSE)
    BY <1>5 DEF AnswerSearch
  <2> QED
    BY <2>1, AnswerTyped
<1>6. CASE Gate(r)
  <2>1. req[r].at \in {"admitted", "enabled"} /\ Answer(r, {req[r].tool} \cap Found(r), FALSE)
    BY <1>6 DEF Gate
  <2> QED
    BY <2>1, AnswerTyped
<1>7. CASE Fail(r)
  <2>1. Gone.at = "failed"
    BY DEF Gone
  <2> QED
    BY <1>7, <2>1, LimiterTyped, RequestKept DEF Fail, Held
<1> QED
  BY <1>1, <1>2, <1>3, <1>4, <1>5, <1>6, <1>7 DEF Step

\* A step that replaces one admin's record keeps the types if that record has them.
LEMMA AdminKept ==
  ASSUME TypeInv, NEW a \in Admins, NEW rec, admin' = [admin EXCEPT ![a] = rec],
         UNCHANGED Agents,
         rec.at \in {"changed", "read", "audited", "answered", "failed"},
         rec = [at |-> rec.at, action |-> rec.action, target |-> rec.target],
         creds' \in [Credentials -> [state : {"none", "live", "revoked"}, scope : Scopes]],
         enabled' \subseteq Prefixes, disabled' \subseteq Tools,
         plan' \in Plans \cup {FirstPlan},
         version' \in Nat, \A e \in audit' : e.by \in Admins
  PROVE  TypeInv'
<1>1. admin'[a] = rec /\ \A b \in Admins \ {a} : admin'[b] = admin[b]
  BY DEF TypeInv
<1>2. admin' = [b \in Admins |-> admin'[b]]
  BY DEF TypeInv
<1>3. UNCHANGED <<now, bucket, admitted, earned, req>>
  BY DEF Agents, limiter
<1>4. \A b \in Admins : admin'[b].at \in {"idle", "changed", "read", "audited", "answered", "failed"}
  BY <1>1 DEF TypeInv, TypeOK
<1>5. TypeOK'
  BY <1>3, <1>4 DEF TypeInv, TypeOK
<1>6. \A r \in Requests : Typed(r)'
  BY <1>3 DEF TypeInv, Typed
<1>7. \A b \in Admins : AdminTyped(b)'
  <2>1. ASSUME NEW b \in Admins \ {a} PROVE AdminTyped(b)'
    BY <1>1 DEF TypeInv, AdminTyped
  <2>2. AdminTyped(a)'
    BY <1>1 DEF AdminTyped
  <2> QED
    BY <2>1, <2>2
<1> QED
  BY <1>2, <1>3, <1>5, <1>6, <1>7 DEF TypeInv

LEMMA ChangeTyped ==
  ASSUME TypeInv, NEW a \in Admins, NEW action, NEW target, Change(a, action, target),
         creds' \in [Credentials -> [state : {"none", "live", "revoked"}, scope : Scopes]],
         enabled' \subseteq Prefixes, disabled' \subseteq Tools,
         plan' \in Plans \cup {FirstPlan}, version' \in Nat
  PROVE  TypeInv'
<1> PICK rec : rec = [at |-> IF action = "plan.changed" THEN "changed" ELSE "read",
                      action |-> action, target |-> target]
  OBVIOUS
<1>1. admin' = [admin EXCEPT ![a] = rec] /\ UNCHANGED Agents /\ UNCHANGED audit
  BY DEF Change
<1>2. \A e \in audit' : e.by \in Admins
  BY <1>1 DEF TypeInv, TypeOK
<1>3. /\ rec.at \in {"changed", "read"}
      /\ rec = [at |-> rec.at, action |-> rec.action, target |-> rec.target]
  OBVIOUS
<1> QED
  BY <1>1, <1>2, <1>3, AdminKept

LEMMA SwitchTyped ==
  ASSUME TypeInv, NEW a \in Admins, NEW action, NEW target, Switch(a, action, target),
         creds' \in [Credentials -> [state : {"none", "live", "revoked"}, scope : Scopes]],
         enabled' \subseteq Prefixes, disabled' \subseteq Tools
  PROVE  TypeInv'
<1>1. plan' \in Plans \cup {FirstPlan} /\ version' \in Nat
  BY DEF Switch, TypeInv, TypeOK
<1>2. Change(a, action, target)
  BY DEF Switch
<1> QED
  BY <1>1, <1>2, ChangeTyped

\* The record of an admin request as ReadBack, Record, Reply and Stop leave it.
LEMMA AdminSet ==
  ASSUME NEW a, AdminTyped(a), admin[a].at # "idle", NEW at, NEW new
  PROVE  /\ [admin[a] EXCEPT !.at = at] =
              [at |-> at, action |-> admin[a].action, target |-> admin[a].target]
         /\ [admin[a] EXCEPT !.at = at, !.target = new] =
              [at |-> at, action |-> admin[a].action, target |-> new]
<1>1. PICK m : m = admin[a]
  OBVIOUS
<1>2. m = [at |-> m.at, action |-> m.action, target |-> m.target]
  BY <1>1 DEF AdminTyped
<1>3. PICK was, act, old : was = m.at /\ act = m.action /\ old = m.target
  OBVIOUS
<1>4. m = [at |-> was, action |-> act, target |-> old]
  BY <1>2, <1>3
<1>5. PICK n : n = [m EXCEPT !.at = at]
  OBVIOUS
<1>6. n = [at |-> at, action |-> act, target |-> old]
  BY <1>4, <1>5
<1>7. [n EXCEPT !.target = new] = [at |-> at, action |-> act, target |-> new]
  BY <1>6
<1>8. [m EXCEPT !.at = at, !.target = new] = [n EXCEPT !.target = new]
  BY <1>5, Zenon
<1> QED
  BY <1>1, <1>3, <1>5, <1>6, <1>7, <1>8, Zenon

\* Once a change is made its request moves on, and reads the plan it has changed.
LEMMA AdminMove ==
  ASSUME TypeInv, NEW a \in Admins, ReadBack(a) \/ Record(a) \/ Reply(a) \/ Stop(a)
  PROVE  \E rec :
           /\ admin' = [admin EXCEPT ![a] = rec]
           /\ rec.at \in {"changed", "read", "audited", "answered", "failed"}
           /\ rec = [at |-> rec.at, action |-> rec.action, target |-> rec.target]
           /\ rec.action = admin[a].action
           /\ IF ReadBack(a) THEN rec.at = "read" /\ rec.target = plan
                             ELSE rec.target = admin[a].target
           /\ Record(a) => rec.at = "audited"
           /\ Reply(a) => rec.at = "answered"
           /\ Stop(a) => rec.at = "failed"
<1>1. AdminTyped(a) /\ admin[a].at # "idle"
  BY DEF TypeInv, ReadBack, Record, Reply, Stop
<1>2. /\ ReadBack(a) => admin[a].at = "changed"
      /\ Record(a) => admin[a].at = "read"
      /\ Reply(a) => admin[a].at = "audited"
      /\ ~(Record(a) /\ Stop(a)) /\ ~(Reply(a) /\ Stop(a)) /\ ~(ReadBack(a) /\ Stop(a))
  <2>1. ASSUME NEW at, admin' = [admin EXCEPT ![a].at = at] PROVE admin'[a].at = at
    <3>1. [admin[a] EXCEPT !.at = at].at = at
      BY <1>1, AdminSet
    <3> QED
      BY <2>1, <3>1 DEF TypeInv
  <2>2. ReadBack(a) => admin'[a].at = "read"
    <3>1. [admin[a] EXCEPT !.at = "read", !.target = plan].at = "read"
      BY <1>1, AdminSet
    <3> QED
      BY <3>1 DEF TypeInv, ReadBack
  <2> QED
    BY <2>1, <2>2 DEF ReadBack, Record, Reply, Stop
<1>3. CASE ReadBack(a)
  <2>1. PICK rec : rec = [at |-> "read", action |-> admin[a].action, target |-> plan]
    OBVIOUS
  <2>2. [admin[a] EXCEPT !.at = "read", !.target = plan] = rec
    BY <1>1, <2>1, AdminSet, Zenon
  <2>3. admin' = [admin EXCEPT ![a] = rec]
    BY <1>3, <2>2 DEF ReadBack, TypeInv
  <2>4. rec.at = "read" /\ rec.action = admin[a].action /\ rec.target = plan
    BY <2>1
  <2>5. rec = [at |-> rec.at, action |-> rec.action, target |-> rec.target]
    BY <2>1, <2>4, Zenon
  <2>6. ~Record(a) /\ ~Reply(a) /\ ~Stop(a)
    BY <1>2, <1>3
  <2> WITNESS rec
  <2> QED
    BY <1>3, <2>3, <2>4, <2>5, <2>6
<1>4. ASSUME NEW at \in {"audited", "answered", "failed"},
             admin' = [admin EXCEPT ![a].at = at], ~ReadBack(a),
             Record(a) => at = "audited", Reply(a) => at = "answered", Stop(a) => at = "failed"
      PROVE  \E rec :
           /\ admin' = [admin EXCEPT ![a] = rec]
           /\ rec.at \in {"changed", "read", "audited", "answered", "failed"}
           /\ rec = [at |-> rec.at, action |-> rec.action, target |-> rec.target]
           /\ rec.action = admin[a].action
           /\ IF ReadBack(a) THEN rec.at = "read" /\ rec.target = plan
                             ELSE rec.target = admin[a].target
           /\ Record(a) => rec.at = "audited"
           /\ Reply(a) => rec.at = "answered"
           /\ Stop(a) => rec.at = "failed"
  <2>1. PICK rec : rec = [at |-> at, action |-> admin[a].action, target |-> admin[a].target]
    OBVIOUS
  <2>2. [admin[a] EXCEPT !.at = at] = rec
    BY <1>1, <2>1, AdminSet, Zenon
  <2>3. admin' = [admin EXCEPT ![a] = rec]
    BY <1>4, <2>2 DEF TypeInv
  <2>4. rec.at = at /\ rec.action = admin[a].action /\ rec.target = admin[a].target
    BY <2>1
  <2>5. rec = [at |-> rec.at, action |-> rec.action, target |-> rec.target]
    BY <2>1, <2>4, Zenon
  <2> WITNESS rec
  <2> QED
    BY <1>4, <2>3, <2>4, <2>5
<1>5. CASE Record(a)
  <2>1. ~ReadBack(a) /\ ~Reply(a) /\ ~Stop(a)
    BY <1>2, <1>5
  <2> QED
    BY <1>4, <1>5, <2>1 DEF Record
<1>6. CASE Reply(a)
  <2>1. ~ReadBack(a) /\ ~Record(a) /\ ~Stop(a)
    BY <1>2, <1>6
  <2> QED
    BY <1>4, <1>6, <2>1 DEF Reply
<1>7. CASE Stop(a)
  <2>1. ~ReadBack(a) /\ ~Record(a) /\ ~Reply(a)
    BY <1>2, <1>7
  <2> QED
    BY <1>4, <1>7, <2>1 DEF Stop
<1> QED
  BY <1>3, <1>5, <1>6, <1>7

LEMMA AdministerTyped ==
  ASSUME TypeInv, NEW a \in Admins, Administer(a)
  PROVE  TypeInv'
<1>0. /\ AdminTyped(a)
      /\ creds \in [Credentials -> [state : {"none", "live", "revoked"}, scope : Scopes]]
      /\ enabled \subseteq Prefixes /\ disabled \subseteq Tools
      /\ plan \in Plans \cup {FirstPlan}
      /\ version \in Nat /\ \A e \in audit : e.by \in Admins
  BY DEF TypeInv, TypeOK
<1>1. ASSUME NEW c \in Credentials, NEW scope \in Scopes, Mint(a, c, scope) PROVE TypeInv'
  <2>1. /\ creds' \in [Credentials -> [state : {"none", "live", "revoked"}, scope : Scopes]]
        /\ enabled' \subseteq Prefixes /\ disabled' \subseteq Tools
        /\ Switch(a, "credential.minted", "last4")
    BY <1>0, <1>1 DEF Mint
  <2> QED
    BY <2>1, SwitchTyped
<1>2. ASSUME NEW c \in Credentials, Revoke(a, c) PROVE TypeInv'
  <2>1. /\ creds' \in [Credentials -> [state : {"none", "live", "revoked"}, scope : Scopes]]
        /\ enabled' \subseteq Prefixes /\ disabled' \subseteq Tools
        /\ Switch(a, "credential.revoked", c)
    BY <1>0, <1>2 DEF Revoke
  <2> QED
    BY <2>1, SwitchTyped
<1>3. ASSUME NEW t \in Tools, Toggle(a, t, t \in disabled) PROVE TypeInv'
  <2>1. /\ UNCHANGED <<creds, enabled>> /\ disabled' \subseteq Tools
        /\ Switch(a, "tool.toggled", t)
    BY <1>0, <1>3 DEF Toggle
  <2> QED
    BY <1>0, <2>1, SwitchTyped
<1>4. ASSUME NEW p \in Prefixes, Connect(a, p, p \notin enabled) PROVE TypeInv'
  <2>1. /\ UNCHANGED <<creds, disabled>> /\ enabled' \subseteq Prefixes
        /\ \E action : Switch(a, action, p)
    BY <1>0, <1>4 DEF Connect
  <2> QED
    BY <1>0, <2>1, SwitchTyped
<1>5. ASSUME NEW new \in Plans \cup {plan}, ApplyPlan(a, new) PROVE TypeInv'
  <2>1. /\ UNCHANGED switches /\ UNCHANGED version /\ Change(a, "plan.changed", "")
        /\ plan' \in Plans \cup {FirstPlan}
    BY <1>0, <1>5 DEF ApplyPlan
  <2>2. UNCHANGED <<creds, enabled, disabled>>
    BY <2>1 DEF switches
  <2> QED
    BY <1>0, <2>1, <2>2, ChangeTyped
<1>6. CASE ReadBack(a) \/ Record(a) \/ Reply(a) \/ Stop(a)
  <2>1. UNCHANGED <<creds, enabled, disabled, plan, version>> /\ UNCHANGED Agents
    BY <1>6 DEF ReadBack, Record, Reply, Stop, switches
  <2>2. \A e \in audit' : e.by \in Admins
    <3>1. Row(a).by = a
      BY DEF Row
    <3> QED
      BY <1>0, <1>6, <3>1 DEF ReadBack, Record, Reply, Stop
  <2>3. \E rec :
          /\ admin' = [admin EXCEPT ![a] = rec]
          /\ rec.at \in {"changed", "read", "audited", "answered", "failed"}
          /\ rec = [at |-> rec.at, action |-> rec.action, target |-> rec.target]
    BY <1>6, AdminMove
  <2> QED
    BY <1>0, <2>1, <2>2, <2>3, AdminKept
<1> QED
  BY <1>1, <1>2, <1>3, <1>4, <1>5, <1>6 DEF Administer

LEMMA BeginCase ==
  ASSUME NEW r \in Requests, Begin(r)
  PROVE  \E c \in Credentials, kind \in Kinds : \E t :
           (kind \notin Lists => t \in Tools) /\ Authenticate(r, c, kind, t)
BY DEF Begin, Lists, Kinds

LEMMA TypeNext == TypeInv /\ [Next]_vars => TypeInv'
<1> SUFFICES ASSUME TypeInv, [Next]_vars PROVE TypeInv'
  OBVIOUS
<1>1. ASSUME NEW r \in Requests, Begin(r) PROVE TypeInv'
  BY <1>1, BeginCase, BeginTyped
<1>2. ASSUME NEW r \in Requests, Step(r) PROVE TypeInv'
  BY <1>2, StepTyped
<1>3. ASSUME NEW a \in Admins, Administer(a) PROVE TypeInv'
  BY <1>3, AdministerTyped
<1>4. CASE Tick
  <2>1. /\ UNCHANGED <<creds, enabled, disabled, bucket, admitted, earned, plan,
                        admin, audit, req, version>>
        /\ now' = now + 1 /\ now < MaxTime
    BY <1>4 DEF Tick, switches, limiter, plane
  <2>2. TypeOK'
    BY <2>1 DEF TypeInv, TypeOK
  <2>3. \A r \in Requests : Typed(r)'
    BY <2>1 DEF TypeInv, Typed
  <2>4. \A a \in Admins : AdminTyped(a)'
    BY <2>1 DEF TypeInv, AdminTyped
  <2> QED
    BY <2>1, <2>2, <2>3, <2>4 DEF TypeInv
<1>5. CASE UNCHANGED vars
  <2>1. UNCHANGED <<now, creds, enabled, disabled, bucket, admitted, earned, plan,
                    admin, audit, req, version>>
    BY <1>5 DEF vars, switches, limiter, plane
  <2>2. TypeOK'
    BY <2>1 DEF TypeInv, TypeOK
  <2>3. \A r \in Requests : Typed(r)'
    BY <2>1 DEF TypeInv, Typed
  <2>4. \A a \in Admins : AdminTyped(a)'
    BY <2>1 DEF TypeInv, AdminTyped
  <2> QED
    BY <2>1, <2>2, <2>3, <2>4 DEF TypeInv
<1> QED
  BY <1>1, <1>2, <1>3, <1>4, <1>5 DEF Next

LEMMA Types == Spec => []TypeInv
BY TypeInit, TypeNext, PTL DEF Spec

\* TypeOK: every variable has its type in every reachable state.
THEOREM TypeCorrect == Spec => []TypeOK
<1>1. TypeInv => TypeOK
  BY DEF TypeInv
<1> QED
  BY <1>1, Types, PTL

-----------------------------------------------------------------------------
(* The audit trail *)

\* An admin request that has revoked the credential it is about.
Revokes(a) == admin[a].at # "idle" /\ admin[a].action = "credential.revoked"

\* One that has changed the plan.
Replans(a) == admin[a].at # "idle" /\ admin[a].action = "plan.changed"

AuditInv ==
  /\ \A a \in Admins : admin[a].at \in {"audited", "answered"} => Row(a) \in audit
  /\ \A e \in audit : \E a \in Admins :
       admin[a].at \in {"audited", "answered", "failed"} /\ e = Row(a)
  /\ \A a \in Admins : admin[a].at = "changed" => Replans(a)
  /\ \A a \in Admins : Revokes(a) =>
       admin[a].target \in Credentials /\ creds[admin[a].target].state = "revoked"
  /\ \A a, b \in Admins :
       Revokes(a) /\ Revokes(b) /\ admin[a].target = admin[b].target => a = b
  /\ \A c \in Credentials : creds[c].state = "revoked" =>
       \E a \in Admins : Revokes(a) /\ admin[a].target = c

\* Of the requests that have changed the plan, one failed, has not read it back,
\* or has read the plan in force.
PlanInv ==
  (\E a \in Admins : Replans(a)) =>
    \E a \in Admins : Replans(a) /\ (admin[a].at \in {"changed", "failed"} \/ admin[a].target = plan)

LEMMA Active ==
  ASSUME TypeInv, NEW a \in Admins
  PROVE  admin[a] # Idle <=> admin[a].at # "idle"
BY DEF TypeInv, AdminTyped, Idle

LEMMA AuditMeans ==
  ASSUME TypeInv, AuditInv
  PROVE  AuditTrue
<1>1. \A a \in Admins : admin[a].at = "answered" => Row(a) \in audit
  BY DEF AuditInv
<1>2. \A e \in audit : \E a \in Admins : admin[a] # Idle /\ e = Row(a)
  BY Active DEF AuditInv
<1>3. ASSUME NEW c \in Credentials
      PROVE  LET Revoking == {a \in Admins : admin[a] # Idle
                                 /\ admin[a].action = "credential.revoked" /\ admin[a].target = c}
             IN  IF creds[c].state = "revoked" THEN \E a \in Admins : Revoking = {a}
                                               ELSE Revoking = {}
  <2> DEFINE Revoking == {a \in Admins : admin[a] # Idle
                            /\ admin[a].action = "credential.revoked" /\ admin[a].target = c}
  <2>1. \A a \in Admins : a \in Revoking <=> Revokes(a) /\ admin[a].target = c
    BY Active DEF Revokes
  <2>2. Revoking \subseteq Admins
    OBVIOUS
  <2> HIDE DEF Revoking
  <2>3. CASE creds[c].state = "revoked"
    <3>1. PICK a \in Admins : Revokes(a) /\ admin[a].target = c
      BY <2>3 DEF AuditInv
    <3>2. Revoking = {a}
      BY <2>1, <2>2, <3>1 DEF AuditInv
    <3> QED
      BY <2>3, <3>2 DEF Revoking
  <2>4. CASE creds[c].state # "revoked"
    <3>1. Revoking = {}
      BY <2>1, <2>2, <2>4 DEF AuditInv
    <3> QED
      BY <2>4, <3>1 DEF Revoking
  <2> QED
    BY <2>3, <2>4
<1> QED
  BY <1>1, <1>2, <1>3 DEF AuditTrue

LEMMA PlanMeans ==
  ASSUME TypeInv, AuditInv, PlanInv
  PROVE  PlanTold
<1> DEFINE Changing == {a \in Admins : admin[a] # Idle /\ admin[a].action = "plan.changed"}
<1> SUFFICES ASSUME Changing # {}, \A a \in Changing : admin[a].at \in {"audited", "answered"}
             PROVE  \E e \in audit : e.action = "plan.changed" /\ e.target = plan
  BY DEF PlanTold
<1>1. \A a \in Admins : a \in Changing <=> Replans(a)
  BY Active DEF Replans
<1>2. PICK a \in Admins : Replans(a) /\ (admin[a].at \in {"changed", "failed"} \/ admin[a].target = plan)
  BY <1>1 DEF PlanInv
<1>3. admin[a].at \in {"audited", "answered"}
  BY <1>1, <1>2
<1>4. admin[a].target = plan /\ admin[a].action = "plan.changed" /\ Row(a) \in audit
  BY <1>2, <1>3 DEF AuditInv, Replans
<1>5. Row(a).action = admin[a].action /\ Row(a).target = admin[a].target
  BY DEF Row
<1> QED
  BY <1>4, <1>5

LEMMA AuditInit == Init => AuditInv /\ PlanInv
<1> SUFFICES ASSUME Init PROVE AuditInv /\ PlanInv
  OBVIOUS
<1>1. \A a \in Admins : admin[a].at = "idle"
  BY DEF Init, Idle
<1>2. \A c \in Credentials : creds[c].state # "revoked"
  BY DEF Init
<1> QED
  BY <1>1, <1>2 DEF Init, AuditInv, PlanInv, Revokes, Replans

\* Where a request begins that changes switches or the plan.
LEMMA ChangeRecords ==
  ASSUME TypeInv, NEW a \in Admins, NEW action, NEW target, Change(a, action, target)
  PROVE  /\ admin[a].at = "idle" /\ UNCHANGED audit
         /\ \A b \in Admins \ {a} : admin'[b] = admin[b] /\ Row(b)' = Row(b)
         /\ admin'[a].at = (IF action = "plan.changed" THEN "changed" ELSE "read")
         /\ admin'[a].action = action /\ admin'[a].target = target
<1>1. admin'[a] = [at |-> IF action = "plan.changed" THEN "changed" ELSE "read",
                   action |-> action, target |-> target]
  BY DEF Change, TypeInv
<1> QED
  BY <1>1 DEF Change, TypeInv, Row

\* It leaves the trail alone, and revokes at most one credential that was live.
LEMMA ChangeAudited ==
  ASSUME TypeInv, AuditInv, NEW a \in Admins, NEW action, NEW target, Change(a, action, target),
         \A c \in Credentials : creds[c].state = "revoked" => creds'[c].state = "revoked",
         \A c \in Credentials : creds'[c].state = "revoked" =>
           creds[c].state = "revoked" \/ (action = "credential.revoked" /\ target = c),
         action = "credential.revoked" =>
           target \in Credentials /\ creds[target].state # "revoked" /\ creds'[target].state = "revoked"
  PROVE  AuditInv'
<1>1. /\ admin[a].at = "idle" /\ UNCHANGED audit
      /\ \A b \in Admins \ {a} : admin'[b] = admin[b] /\ Row(b)' = Row(b)
      /\ admin'[a].at = (IF action = "plan.changed" THEN "changed" ELSE "read")
      /\ admin'[a].action = action /\ admin'[a].target = target
  BY ChangeRecords
<1>2. \A b \in Admins : admin'[b].at \in {"audited", "answered"} => Row(b)' \in audit'
  BY <1>1 DEF AuditInv
<1>3. ASSUME NEW e \in audit'
      PROVE  \E b \in Admins : admin'[b].at \in {"audited", "answered", "failed"} /\ e = Row(b)'
  <2>1. PICK b \in Admins : admin[b].at \in {"audited", "answered", "failed"} /\ e = Row(b)
    BY <1>1, <1>3 DEF AuditInv
  <2>2. b # a
    BY <1>1, <2>1
  <2> QED
    BY <1>1, <2>1, <2>2
<1>4. \A b \in Admins : admin'[b].at = "changed" => Replans(b)'
  BY <1>1 DEF AuditInv, Replans
<1>5. \A b \in Admins : Revokes(b)' =>
        admin'[b].target \in Credentials /\ creds'[admin'[b].target].state = "revoked"
  BY <1>1 DEF AuditInv, Revokes
<1>6. \A b, c \in Admins :
        Revokes(b)' /\ Revokes(c)' /\ admin'[b].target = admin'[c].target => b = c
  BY <1>1 DEF AuditInv, Revokes
<1>7. ASSUME NEW c \in Credentials, creds'[c].state = "revoked"
      PROVE  \E b \in Admins : Revokes(b)' /\ admin'[b].target = c
  <2>1. CASE creds[c].state = "revoked"
    <3>1. PICK b \in Admins : Revokes(b) /\ admin[b].target = c
      BY <2>1 DEF AuditInv
    <3>2. b # a
      BY <1>1, <3>1 DEF Revokes
    <3> QED
      BY <1>1, <3>1, <3>2 DEF Revokes
  <2>2. CASE action = "credential.revoked" /\ target = c
    BY <1>1, <2>2 DEF Revokes
  <2> QED
    BY <1>7, <2>1, <2>2
<1> QED
  BY <1>2, <1>3, <1>4, <1>5, <1>6, <1>7 DEF AuditInv

\* A change that is none of the plan's leaves its requests as they were.
LEMMA ChangeReplans ==
  ASSUME TypeInv, PlanInv, NEW a \in Admins, NEW action, NEW target, Change(a, action, target),
         action = "plan.changed" \/ UNCHANGED plan
  PROVE  PlanInv'
<1>1. /\ admin[a].at = "idle"
      /\ \A b \in Admins \ {a} : admin'[b] = admin[b]
      /\ admin'[a].at = (IF action = "plan.changed" THEN "changed" ELSE "read")
      /\ admin'[a].action = action
  BY ChangeRecords
<1>2. CASE action = "plan.changed"
  BY <1>1, <1>2 DEF PlanInv, Replans
<1>3. CASE action # "plan.changed" /\ UNCHANGED plan
  <2>1. \A b \in Admins : Replans(b)' => Replans(b) /\ b # a
    BY <1>1, <1>3 DEF Replans
  <2>2. \A b \in Admins : Replans(b) => Replans(b)' /\ admin'[b] = admin[b]
    BY <1>1, <1>3 DEF Replans
  <2> QED
    BY <1>3, <2>1, <2>2 DEF PlanInv
<1> QED
  BY <1>2, <1>3

\* The rest of an admin request: reading back, the row, the answer or its end.
LEMMA MoveAudited ==
  ASSUME TypeInv, AuditInv, PlanInv, NEW a \in Admins,
         ReadBack(a) \/ Record(a) \/ Reply(a) \/ Stop(a)
  PROVE  AuditInv' /\ PlanInv'
<1>0. UNCHANGED <<creds, plan>>
  BY DEF ReadBack, Record, Reply, Stop, switches
<1>1. PICK rec :
           /\ admin' = [admin EXCEPT ![a] = rec]
           /\ rec.at \in {"changed", "read", "audited", "answered", "failed"}
           /\ rec.action = admin[a].action
           /\ IF ReadBack(a) THEN rec.at = "read" /\ rec.target = plan
                             ELSE rec.target = admin[a].target
           /\ Record(a) => rec.at = "audited"
           /\ Reply(a) => rec.at = "answered"
           /\ Stop(a) => rec.at = "failed"
  BY AdminMove
<1>2. admin'[a] = rec /\ \A b \in Admins \ {a} : admin'[b] = admin[b]
  BY <1>1 DEF TypeInv
<1>3. \A b \in Admins \ {a} : Row(b)' = Row(b)
  BY <1>2 DEF Row
<1>4. /\ ReadBack(a) => admin[a].at = "changed" /\ Replans(a)
      /\ ~ReadBack(a) => Row(a)' = Row(a)
  BY <1>1, <1>2 DEF ReadBack, AuditInv, Row
<1>5. /\ admin[a].at \in {"changed", "read", "audited"}
      /\ ~Reply(a) /\ ~Stop(a) => admin[a].at \in {"changed", "read"}
      /\ admin'[a].at \notin {"idle", "changed"}
      /\ Reply(a) => admin[a].at = "audited"
      /\ Stop(a) => admin'[a].at = "failed"
      /\ admin[a].at = "audited" => admin'[a].at \in {"answered", "failed"}
  BY <1>1, <1>2 DEF ReadBack, Record, Reply, Stop
<1>6. audit' = IF Record(a) THEN audit \cup {Row(a)} ELSE audit
  BY <1>1, <1>2, <1>5 DEF ReadBack, Record, Reply, Stop
<1>7. /\ \A b \in Admins : Replans(b)' <=> Replans(b)
      /\ \A b \in Admins : Revokes(b)' <=> Revokes(b)
      /\ \A b \in Admins : Revokes(b) => admin'[b].target = admin[b].target
  BY <1>1, <1>2, <1>4, <1>5 DEF Replans, Revokes
<1>8. ASSUME NEW b \in Admins, admin'[b].at \in {"audited", "answered"}
      PROVE  Row(b)' \in audit'
  <2>1. CASE b # a
    BY <1>2, <1>3, <1>6, <1>8, <2>1 DEF AuditInv
  <2>2. CASE b = a /\ Record(a)
    <3>1. ~ReadBack(a)
      BY <2>2 DEF ReadBack, Record
    <3> QED
      BY <1>4, <1>6, <2>2, <3>1
  <2>3. CASE b = a /\ ~Record(a)
    <3>1. Reply(a)
      BY <1>1, <1>2, <1>8, <2>3
    <3>2. ~ReadBack(a)
      BY <3>1 DEF ReadBack, Reply
    <3> QED
      BY <1>4, <1>5, <1>6, <2>3, <3>1, <3>2 DEF AuditInv
  <2> QED
    BY <2>1, <2>2, <2>3
<1>9. ASSUME NEW e \in audit'
      PROVE  \E b \in Admins : admin'[b].at \in {"audited", "answered", "failed"} /\ e = Row(b)'
  <2>1. CASE e \in audit
    <3>1. PICK b \in Admins : admin[b].at \in {"audited", "answered", "failed"} /\ e = Row(b)
      BY <2>1 DEF AuditInv
    <3>2. CASE b # a
      BY <1>2, <1>3, <3>1, <3>2
    <3>3. CASE b = a
      <4>1. admin[a].at = "audited" /\ ~ReadBack(a)
        BY <1>4, <1>5, <3>1, <3>3
      <4> QED
        BY <1>4, <1>5, <3>1, <3>3, <4>1
    <3> QED
      BY <3>2, <3>3
  <2>2. CASE e \notin audit
    <3>1. Record(a) /\ e = Row(a) /\ ~ReadBack(a)
      BY <1>6, <1>9, <2>2 DEF ReadBack, Record
    <3> QED
      BY <1>1, <1>2, <1>4, <3>1
  <2> QED
    BY <2>1, <2>2
<1>10. AuditInv'
  <2>1. \A b \in Admins : admin'[b].at = "changed" => Replans(b)'
    BY <1>2, <1>5, <1>7 DEF AuditInv
  <2>2. \A b \in Admins : Revokes(b)' =>
          admin'[b].target \in Credentials /\ creds'[admin'[b].target].state = "revoked"
    BY <1>0, <1>7 DEF AuditInv
  <2>3. \A b, c \in Admins :
          Revokes(b)' /\ Revokes(c)' /\ admin'[b].target = admin'[c].target => b = c
    BY <1>7 DEF AuditInv
  <2>4. \A c \in Credentials : creds'[c].state = "revoked" =>
          \E b \in Admins : Revokes(b)' /\ admin'[b].target = c
    BY <1>0, <1>7 DEF AuditInv
  <2> QED
    BY <1>8, <1>9, <2>1, <2>2, <2>3, <2>4 DEF AuditInv
<1>11. PlanInv'
  <2> SUFFICES ASSUME \E b \in Admins : Replans(b)
               PROVE  \E b \in Admins : Replans(b)' /\
                        (admin'[b].at \in {"changed", "failed"} \/ admin'[b].target = plan')
    BY <1>7 DEF PlanInv
  <2>1. PICK b \in Admins : Replans(b) /\ (admin[b].at \in {"changed", "failed"} \/ admin[b].target = plan)
    BY DEF PlanInv
  <2>2. CASE ReadBack(a)
    BY <1>0, <1>1, <1>2, <1>4, <1>7, <2>2
  <2>3. CASE b # a
    BY <1>0, <1>2, <1>7, <2>1, <2>3
  <2>4. CASE b = a /\ ~ReadBack(a)
    <3>1. Stop(a) \/ admin[a].at \in {"read", "audited"}
      BY <1>5, <2>4 DEF Record, Reply
    <3>2. admin'[a].at = "failed" \/ admin'[a].target = plan'
      BY <1>0, <1>1, <1>2, <1>5, <2>1, <2>4, <3>1
    <3> QED
      BY <1>7, <2>1, <2>4, <3>2
  <2> QED
    BY <2>2, <2>3, <2>4
<1> QED
  BY <1>10, <1>11

LEMMA AuditNext == TypeInv /\ AuditInv /\ PlanInv /\ [Next]_vars => AuditInv' /\ PlanInv'
<1> SUFFICES ASSUME TypeInv, AuditInv, PlanInv, [Next]_vars PROVE AuditInv' /\ PlanInv'
  OBVIOUS
<1>1. ASSUME UNCHANGED <<audit, admin, creds, plan>> PROVE AuditInv' /\ PlanInv'
  BY <1>1 DEF AuditInv, PlanInv, Revokes, Replans, Row
<1>2. ASSUME NEW r \in Requests, Begin(r) PROVE AuditInv' /\ PlanInv'
  BY <1>1, <1>2, BeginCase DEF Authenticate, Others, plane, switches
<1>3. ASSUME NEW r \in Requests, Step(r) PROVE AuditInv' /\ PlanInv'
  BY <1>1, <1>3 DEF Step, Limit, Deny, ReadEnabled, AnswerList, AnswerSearch, Gate, Fail, Answer,
     Others, plane, switches
<1>4. ASSUME NEW a \in Admins, Administer(a) PROVE AuditInv' /\ PlanInv'
  <2>0. creds \in [Credentials -> [state : {"none", "live", "revoked"}, scope : Scopes]]
    BY DEF TypeInv, TypeOK
  <2>1. ASSUME NEW c \in Credentials, NEW scope \in Scopes, Mint(a, c, scope)
        PROVE  AuditInv' /\ PlanInv'
    <3>1. \A d \in Credentials : creds[d].state = "revoked" <=> creds'[d].state = "revoked"
      BY <2>0, <2>1 DEF Mint
    <3>2. Change(a, "credential.minted", "last4") /\ UNCHANGED plan
      BY <2>1 DEF Mint, Switch
    <3> QED
      BY <3>1, <3>2, ChangeAudited, ChangeReplans
  <2>2. ASSUME NEW c \in Credentials, Revoke(a, c) PROVE AuditInv' /\ PlanInv'
    <3>1. \A d \in Credentials : creds'[d].state = "revoked" <=> creds[d].state = "revoked" \/ d = c
      BY <2>0, <2>2 DEF Revoke
    <3>2. creds[c].state # "revoked"
      BY <2>0, <2>2 DEF Revoke
    <3>3. Change(a, "credential.revoked", c) /\ UNCHANGED plan
      BY <2>2 DEF Revoke, Switch
    <3> QED
      BY <3>1, <3>2, <3>3, ChangeAudited, ChangeReplans
  <2>3. ASSUME NEW t \in Tools, Toggle(a, t, t \in disabled) PROVE AuditInv' /\ PlanInv'
    <3>1. UNCHANGED <<creds, plan>> /\ Change(a, "tool.toggled", t)
      BY <2>3 DEF Toggle, Switch
    <3> QED
      BY <3>1, ChangeAudited, ChangeReplans
  <2>4. ASSUME NEW p \in Prefixes, Connect(a, p, p \notin enabled) PROVE AuditInv' /\ PlanInv'
    <3>1. /\ UNCHANGED <<creds, plan>>
          /\ \E action \in {"connection.key_set", "connection.disconnected"} : Change(a, action, p)
      BY <2>4 DEF Connect, Switch
    <3> QED
      BY <3>1, ChangeAudited, ChangeReplans
  <2>5. ASSUME NEW new, ApplyPlan(a, new) PROVE AuditInv' /\ PlanInv'
    <3>1. UNCHANGED creds /\ Change(a, "plan.changed", "")
      BY <2>5 DEF ApplyPlan, switches
    <3> QED
      BY <3>1, ChangeAudited, ChangeReplans
  <2> QED
    BY <1>4, <2>1, <2>2, <2>3, <2>4, <2>5, MoveAudited DEF Administer
<1>5. CASE Tick
  BY <1>1, <1>5 DEF Tick, plane, switches
<1>6. CASE UNCHANGED vars
  BY <1>1, <1>6 DEF vars, plane, switches
<1> QED
  BY <1>2, <1>3, <1>4, <1>5, <1>6 DEF Next

\* AuditTrue: wherever requests and replicas stop, what was answered is audited,
\* every row tells of a change that was made, and of all the requests that race
\* for one credential exactly one has revoked it.
THEOREM AuditsTruly == Spec => []AuditTrue
BY AuditInit, AuditNext, AuditMeans, Types, PTL DEF Spec

\* PlanTold: however many changes of the plan cross, once they are all audited a
\* row tells the plan in force.
THEOREM TellsPlan == Spec => []PlanTold
BY AuditInit, AuditNext, PlanMeans, Types, PTL DEF Spec

-----------------------------------------------------------------------------
(* The rate limiter *)

LEMMA RateInit == Init => RateKept
<1> SUFFICES ASSUME Init PROVE RateKept
  OBVIOUS
<1>1. admitted = 0 /\ earned = 0 /\ bucket.tokens = PerMinute /\ bucket.refilledAt = 0
  BY DEF Init
<1>2. (0 * PerMinute) \div Minute \in Nat
  BY Division
<1> QED
  BY <1>1, <1>2 DEF RateKept

LEMMA LimitRate ==
  ASSUME TypeInv, RateKept, NEW r \in Requests, Limit(r)
  PROVE  RateKept'
<1> PICK x, y, z, e : /\ x = bucket.refilledAt * PerMinute
                      /\ y = (now - bucket.refilledAt) * PerMinute
                      /\ z = now * PerMinute
                      /\ e = earned * Minute
  OBVIOUS
<1>1. /\ now \in Nat /\ bucket.refilledAt \in 0 .. now /\ bucket.tokens \in 0 .. PerMinute
      /\ admitted \in Nat /\ earned \in Nat
  BY DEF TypeInv, TypeOK
<1>2. x \in Nat /\ y \in Nat /\ z = x + y /\ e \in Nat
  <2>1. PICK s \in Nat : s = now - bucket.refilledAt
    BY <1>1
  <2>2. PICK b \in Nat : b = bucket.refilledAt
    BY <1>1
  <2>3. now = b + s
    BY <1>1, <2>1, <2>2
  <2>4. (b + s) * PerMinute = b * PerMinute + s * PerMinute
    OBVIOUS
  <2>5. b * PerMinute \in Nat /\ s * PerMinute \in Nat /\ earned * Minute \in Nat
    BY <1>1
  <2> QED
    BY <2>1, <2>2, <2>3, <2>4, <2>5
<1>3. Refill = y \div Minute /\ Refill \in Nat
  BY RefillTyped DEF Refill
<1>4. admitted + bucket.tokens <= PerMinute + (x \div Minute) /\ 2 * e >= x
  BY <1>1 DEF RateKept
<1>5. /\ admitted' + bucket'.tokens = admitted + Refilled.tokens
      /\ bucket'.refilledAt = Refilled.refilledAt
      /\ earned' = earned + Refill
  <2>1. Refilled = [tokens |-> Refilled.tokens, refilledAt |-> Refilled.refilledAt]
        /\ Refilled.tokens \in Nat
    BY RefillTyped
  <2>2. CASE bucket' = Refilled /\ Refilled.tokens = 0 /\ admitted' = admitted
    BY <1>1, <2>2 DEF Limit
  <2>3. CASE bucket' = [Refilled EXCEPT !.tokens = @ - 1] /\ admitted' = admitted + 1
    <3>1. bucket'.tokens = Refilled.tokens - 1 /\ bucket'.refilledAt = Refilled.refilledAt
      BY <2>1, <2>3
    <3> QED
      BY <1>1, <2>1, <2>3, <3>1 DEF Limit
  <2> QED
    BY <2>2, <2>3 DEF Limit
<1>6. CASE Refill = 0
  <2>1. Refilled = bucket
    BY <1>6 DEF Refilled
  <2>2. earned' = earned
    BY <1>1, <1>5, <1>6
  <2> QED
    BY <1>5, <2>1, <2>2 DEF RateKept
<1>7. CASE Refill > 0
  <2>1. Refilled.refilledAt = now /\ Refilled.tokens <= bucket.tokens + Refill /\ Refilled.tokens \in Nat
    BY <1>1, <1>3, <1>7, RefillTyped DEF Refilled, Least
  <2>2. (x \div Minute) + (y \div Minute) <= z \div Minute
    BY <1>2, DivisionAdds
  <2>3. /\ x \div Minute \in Nat /\ y \div Minute \in Nat /\ z \div Minute \in Nat
    <3>1. z \in Nat
      BY ONLY <1>2
    <3>2. Minute \in Nat \ {0}
      OBVIOUS
    <3> QED
      BY <1>2, <3>1, <3>2, Division, Zenon
  <2>4. admitted' + bucket'.tokens <= PerMinute + (z \div Minute)
    <3>1. PICK u \in Nat, v \in Nat, w \in Nat :
            u = x \div Minute /\ v = y \div Minute /\ w = z \div Minute
      BY <2>3
    <3>2. /\ admitted + bucket.tokens <= PerMinute + u /\ Refill = v /\ u + v <= w
      BY <1>3, <1>4, <2>2, <3>1
    <3>3. admitted' + bucket'.tokens <= PerMinute + w
      BY <1>1, <1>5, <2>1, <3>2
    <3> QED
      BY <3>1, <3>3
  <2>5. 2 * (Minute * Refill) >= y
    BY <1>2, <1>3, <1>7, HalfSurvives
  <2>6. earned' * Minute = e + Minute * Refill /\ Minute * Refill \in Nat
    <3>1. PICK g \in Nat : g = Refill
      BY <1>3
    <3>2. (earned + g) * Minute = earned * Minute + Minute * g /\ Minute * g \in Nat
      BY <1>1
    <3> QED
      BY <1>5, <3>1, <3>2
  <2>7. 2 * (earned' * Minute) >= z
    <3>1. PICK m \in Nat : m = Minute * Refill
      BY <2>6
    <3>2. PICK f : f = earned' * Minute
      OBVIOUS
    <3>3. f = e + m /\ 2 * m >= y
      BY <2>5, <2>6, <3>1, <3>2
    <3>4. 2 * f >= z
      BY ONLY <1>2, <1>4, <3>3, m \in Nat
    <3> QED
      BY <3>2, <3>4
  <2>8. 2 * earned' * Minute = 2 * (earned' * Minute)
    BY <1>1, <1>3, <1>5
  <2>9. bucket'.refilledAt * PerMinute = z
    BY <1>5, <2>1
  <2> QED
    BY <2>4, <2>7, <2>8, <2>9 DEF RateKept
<1> QED
  BY <1>3, <1>6, <1>7

LEMMA RateNext == TypeInv /\ RateKept /\ [Next]_vars => RateKept'
<1> SUFFICES ASSUME TypeInv, RateKept, [Next]_vars PROVE RateKept'
  OBVIOUS
<1>1. ASSUME UNCHANGED limiter PROVE RateKept'
  BY <1>1 DEF RateKept, limiter
<1>2. ASSUME NEW r \in Requests, Begin(r) PROVE RateKept'
  BY <1>1, <1>2, BeginCase DEF Authenticate
<1>3. ASSUME NEW r \in Requests, Step(r) PROVE RateKept'
  BY <1>1, <1>3, LimitRate DEF Step, Deny, ReadEnabled, AnswerList, AnswerSearch, Gate, Fail, Answer
<1>4. ASSUME NEW a \in Admins, Administer(a) PROVE RateKept'
  BY <1>1, <1>4 DEF Administer, Mint, Revoke, Toggle, Connect, Switch, Change, ApplyPlan,
     ReadBack, Record, Reply, Stop, Agents
<1>5. CASE Tick
  BY <1>1, <1>5 DEF Tick
<1>6. CASE UNCHANGED vars
  BY <1>1, <1>6 DEF vars
<1> QED
  BY <1>2, <1>3, <1>4, <1>5, <1>6 DEF Next

\* RateKept: at any rate, the limiter lets no more through than a full bucket and
\* what time has earned, and refills at least half of what time has earned.
THEOREM KeepsRate == Spec => []RateKept
BY RateInit, RateNext, Types, PTL DEF Spec

-----------------------------------------------------------------------------
(* Lists, searches and calls *)

\* The answer that switches on and off give to a request of this kind.
Right(kind, tool, scope, tools, whole, on, off) ==
  LET found == Catalog(on, off)
      visible == {t \in found : AllowsTool(scope, t)}
  IN  /\ kind \in Lists => tools = Cut(visible, off) /\ (whole <=> tools = visible)
      /\ kind = "rest_search" => tools = {tool} \cap visible
      /\ kind = "mcp_search" => tools = {t \in {tool} \cap found : AllowsProvider(scope, t[1])}
      /\ kind = "call" => tools = {t \in {tool} \cap found : Permits(scope, tool)}

Seen(r, on, off) ==
  Right(req[r].kind, req[r].tool, req[r].scope, req[r].tools, req[r].whole, on, off)

\* A request carries its credential's scope, and what it has read of the
\* switches is as they are unless they have changed since it began.
Fresh(r) ==
  req[r].at \in Held =>
    /\ req[r].begun <= version
    /\ creds[req[r].cred].state # "none"
    /\ req[r].scope = creds[req[r].cred].scope
    /\ req[r].at = "enabled" => ~Refused(r) /\ (req[r].begun = version => req[r].on = enabled)

\* One setting of the switches explains all the answers begun at b.
SeenAt(b) ==
  \E on, off :
    /\ b = version => on = enabled /\ off = disabled
    /\ \A r \in Requests : req[r].at = "answered" /\ req[r].begun = b => Seen(r, on, off)

ListInv == (\A r \in Requests : Fresh(r)) /\ (\A b \in Nat : SeenAt(b))

LEMMA RightAgrees ==
  ASSUME NEW on, NEW off, NEW scope, NEW kind, NEW query, NEW tool, NEW seen, NEW open, NEW whole, NEW w,
         Right(kind, query, scope, seen, whole, on, off), Right("call", tool, scope, open, w, on, off)
  PROVE  /\ kind \in Lists \cup {"rest_search"} /\ tool \in seen => tool \in open
         /\ kind \in Lists /\ whole /\ tool \in open => tool \in seen
<1>0. open = {t \in {tool} \cap Catalog(on, off) : Permits(scope, tool)}
  BY DEF Right
<1>1. ASSUME kind \in Lists
      PROVE  /\ tool \in seen => tool \in open
             /\ whole /\ tool \in open => tool \in seen
  <2>1. PICK visible : visible = {t \in Catalog(on, off) : AllowsTool(scope, t)}
    OBVIOUS
  <2>2. seen = Cut(visible, off) /\ (whole <=> seen = visible)
    BY <1>1, <2>1 DEF Right
  <2>3. seen \subseteq visible
    BY <2>2 DEF Cut
  <2>4. tool \in visible <=> tool \in open
    BY <1>0, <2>1 DEF AllowsTool, Permits
  <2> QED
    BY <2>2, <2>3, <2>4
<1>2. ASSUME kind = "rest_search", tool \in seen PROVE tool \in open
  <2>1. tool \in {t \in Catalog(on, off) : AllowsTool(scope, t)}
    BY <1>2 DEF Right
  <2> QED
    BY <1>0, <2>1 DEF AllowsTool, Permits
<1> QED
  BY <1>1, <1>2

LEMMA ListsMean == TypeInv /\ ListInv => ListsAgree
<1> SUFFICES ASSUME TypeInv, ListInv, NEW q \in Requests, NEW r \in Requests,
                    Comparable(q, r), req[r].kind = "call"
             PROVE  LET t == req[r].tool
                        open == t \in req[r].tools
                    IN  /\ req[q].kind \in Lists \cup {"rest_search"} /\ t \in req[q].tools => open
                        /\ req[q].kind \in Lists /\ req[q].whole /\ open => t \in req[q].tools
  BY DEF ListsAgree
<1>1. req[q].at = "answered" /\ req[r].at = "answered" /\ req[q].begun = req[r].begun
      /\ req[q].cred = req[r].cred
  BY DEF Comparable
<1>2. req[r].begun \in Nat
  BY <1>1 DEF TypeInv, Typed, Held
<1>3. req[q].scope = req[r].scope
  BY <1>1 DEF ListInv, Fresh, Held
<1>4. PICK on, off : Seen(q, on, off) /\ Seen(r, on, off)
  BY <1>1, <1>2 DEF ListInv, SeenAt
<1>5. /\ Right(req[q].kind, req[q].tool, req[r].scope, req[q].tools, req[q].whole, on, off)
      /\ Right("call", req[r].tool, req[r].scope, req[r].tools, req[r].whole, on, off)
  BY <1>3, <1>4 DEF Seen
<1>6. PICK kind, query, tool, scope, seen, open, whole, w :
        /\ kind = req[q].kind /\ query = req[q].tool /\ tool = req[r].tool /\ scope = req[r].scope
        /\ seen = req[q].tools /\ open = req[r].tools /\ whole = req[q].whole /\ w = req[r].whole
  OBVIOUS
<1>7. /\ Right(kind, query, scope, seen, whole, on, off)
      /\ Right("call", tool, scope, open, w, on, off)
  BY <1>5, <1>6
<1>8. /\ kind \in Lists \cup {"rest_search"} /\ tool \in seen => tool \in open
      /\ kind \in Lists /\ whole /\ tool \in open => tool \in seen
  BY <1>7, RightAgrees
<1> QED
  BY <1>6, <1>8

LEMMA ListInit == Init => ListInv
<1> SUFFICES ASSUME Init PROVE ListInv
  OBVIOUS
<1>1. \A r \in Requests : req[r].at = "idle"
  BY DEF Init, Idle
<1>2. \A r \in Requests : Fresh(r)
  BY <1>1 DEF Fresh, Held
<1>3. \A b \in Nat : SeenAt(b)
  BY <1>1 DEF SeenAt
<1> QED
  BY <1>2, <1>3 DEF ListInv

\* Answers that stand keep their explanation, whatever changes.
LEMMA SeenKept ==
  ASSUME TypeInv, ListInv,
         \A r \in Requests : req'[r].at = "answered" => req'[r] = req[r],
         \/ version' = version /\ enabled' = enabled /\ disabled' = disabled
         \/ version' = version + 1
  PROVE  \A b \in Nat : SeenAt(b)'
<1> SUFFICES ASSUME NEW b \in Nat PROVE SeenAt(b)'
  OBVIOUS
<1>0. version \in Nat
  BY DEF TypeInv, TypeOK
<1>1. PICK on, off :
        /\ b = version => on = enabled /\ off = disabled
        /\ \A r \in Requests : req[r].at = "answered" /\ req[r].begun = b => Seen(r, on, off)
  BY DEF ListInv, SeenAt
<1>2. ASSUME NEW r \in Requests, req'[r].at = "answered", req'[r].begun = b
      PROVE  req[r].at = "answered" /\ req[r].begun = b /\ Seen(r, on, off)'
  <2>1. req'[r] = req[r]
    BY <1>2
  <2>2. Seen(r, on, off)
    BY <1>1, <1>2, <2>1
  <2> QED
    BY <1>2, <2>1, <2>2 DEF Seen
<1>3. CASE b = version'  /\ version' = version + 1
  <2>1. ASSUME NEW r \in Requests, req'[r].at = "answered", req'[r].begun = b PROVE FALSE
    BY <1>0, <1>2, <1>3, <2>1 DEF ListInv, Fresh, Held, TypeInv, Typed
  <2> QED
    BY <2>1 DEF SeenAt
<1>4. CASE ~(b = version' /\ version' = version + 1)
  <2>1. b = version' => on = enabled' /\ off = disabled'
    BY <1>1, <1>4
  <2>2. \A r \in Requests : req'[r].at = "answered" /\ req'[r].begun = b => Seen(r, on, off)'
    BY <1>2
  <2> QED
    BY <2>1, <2>2 DEF SeenAt
<1> QED
  BY <1>3, <1>4

\* A step of a request that is no answer.
LEMMA ListRequest ==
  ASSUME TypeInv, ListInv, NEW r \in Requests, NEW rec, Set(r, rec), UNCHANGED Others,
         rec.at # "answered",
         rec.at \in Held =>
           /\ rec.begun <= version
           /\ creds[rec.cred].state # "none"
           /\ rec.scope = creds[rec.cred].scope
           /\ rec.at = "enabled" =>
                /\ ~(rec.kind = "call" /\ ~Permits(rec.scope, rec.tool))
                /\ rec.begun = version => rec.on = enabled
  PROVE  ListInv'
<1>1. req'[r] = rec /\ \A q \in Requests \ {r} : req'[q] = req[q]
  BY DEF TypeInv, Set
<1>2. UNCHANGED <<creds, enabled, disabled, version>>
  BY DEF Others, switches
<1>3. \A b \in Nat : SeenAt(b)'
  BY <1>1, <1>2, SeenKept
<1>4. \A q \in Requests \ {r} : Fresh(q)'
  BY <1>1, <1>2 DEF ListInv, Fresh, Refused
<1>5. Fresh(r)'
  BY <1>1, <1>2 DEF Fresh, Refused
<1> QED
  BY <1>3, <1>4, <1>5 DEF ListInv

LEMMA ListAnswer ==
  ASSUME TypeInv, ListInv, NEW r \in Requests, req[r].at \in {"admitted", "enabled"},
         NEW tools, NEW whole \in BOOLEAN, Answer(r, tools, whole),
         req[r].begun = version =>
           Right(req[r].kind, req[r].tool, req[r].scope, tools, whole, enabled, disabled)
  PROVE  ListInv'
<1> PICK rec : rec = [at |-> "answered", kind |-> req[r].kind, tool |-> req[r].tool,
                  cred |-> req[r].cred, scope |-> req[r].scope, begun |-> req[r].begun,
                  tools |-> tools, whole |-> whole]
  OBVIOUS
<1>0. UNCHANGED Others
  BY DEF Answer
<1>1. CASE req[r].begun # version
  <2>1. PICK mixed : mixed = [at |-> "mixed"]
    OBVIOUS
  <2>2. Set(r, mixed) /\ mixed.at = "mixed"
    BY <1>1, <2>1 DEF Answer
  <2> QED
    BY <1>0, <2>2, ListRequest DEF Held
<1>2. CASE req[r].begun = version
  <2>1. Set(r, rec)
    BY <1>2 DEF Answer
  <2>2. req'[r] = rec /\ \A q \in Requests \ {r} : req'[q] = req[q]
    BY <2>1 DEF TypeInv, Set
  <2>3. UNCHANGED <<creds, enabled, disabled, version>>
    BY <1>0 DEF Others, switches
  <2>4. Fresh(r) /\ Fresh(r)'
    BY <2>2, <2>3 DEF ListInv, Fresh, Held, Refused
  <2>5. \A q \in Requests \ {r} : Fresh(q)'
    BY <2>2, <2>3 DEF ListInv, Fresh, Refused
  <2>6. ASSUME NEW b \in Nat PROVE SeenAt(b)'
    <3>1. PICK on, off :
            /\ b = version => on = enabled /\ off = disabled
            /\ \A q \in Requests : req[q].at = "answered" /\ req[q].begun = b => Seen(q, on, off)
      BY DEF ListInv, SeenAt
    <3>2. ASSUME NEW q \in Requests \ {r}, req'[q].at = "answered", req'[q].begun = b
          PROVE  Seen(q, on, off)'
      <4>1. Seen(q, on, off) /\ req'[q] = req[q]
        BY <2>2, <3>1, <3>2
      <4> QED
        BY <4>1 DEF Seen
    <3>3. req'[r].begun = b => Seen(r, on, off)'
      <4> SUFFICES ASSUME req'[r].begun = b PROVE Seen(r, on, off)'
        OBVIOUS
      <4>1. on = enabled /\ off = disabled
        BY <1>2, <2>2, <3>1
      <4>2. Right(req[r].kind, req[r].tool, req[r].scope, tools, whole, on, off)
        BY <1>2, <4>1
      <4>3. /\ req'[r].kind = req[r].kind /\ req'[r].tool = req[r].tool
            /\ req'[r].scope = req[r].scope /\ req'[r].tools = tools /\ req'[r].whole = whole
        BY <2>2
      <4> QED
        BY <4>2, <4>3 DEF Seen
    <3>4. b = version' => on = enabled' /\ off = disabled'
      BY <2>3, <3>1
    <3> QED
      BY <3>2, <3>3, <3>4 DEF SeenAt
  <2> QED
    BY <2>4, <2>5, <2>6 DEF ListInv
<1> QED
  BY <1>1, <1>2

\* What each gate and list answers is right for the switches it has read.
LEMMA ListStep ==
  ASSUME TypeInv, ListInv, NEW r \in Requests, Step(r)
  PROVE  ListInv'
<1>0. Typed(r) /\ Fresh(r)
  BY DEF TypeInv, ListInv
<1>1. CASE Limit(r)
  <2>1. CASE Set(r, Gone)
    <3>1. Gone.at = "failed"
      BY DEF Gone
    <3> QED
      BY <1>1, <2>1, <3>1, ListRequest DEF Limit, Held
  <2>2. CASE Set(r, [req[r] EXCEPT !.at = "admitted"])
    <3>1. PICK rec : rec = [at |-> "admitted", kind |-> req[r].kind, tool |-> req[r].tool,
                 cred |-> req[r].cred, scope |-> req[r].scope, begun |-> req[r].begun]
      OBVIOUS
    <3>2. [req[r] EXCEPT !.at = "admitted"] = rec
      BY <1>0, <1>1, <3>1 DEF Limit, Typed
    <3>3. Set(r, rec) /\ UNCHANGED Others
      BY <1>1, <2>2, <3>2 DEF Limit
    <3>4. rec.at = "admitted" /\ rec.begun <= version /\ creds[rec.cred].state # "none"
          /\ rec.scope = creds[rec.cred].scope
      BY <1>0, <1>1, <3>1 DEF Limit, Fresh, Held
    <3> QED
      BY <3>3, <3>4, ListRequest
  <2> QED
    BY <1>1, <2>1, <2>2 DEF Limit
<1>2. CASE Deny(r)
  <2>1. req[r].at \in {"admitted", "enabled"} /\ Answer(r, {}, FALSE) /\ Refused(r)
    BY <1>2 DEF Deny
  <2>2. Right(req[r].kind, req[r].tool, req[r].scope, {}, FALSE, enabled, disabled)
    BY <2>1 DEF Refused, Right, Lists
  <2> QED
    BY <2>1, <2>2, ListAnswer
<1>3. CASE ReadEnabled(r)
  <2>1. PICK rec : rec = [at |-> "enabled", kind |-> req[r].kind, tool |-> req[r].tool,
             cred |-> req[r].cred, scope |-> req[r].scope, begun |-> req[r].begun, on |-> enabled]
    OBVIOUS
  <2>2. Set(r, rec) /\ UNCHANGED Others
    BY <1>3, <2>1 DEF ReadEnabled
  <2>3. /\ rec.at = "enabled" /\ rec.begun <= version /\ creds[rec.cred].state # "none"
        /\ rec.scope = creds[rec.cred].scope
        /\ ~(rec.kind = "call" /\ ~Permits(rec.scope, rec.tool))
        /\ rec.on = enabled
    BY <1>0, <1>3, <2>1 DEF ReadEnabled, Refused, Fresh, Held
  <2> QED
    BY <2>2, <2>3, ListRequest
<1>4. ASSUME req[r].at = "enabled", req[r].begun = version
      PROVE  Found(r) = Catalog(enabled, disabled) /\ ~Refused(r)
  BY <1>0, <1>4 DEF Fresh, Held, Found
<1>5. CASE AnswerList(r)
  <2>1. PICK visible, listed : visible = Visible(r) /\ listed = Cut(visible, disabled)
    OBVIOUS
  <2>2. /\ req[r].at = "enabled" /\ req[r].kind \in Lists
        /\ Answer(r, listed, listed = visible)
    BY <1>5, <2>1 DEF AnswerList
  <2>3. PICK whole \in BOOLEAN : whole <=> listed = visible
    OBVIOUS
  <2>4. Answer(r, listed, whole)
    BY <2>2, <2>3
  <2>5. req[r].begun = version =>
          Right(req[r].kind, req[r].tool, req[r].scope, listed, whole, enabled, disabled)
    <3> SUFFICES ASSUME req[r].begun = version
                 PROVE  Right(req[r].kind, req[r].tool, req[r].scope, listed, whole, enabled, disabled)
      OBVIOUS
    <3>1. visible = {t \in Catalog(enabled, disabled) : AllowsTool(req[r].scope, t)}
      BY <1>4, <2>1, <2>2 DEF Visible
    <3>2. req[r].kind # "rest_search" /\ req[r].kind # "mcp_search" /\ req[r].kind # "call"
      BY <2>2 DEF Lists
    <3> QED
      BY <2>1, <2>3, <3>1, <3>2 DEF Right
  <2> QED
    BY <2>2, <2>4, <2>5, ListAnswer
<1>6. CASE AnswerSearch(r)
  <2>1. req[r].at = "enabled"
    BY <1>6 DEF AnswerSearch
  <2>2. CASE req[r].kind = "rest_search" /\ Answer(r, {req[r].tool} \cap Visible(r), FALSE)
    <3>1. req[r].begun = version =>
            Right(req[r].kind, req[r].tool, req[r].scope, {req[r].tool} \cap Visible(r), FALSE,
                  enabled, disabled)
      BY <1>4, <2>1, <2>2 DEF Right, Visible, Lists
    <3> QED
      BY <2>1, <2>2, <3>1, ListAnswer
  <2>3. ASSUME req[r].kind = "mcp_search",
               Answer(r, {t \in {req[r].tool} \cap Found(r) : AllowsProvider(req[r].scope, t[1])}, FALSE)
        PROVE  ListInv'
    <3>1. PICK tools : tools = {t \in {req[r].tool} \cap Found(r) : AllowsProvider(req[r].scope, t[1])}
      OBVIOUS
    <3>2. req[r].begun = version =>
            Right(req[r].kind, req[r].tool, req[r].scope, tools, FALSE, enabled, disabled)
      BY <1>4, <2>1, <2>3, <3>1 DEF Right, Lists
    <3>3. Answer(r, tools, FALSE)
      BY <2>3, <3>1
    <3> QED
      BY <2>1, <3>2, <3>3, ListAnswer
  <2> QED
    BY <1>6, <2>2, <2>3 DEF AnswerSearch
<1>7. CASE Gate(r)
  <2>1. req[r].at = "enabled" /\ req[r].kind = "call" /\ Answer(r, {req[r].tool} \cap Found(r), FALSE)
    BY <1>7 DEF Gate
  <2>2. req[r].begun = version =>
          Right(req[r].kind, req[r].tool, req[r].scope, {req[r].tool} \cap Found(r), FALSE,
                enabled, disabled)
    BY <1>4, <2>1 DEF Right, Refused, Lists
  <2> QED
    BY <2>1, <2>2, ListAnswer
<1>8. CASE Fail(r)
  <2>1. Gone.at = "failed"
    BY DEF Gone
  <2> QED
    BY <1>8, <2>1, ListRequest DEF Fail, Held
<1> QED
  BY <1>1, <1>2, <1>3, <1>5, <1>6, <1>7, <1>8 DEF Step

LEMMA ListBegin ==
  ASSUME TypeInv, ListInv, NEW r \in Requests, Begin(r)
  PROVE  ListInv'
<1>1. PICK c \in Credentials, kind \in Kinds : \E t : Authenticate(r, c, kind, t)
  BY BeginCase
<1>2. PICK t : Authenticate(r, c, kind, t)
  BY <1>1
<1> PICK rec : rec = [at |-> IF kind \in {"rest_list", "rest_search"} THEN "admitted" ELSE "known",
             kind |-> kind, tool |-> t, cred |-> c, scope |-> creds[c].scope, begun |-> version]
  OBVIOUS
<1>3. Set(r, rec) /\ UNCHANGED Others /\ creds[c].state = "live"
  BY <1>2 DEF Authenticate
<1>4. /\ rec.at \in {"known", "admitted"} /\ rec.begun = version
      /\ rec.cred = c /\ rec.scope = creds[c].scope
  OBVIOUS
<1>5. version \in Nat
  BY DEF TypeInv, TypeOK
<1> QED
  BY <1>3, <1>4, <1>5, ListRequest

\* A change of switches or credentials makes what was read old.
LEMMA ListSwitch ==
  ASSUME TypeInv, ListInv, UNCHANGED req, version' = version + 1,
         \A c \in Credentials : creds[c].state # "none" =>
           creds'[c].state # "none" /\ creds'[c].scope = creds[c].scope
  PROVE  ListInv'
<1>0. version \in Nat
  BY DEF TypeInv, TypeOK
<1>1. \A b \in Nat : SeenAt(b)'
  BY SeenKept
<1>2. ASSUME NEW r \in Requests PROVE Fresh(r)'
  <2>1. Fresh(r) /\ Typed(r)
    BY DEF ListInv, TypeInv
  <2> QED
    BY <1>0, <2>1 DEF Fresh, Typed, Held, Refused
<1> QED
  BY <1>1, <1>2 DEF ListInv

LEMMA ListNext == TypeInv /\ ListInv /\ [Next]_vars => ListInv'
<1> SUFFICES ASSUME TypeInv, ListInv, [Next]_vars PROVE ListInv'
  OBVIOUS
<1>1. ASSUME UNCHANGED <<req, version, creds, enabled, disabled>> PROVE ListInv'
  <2>1. \A b \in Nat : SeenAt(b)'
    BY <1>1, SeenKept
  <2>2. \A r \in Requests : Fresh(r)'
    BY <1>1 DEF ListInv, Fresh, Refused
  <2> QED
    BY <2>1, <2>2 DEF ListInv
<1>2. ASSUME NEW a \in Admins, Administer(a) PROVE ListInv'
  <2>0. creds \in [Credentials -> [state : {"none", "live", "revoked"}, scope : Scopes]]
    BY DEF TypeInv, TypeOK
  <2>1. ASSUME NEW c \in Credentials, NEW scope \in Scopes, Mint(a, c, scope) PROVE ListInv'
    BY <2>0, <2>1, ListSwitch DEF Mint, Switch, Change, Agents
  <2>2. ASSUME NEW c \in Credentials, Revoke(a, c) PROVE ListInv'
    BY <2>0, <2>2, ListSwitch DEF Revoke, Switch, Change, Agents
  <2>3. ASSUME NEW t \in Tools, Toggle(a, t, t \in disabled) PROVE ListInv'
    BY <2>3, ListSwitch DEF Toggle, Switch, Change, Agents
  <2>4. ASSUME NEW p \in Prefixes, Connect(a, p, p \notin enabled) PROVE ListInv'
    BY <2>4, ListSwitch DEF Connect, Switch, Change, Agents
  <2>5. ASSUME NEW new, ApplyPlan(a, new) PROVE ListInv'
    BY <1>1, <2>5 DEF ApplyPlan, Change, Agents, switches
  <2>6. CASE ReadBack(a) \/ Record(a) \/ Reply(a) \/ Stop(a)
    BY <1>1, <2>6 DEF ReadBack, Record, Reply, Stop, Agents, switches
  <2> QED
    BY <1>2, <2>1, <2>2, <2>3, <2>4, <2>5, <2>6 DEF Administer
<1>3. CASE Tick
  BY <1>1, <1>3 DEF Tick, switches
<1>4. CASE UNCHANGED vars
  BY <1>1, <1>4 DEF vars, switches
<1> QED
  BY <1>2, <1>3, <1>4, ListBegin, ListStep DEF Next

LEMMA ListsHold == Spec => []ListInv
BY ListInit, ListNext, Types, PTL DEF Spec

\* ListsAgree: with the switches standing still, what a credential sees in a list
\* or a search is what it can call, for any registry, scope and budget.
THEOREM ListsAreTrue == Spec => []ListsAgree
BY ListsHold, ListsMean, Types, PTL DEF Spec

-----------------------------------------------------------------------------
(* The cut of a list *)

LEMMA LeastNat ==
  ASSUME NEW S \in SUBSET Nat, S # {}
  PROVE  \E n \in S : \A m \in S : n <= m
<1> DEFINE R == {pair \in Nat \X Nat : pair[1] < pair[2]}
<1>1. IsWellFoundedOn(R, Nat)
  BY NatLessThanWellFounded DEF OpToRel
<1>2. PICK n \in S : \A m \in S : ~(<<m, n>> \in R)
  <2> HIDE DEF R
  <2> QED
    BY <1>1, WFMin
<1>3. \A m \in S : ~(m < n)
  BY <1>2
<1> HIDE DEF R
<1> QED
  BY <1>3

LEMMA ToolsAre ==
  /\ \A t \in Tools : /\ t[1] \in Prefixes /\ t[2] \in 1 .. Len(Writes[t[1]])
                      /\ t = <<t[1], t[2]>>
  /\ \A p \in Prefixes : \A i \in 1 .. Len(Writes[p]) : <<p, i>> \in Tools
  /\ \A p \in Prefixes : Len(Writes[p]) \in Nat
<1>1. \A p \in Prefixes : DOMAIN Writes[p] = 1 .. Len(Writes[p]) /\ Len(Writes[p]) \in Nat
  <2> SUFFICES ASSUME NEW p \in Prefixes
               PROVE  DOMAIN Writes[p] = 1 .. Len(Writes[p]) /\ Len(Writes[p]) \in Nat
    OBVIOUS
  <2>1. Writes[p] \in Seq(BOOLEAN)
    OBVIOUS
  <2> QED
    BY ONLY <2>1
<1>2. ASSUME NEW t \in Tools
      PROVE  /\ t[1] \in Prefixes /\ t[2] \in 1 .. Len(Writes[t[1]])
             /\ t = <<t[1], t[2]>>
  <2>1. PICK p \in Prefixes : t \in {p} \X DOMAIN Writes[p]
    BY DEF Tools
  <2> QED
    BY <1>1, <2>1
<1>3. ASSUME NEW p \in Prefixes, NEW i \in 1 .. Len(Writes[p]) PROVE <<p, i>> \in Tools
  <2>1. <<p, i>> \in {p} \X DOMAIN Writes[p]
    BY <1>1
  <2> QED
    BY <2>1 DEF Tools
<1> QED
  BY <1>1, <1>2, <1>3

LEMMA ToolsFinite == IsFiniteSet(Tools)
<1>1. IsFiniteSet(Prefixes)
  <2>1. DOMAIN Boot = 1 .. Len(Boot) /\ Len(Boot) \in Nat
    OBVIOUS
  <2>2. IsFiniteSet(DOMAIN Boot)
    BY <2>1, FS_Interval
  <2>3. PICK f : f = [i \in DOMAIN Boot |-> Boot[i]]
    OBVIOUS
  <2>4. f \in Surjection(DOMAIN Boot, Prefixes)
    BY <2>3 DEF Surjection, Prefixes
  <2> QED
    BY <2>2, <2>4, FS_Surjection, Zenon
<1>2. PICK g : g = [p \in Prefixes |-> {p} \X DOMAIN Writes[p]]
  OBVIOUS
<1>3. PICK S : S = {{p} \X DOMAIN Writes[p] : p \in Prefixes}
  OBVIOUS
<1>4. g \in Surjection(Prefixes, S)
  BY <1>2, <1>3 DEF Surjection
<1>5. IsFiniteSet(S)
  BY <1>1, <1>4, FS_Surjection, Zenon
<1>6. ASSUME NEW T \in S PROVE IsFiniteSet(T)
  <2>1. PICK p \in Prefixes : T = {p} \X DOMAIN Writes[p]
    BY <1>3
  <2>2. Writes[p] \in Seq(BOOLEAN)
    OBVIOUS
  <2>3. DOMAIN Writes[p] = 1 .. Len(Writes[p]) /\ Len(Writes[p]) \in Nat
    BY ONLY <2>2
  <2>4. IsFiniteSet(DOMAIN Writes[p])
    BY <2>3, FS_Interval
  <2>5. IsFiniteSet({p})
    BY FS_Singleton
  <2> QED
    BY <2>1, <2>4, <2>5, FS_Product, Zenon
<1>7. Tools = UNION S
  BY <1>3 DEF Tools
<1> QED
  BY <1>5, <1>6, <1>7, FS_UNION, Zenon

\* The indices of v's provider up to v that are not off, and their number, v's turn.
Indices(v, off) == {i \in 1 .. v[2] : <<v[1], i>> \notin off}
Turn(v, off) == Cardinality(Indices(v, off))

LEMMA TurnFinite ==
  ASSUME NEW v \in Tools, NEW off
  PROVE  IsFiniteSet(Indices(v, off)) /\ Turn(v, off) \in Nat
<1>1. v[2] \in Nat
  <2>1. Len(Writes[v[1]]) \in Nat /\ v[2] \in 1 .. Len(Writes[v[1]])
    BY ToolsAre
  <2> QED
    BY <2>1
<1>2. IsFiniteSet(1 .. v[2])
  <2>1. v[2] \in Int /\ 1 \in Int
    BY <1>1
  <2> QED
    BY <2>1, FS_Interval, Zenon
<1>3. Indices(v, off) \in SUBSET (1 .. v[2])
  BY DEF Indices
<1>4. IsFiniteSet(Indices(v, off))
  BY <1>2, <1>3, FS_Subset, Zenon
<1> QED
  BY <1>4, FS_CardinalityType DEF Turn

LEMMA AheadByTurn ==
  ASSUME NEW t, NEW u, NEW off
  PROVE  Ahead(t, u, off) <=>
           \/ Turn(t, off) < Turn(u, off)
           \/ Turn(t, off) = Turn(u, off) /\ BootIndex(t[1]) < BootIndex(u[1])
BY DEF Ahead, Turn, Indices

\* A tool that is left out has no earlier turn than one that is listed.
LEMMA CutByTurn ==
  ASSUME NEW V \in SUBSET Tools, NEW off, NEW u \in V \ Cut(V, off), NEW t \in Cut(V, off)
  PROVE  Turn(t, off) <= Turn(u, off)
<1> SUFFICES ASSUME Turn(u, off) < Turn(t, off) PROVE FALSE
  <2>1. t \in Tools /\ u \in Tools
    BY DEF Cut
  <2> QED
    BY <2>1, TurnFinite
<1>1. t \in V
  BY DEF Cut
<1>2. PICK A, B : A = {x \in V : Ahead(x, u, off)} /\ B = {x \in V : Ahead(x, t, off)}
  OBVIOUS
<1>3. A \in SUBSET B
  <2> SUFFICES ASSUME NEW x \in V, Ahead(x, u, off) PROVE Ahead(x, t, off)
    BY <1>2
  <2>1. Turn(x, off) \in Nat /\ Turn(u, off) \in Nat /\ Turn(t, off) \in Nat
    BY <1>1, TurnFinite
  <2>2. Turn(x, off) <= Turn(u, off)
    BY <2>1, AheadByTurn
  <2> QED
    BY <2>1, <2>2, AheadByTurn
<1>4. IsFiniteSet(B)
  <2>1. B \in SUBSET Tools
    BY <1>2
  <2> QED
    BY <2>1, ToolsFinite, FS_Subset, Zenon
<1>5. Cardinality(A) <= Cardinality(B) /\ Cardinality(A) \in Nat /\ Cardinality(B) \in Nat
  <2>1. IsFiniteSet(A) /\ Cardinality(A) <= Cardinality(B)
    BY <1>3, <1>4, FS_Subset, Zenon
  <2> QED
    BY <1>4, <2>1, FS_CardinalityType
<1>6. Cardinality(B) < TOOL_BUDGET
  BY <1>2 DEF Cut
<1>7. ~(Cardinality(A) < TOOL_BUDGET)
  BY <1>2 DEF Cut
<1> QED
  BY <1>5, <1>6, <1>7

\* The tools of one provider that are listed are no more than the last one's turn.
LEMMA FewListed ==
  ASSUME NEW V \in SUBSET Tools, NEW off, V \cap off = {}, NEW q \in Prefixes, NEW k \in Nat,
         \A t \in V : t[1] = q /\ Turn(t, off) <= k
  PROVE  IsFiniteSet(V) /\ Cardinality(V) <= k
<1>0. IsFiniteSet(V)
  BY ToolsFinite, FS_Subset, Zenon
<1>1. CASE V = {}
  BY <1>0, <1>1, FS_EmptySet
<1>2. CASE V # {}
  <2>1. PICK S : S = {n \in Nat : \A t \in V : t[2] <= n}
    OBVIOUS
  <2>2. \A t \in V : t[2] \in 1 .. Len(Writes[q]) /\ t = <<q, t[2]>> /\ t \in Tools
    BY ToolsAre
  <2>3. Len(Writes[q]) \in S
    BY <2>1, <2>2, ToolsAre
  <2>4. PICK n \in S : \A m \in S : n <= m
    <3>1. S \in SUBSET Nat /\ S # {}
      BY <2>1, <2>3
    <3> QED
      BY <3>1, LeastNat
  <2>5. n \in Nat /\ \A t \in V : t[2] <= n
    BY <2>1
  <2>6. \E t \in V : t[2] = n
    <3> SUFFICES ASSUME \A t \in V : t[2] # n PROVE FALSE
      OBVIOUS
    <3>1. n # 0
      BY <1>2, <2>2, <2>5
    <3>2. n - 1 \in Nat /\ \A t \in V : t[2] <= n - 1
      BY <2>2, <2>5, <3>1
    <3>3. n - 1 \in S
      BY <2>1, <3>2
    <3> QED
      BY <2>4, <2>5, <3>3
  <2>7. PICK t \in V : t[2] = n
    BY <2>6
  <2>8. PICK f : f = [v \in V |-> v[2]]
    OBVIOUS
  <2>9. f \in Injection(V, Indices(t, off))
    <3>1. \A v \in V : v[2] \in Indices(t, off)
      <4> SUFFICES ASSUME NEW v \in V PROVE v[2] \in Indices(t, off)
        OBVIOUS
      <4>1. v[2] \in 1 .. t[2]
        <5>1. v[2] \in Nat /\ v[2] >= 1
          BY <2>2, ToolsAre
        <5> QED
          BY <2>5, <2>7, <5>1
      <4>2. <<t[1], v[2]>> \notin off
        BY <2>2
      <4> QED
        BY <4>1, <4>2 DEF Indices
    <3>2. f \in [V -> Indices(t, off)]
      BY <2>8, <3>1
    <3>3. \A v, w \in V : f[v] = f[w] => v = w
      BY <2>2, <2>8
    <3> QED
      BY <3>2, <3>3 DEF Injection, IsInjective
  <2>10. IsFiniteSet(Indices(t, off)) /\ Turn(t, off) \in Nat
    BY TurnFinite
  <2>11. Cardinality(V) <= Turn(t, off)
    BY <2>9, <2>10, FS_Injection, Zenon DEF Turn
  <2>12. Cardinality(V) \in Nat
    BY <1>0, FS_CardinalityType
  <2> QED
    BY <1>0, <2>10, <2>11, <2>12
<1> QED
  BY <1>1, <1>2

\* One that is left out, all of its provider's before it being listed, has at most
\* one turn more than are listed.
LEMMA ManyListed ==
  ASSUME NEW L \in SUBSET Tools, NEW off, NEW u \in Tools, u \notin off,
         \A i \in Indices(u, off) \ {u[2]} : <<u[1], i>> \in L
  PROVE  Turn(u, off) <= Cardinality(L) + 1
<1>0. IsFiniteSet(L) /\ Cardinality(L) \in Nat
  <2>1. IsFiniteSet(L)
    BY ToolsFinite, FS_Subset, Zenon
  <2> QED
    BY <2>1, FS_CardinalityType
<1>1. PICK I : I = Indices(u, off) \ {u[2]}
  OBVIOUS
<1>2. PICK f : f = [i \in I |-> <<u[1], i>>]
  OBVIOUS
<1>3. f \in Injection(I, L)
  <2>1. f \in [I -> L]
    BY <1>1, <1>2
  <2>2. \A i, j \in I : f[i] = f[j] => i = j
    BY <1>2
  <2> QED
    BY <2>1, <2>2 DEF Injection, IsInjective
<1>4. IsFiniteSet(I) /\ Cardinality(I) <= Cardinality(L)
  BY <1>0, <1>3, FS_Injection, Zenon
<1>5. IsFiniteSet(Indices(u, off)) /\ Turn(u, off) \in Nat
  BY TurnFinite
<1>6. Cardinality(I) = IF u[2] \in Indices(u, off) THEN Turn(u, off) - 1 ELSE Turn(u, off)
  BY <1>1, <1>5, FS_RemoveElement, Zenon DEF Turn
<1>7. Cardinality(I) \in Nat
  BY <1>4, FS_CardinalityType
<1> QED
  BY <1>0, <1>4, <1>5, <1>6, <1>7

Of(tools, p) == {t \in tools : t[1] = p}

\* The cut samples the providers evenly.
LEMMA EvenCut ==
  ASSUME NEW on, NEW off, NEW ps, NEW p \in ps, NEW q \in ps, NEW V, NEW L,
         V = {t \in Catalog(on, off) : t[1] \in ps}, L = Cut(V, off),
         Of(L, p) # Of(V, p)
  PROVE  Cardinality(Of(L, p)) + 1 >= Cardinality(Of(L, q))
<1>0. /\ V \in SUBSET Tools /\ L \in SUBSET V /\ V \cap off = {}
  BY DEF Catalog, Cut
<1>1. PICK S : S = {n \in Nat : \E t \in V \ L : t[1] = p /\ t[2] = n}
  OBVIOUS
<1>2. \A t \in V : t[1] \in Prefixes /\ t[2] \in 1 .. Len(Writes[t[1]]) /\ t = <<t[1], t[2]>>
                   /\ Len(Writes[t[1]]) \in Nat
  BY <1>0, ToolsAre
<1>3. PICK n \in S : \A m \in S : n <= m
  <2>1. PICK t \in V \ L : t[1] = p
    BY <1>0 DEF Of
  <2>2. t[2] \in S
    <3>1. t[2] \in Nat
      BY <1>2, <2>1
    <3> QED
      BY <1>1, <2>1, <3>1
  <2>3. S \in SUBSET Nat /\ S # {}
    BY <1>1, <2>2
  <2> QED
    BY <2>3, LeastNat
<1>4. PICK u \in V \ L : u[1] = p /\ u[2] = n
  BY <1>1
<1>5. u \in Tools /\ u \notin off /\ p \in Prefixes /\ p \in on
  BY <1>0, <1>2, <1>4 DEF Catalog
<1>6. PICK Lp, Lq : Lp = Of(L, p) /\ Lq = Of(L, q)
  OBVIOUS
<1>7. ASSUME NEW i \in Indices(u, off) \ {u[2]} PROVE <<u[1], i>> \in Lp
  <2>1. u[2] \in Nat /\ u[2] <= Len(Writes[p]) /\ Len(Writes[p]) \in Nat
    BY <1>2, <1>4
  <2>2. i \in 1 .. Len(Writes[p]) /\ i \in Nat /\ i < n /\ <<p, i>> \notin off
    BY <1>4, <2>1 DEF Indices
  <2>3. <<p, i>> \in Tools
    BY <1>5, <2>2, ToolsAre
  <2>4. <<p, i>> \in V
    BY <1>5, <2>2, <2>3 DEF Catalog
  <2>5. i \notin S
    <3>1. n \in Nat
      BY <1>1
    <3> QED
      BY <1>3, <2>2, <3>1
  <2>6. <<p, i>> \in L
    <3> SUFFICES ASSUME <<p, i>> \notin L PROVE FALSE
      OBVIOUS
    <3>1. PICK t \in V \ L : t = <<p, i>>
      BY <2>4
    <3>2. t[1] = p /\ t[2] = i
      BY <3>1
    <3> QED
      BY <1>1, <2>2, <2>5, <3>2
  <2> QED
    BY <1>4, <1>6, <2>6 DEF Of
<1>8. Turn(u, off) <= Cardinality(Lp) + 1
  <2>1. Lp \in SUBSET Tools
    BY <1>0, <1>6 DEF Of
  <2> QED
    BY <1>5, <1>7, <2>1, ManyListed
<1>9. \A t \in Lq : Turn(t, off) <= Turn(u, off)
  BY <1>0, <1>4, <1>6, CutByTurn DEF Of
<1>10. Turn(u, off) \in Nat
  BY <1>5, TurnFinite
<1>11. Cardinality(Lq) <= Turn(u, off) /\ Cardinality(Lq) \in Nat
  <2>1. CASE q \in Prefixes
    <3>1. Lq \in SUBSET Tools /\ Lq \cap off = {} /\ \A t \in Lq : t[1] = q
      BY <1>0, <1>6 DEF Of
    <3>2. IsFiniteSet(Lq) /\ Cardinality(Lq) <= Turn(u, off)
      BY <1>9, <1>10, <2>1, <3>1, FewListed
    <3> QED
      BY <3>2, FS_CardinalityType
  <2>2. CASE q \notin Prefixes
    <3>1. Lq = {}
      BY <1>0, <1>2, <1>6, <2>2 DEF Of
    <3> QED
      BY <1>10, <3>1, FS_EmptySet
  <2> QED
    BY <2>1, <2>2
<1>12. Cardinality(Lp) \in Nat
  <2>1. Lp \in SUBSET Tools
    BY <1>0, <1>6 DEF Of
  <2>2. IsFiniteSet(Lp)
    BY <2>1, ToolsFinite, FS_Subset, Zenon
  <2> QED
    BY <2>2, FS_CardinalityType
<1>13. Cardinality(Lp) + 1 >= Cardinality(Lq)
  BY <1>8, <1>10, <1>11, <1>12
<1> QED
  BY <1>6, <1>13

LEMMA EvenMeans == TypeInv /\ ListInv => EvenSample
<1> SUFFICES ASSUME TypeInv, ListInv, NEW r \in Requests,
                    req[r].at = "answered", req[r].kind \in Lists, req[r].begun = version,
                    ~req[r].scope.readOnly, NEW p \in req[r].scope.providers,
                    NEW q \in req[r].scope.providers,
                    {t \in req[r].tools : t[1] = p} # {t \in Catalog(enabled, disabled) : t[1] = p}
             PROVE  Cardinality({t \in req[r].tools : t[1] = p}) + 1
                      >= Cardinality({t \in req[r].tools : t[1] = q})
  BY DEF EvenSample
<1>1. version \in Nat
  BY DEF TypeInv, TypeOK
<1>2. Seen(r, enabled, disabled)
  BY <1>1 DEF ListInv, SeenAt
<1>3. PICK V, ps : ps = req[r].scope.providers /\ V = {t \in Catalog(enabled, disabled) : t[1] \in ps}
  OBVIOUS
<1>4. {t \in Catalog(enabled, disabled) : AllowsTool(req[r].scope, t)} = V
  BY <1>3 DEF AllowsTool, AllowsProvider
<1>5. req[r].tools = Cut(V, disabled)
  BY <1>2, <1>4 DEF Seen, Right
<1>6. {t \in V : t[1] = p} = {t \in Catalog(enabled, disabled) : t[1] = p}
  BY <1>3
<1>7. PICK L : L = req[r].tools
  OBVIOUS
<1>8. Of(L, p) # Of(V, p)
  BY <1>6, <1>7 DEF Of
<1>9. Cardinality(Of(L, p)) + 1 >= Cardinality(Of(L, q))
  <2>1. L = Cut(V, disabled) /\ p \in ps /\ q \in ps
    BY <1>3, <1>5, <1>7
  <2> QED
    BY <1>3, <1>8, <2>1, EvenCut
<1> QED
  BY <1>7, <1>9 DEF Of

\* EvenSample: at any budget and any set of switched-off tools, no provider of a
\* list is cut short while another has two tools more in it.
THEOREM SamplesEvenly == Spec => []EvenSample
BY ListsHold, EvenMeans, Types, PTL DEF Spec
=============================================================================
