------------------------------ MODULE Surfaces ------------------------------
(***************************************************************************)
(* What a workspace's agents and its administrator see of the gateway: the *)
(* bearer check, the rate limiter, the tool lists of MCP and REST, search, *)
(* the gates of a call (interface/http, application/catalog.ts,            *)
(* meta-tools.ts, domain/credential.ts) and the admin plane (admin.ts,     *)
(* credentials.ts, workspaces.ts).                                         *)
(*                                                                         *)
(* A request is one await after another: the credential's row, the         *)
(* enabled providers, the disabled tools.  What a call does past its gates *)
(* is module ToolCall, how a provider is connected is Connections.  A tool *)
(* is <<prefix, i>>, the i-th of its manifest.                             *)
(***************************************************************************)
EXTENDS Naturals, Sequences, FiniteSets

CONSTANTS
  Requests,     \* requests of agents
  Admins,       \* requests of administrators
  Credentials,
  Boot,         \* the registry: prefixes in boot order
  Writes,       \* by prefix: for each of its tools, does it write?
  Scopes,       \* the scopes credentials are minted with
  Plans,        \* the plans a workspace can be put on
  TOOL_BUDGET,
  PerMinute,    \* the rate limit
  Minute,       \* ticks of the clock in a minute
  MaxTime,
  MaxBegun      \* bound on the requests begun by either side

Prefixes == {Boot[i] : i \in DOMAIN Boot}
Tools == UNION {{p} \X DOMAIN Writes[p] : p \in Prefixes}
Scope == [providers : SUBSET Prefixes, readOnly : BOOLEAN]

ASSUME RegistryAssumption == Boot \in Seq(STRING) /\ Writes \in [Prefixes -> Seq(BOOLEAN)]
ASSUME ScopeAssumption == Scopes # {} /\ Scopes \subseteq Scope
ASSUME RateAssumption == PerMinute \in Nat \ {0} /\ Minute \in Nat \ {0}
ASSUME BoundAssumption == {TOOL_BUDGET, MaxTime, MaxBegun} \subseteq Nat

VARIABLES
  now,        \* the clock
  creds,      \* gateway_credentials: none, live or revoked, and the scope
  enabled,    \* providers the workspace has connected
  disabled,   \* tools switched off
  plan,       \* its plan
  bucket,     \* the limiter's tokens and when it last refilled
  req,        \* by request: where it stands, what it has read, what it answered
  admin,      \* by admin request: where it stands and what it is about
  audit,      \* audit_log: who did what
  admitted,   \* history: what the limiter let through
  earned,     \* history: what the limiter refilled, the cap aside
  version     \* history: changes made to switches and credentials

switches == <<creds, enabled, disabled>>
limiter == <<bucket, admitted, earned>>
plane == <<plan, admin, audit>>
vars == <<now, switches, limiter, plane, req, version>>

Idle == [at |-> "idle"]
Gone == [at |-> "failed"]
Kinds == {"rest_list", "mcp_list", "rest_search", "mcp_search", "call"}
Lists == {"rest_list", "mcp_list"}
FirstPlan == "free"

TypeOK ==
  /\ now \in 0 .. MaxTime
  /\ creds \in [Credentials -> [state : {"none", "live", "revoked"}, scope : Scopes]]
  /\ enabled \subseteq Prefixes /\ disabled \subseteq Tools
  /\ bucket.tokens \in 0 .. PerMinute /\ bucket.refilledAt \in 0 .. now
  /\ plan \in Plans \cup {FirstPlan}
  /\ admitted \in Nat /\ earned \in Nat /\ version \in Nat
  /\ \A r \in Requests :
       req[r].at \in {"idle", "known", "admitted", "enabled", "answered", "mixed", "failed"}
  /\ \A a \in Admins : admin[a].at \in {"idle", "changed", "read", "audited", "answered", "failed"}
  /\ \A e \in audit : e.by \in Admins

Init ==
  /\ now = 0
  /\ creds \in [Credentials -> [state : {"live"}, scope : Scopes]
                               \cup {[state |-> "none", scope |-> CHOOSE s \in Scopes : TRUE]}]
  /\ enabled = Prefixes
  /\ disabled = {}
  /\ plan = FirstPlan
  /\ bucket = [tokens |-> PerMinute, refilledAt |-> 0]
  /\ req = [r \in Requests |-> Idle]
  /\ admin = [a \in Admins |-> Idle]
  /\ audit = {}
  /\ admitted = 0
  /\ earned = 0
  /\ version = 0

-----------------------------------------------------------------------------
(* Scopes and the catalog *)

WritesTool(t) == Writes[t[1]][t[2]]
\* scopeAllowsProvider
AllowsProvider(scope, p) == p \in scope.providers

\* Mutant: the list is narrowed by provider only.
AllowsToolOfProvider(scope, t) == AllowsProvider(scope, t[1])

\* scopeAllowsTool, the listing half of assertScopeAllows
AllowsTool(scope, t) == AllowsProvider(scope, t[1]) /\ ~(scope.readOnly /\ WritesTool(t))

\* assertScopeAllows
Permits(scope, t) ==
  /\ AllowsProvider(scope, t[1])
  /\ WritesTool(t) => ~scope.readOnly

\* listWorkspaceTools, before its order and its cut.
Catalog(on, off) == {t \in Tools : t[1] \in on} \ off

BootIndex(p) == CHOOSE i \in DOMAIN Boot : Boot[i] = p

\* Mutant: one provider after the other.
AheadConcatenated(t, u, off) ==
  \/ BootIndex(t[1]) < BootIndex(u[1])
  \/ t[1] = u[1] /\ t[2] < u[2]

\* interleave: one tool from each provider in turn, what is off left out.
Ahead(t, u, off) ==
  LET Turn(v) == Cardinality({i \in 1 .. v[2] : <<v[1], i>> \notin off})
  IN  \/ Turn(t) < Turn(u)
      \/ Turn(t) = Turn(u) /\ BootIndex(t[1]) < BootIndex(u[1])

\* The first TOOL_BUDGET of them.
Cut(tools, off) ==
  {t \in tools : Cardinality({u \in tools : Ahead(u, t, off)}) < TOOL_BUDGET}

-----------------------------------------------------------------------------
(* A request *)

\* What the bound counts: an administrator's request, which changes what later
\* ones see, counts as two of an agent's.
Begun ==
  Cardinality({r \in Requests : req[r] # Idle}) + 2 * Cardinality({a \in Admins : admin[a] # Idle})

Set(r, record) == req' = [req EXCEPT ![r] = record]
Others == <<now, switches, plane, version>>

\* requireCredential: the row is read once, and its scope kept for the request.
\* t is the tool that is called, or that answers to the query.
Authenticate(r, c, kind, t) ==
  /\ req[r].at = "idle" /\ Begun < MaxBegun
  /\ creds[c].state = "live"
  /\ Set(r, [at |-> IF kind \in {"rest_list", "rest_search"} THEN "admitted" ELSE "known",
             kind |-> kind, tool |-> t, cred |-> c, scope |-> creds[c].scope, begun |-> version])
  /\ UNCHANGED <<Others, limiter>>

Refill == ((now - bucket.refilledAt) * PerMinute) \div Minute
Least(a, b) == IF a <= b THEN a ELSE b

\* Mutant: the refill is not capped.
RefilledUncapped ==
  IF Refill > 0 THEN [tokens |-> bucket.tokens + Refill, refilledAt |-> now] ELSE bucket

\* Mutant: the bucket is dated at every request.
RefilledAlways == [tokens |-> Least(PerMinute, bucket.tokens + Refill), refilledAt |-> now]

\* What has been earned since the last refill, in whole tokens.
Refilled ==
  IF Refill > 0
  THEN [tokens |-> Least(PerMinute, bucket.tokens + Refill), refilledAt |-> now]
  ELSE bucket

\* rateLimiter, ahead of MCP and of REST calls but not of /v1/tools.
Limit(r) ==
  /\ req[r].at = "known"
  /\ earned' = earned + Refill
  /\ \/ /\ Refilled.tokens = 0
        /\ bucket' = Refilled
        /\ Set(r, Gone)
        /\ UNCHANGED admitted
     \/ /\ Refilled.tokens > 0
        /\ bucket' = [Refilled EXCEPT !.tokens = @ - 1]
        /\ Set(r, [req[r] EXCEPT !.at = "admitted"])
        /\ admitted' = admitted + 1
  /\ UNCHANGED Others

\* An answer: the tools it names and whether those are all there are.  It is kept
\* if switches and credentials stood still while it was made.
Answer(r, tools, whole) ==
  /\ Set(r, IF req[r].begun # version THEN [at |-> "mixed"]
            ELSE [at |-> "answered", kind |-> req[r].kind, tool |-> req[r].tool,
                  cred |-> req[r].cred, scope |-> req[r].scope, begun |-> req[r].begun,
                  tools |-> tools, whole |-> whole])
  /\ UNCHANGED <<Others, limiter>>

Refused(r) == req[r].kind = "call" /\ ~Permits(req[r].scope, req[r].tool)

\* callTool's first gate, which reads nothing.
Deny(r) ==
  /\ req[r].at = "admitted"
  /\ Refused(r)
  /\ Answer(r, {}, FALSE)

\* enabledPrefixes, of a call as of a list.
ReadEnabled(r) ==
  /\ req[r].at = "admitted"
  /\ ~Refused(r)
  /\ Set(r, [at |-> "enabled", kind |-> req[r].kind, tool |-> req[r].tool,
             cred |-> req[r].cred, scope |-> req[r].scope, begun |-> req[r].begun,
             on |-> enabled])
  /\ UNCHANGED <<Others, limiter>>

Found(r) == Catalog(req[r].on, disabled)
Visible(r) == {t \in Found(r) : AllowsTool(req[r].scope, t)}

\* disabledTools, and the list: what the scope allows, cut to the budget.
AnswerList(r) ==
  /\ req[r].at = "enabled"
  /\ req[r].kind \in Lists
  /\ LET listed == Cut(Visible(r), disabled)
     IN  Answer(r, listed, listed = Visible(r))

\* GET /v1/tools?q= searches what is visible; callSearchTool searches all that
\* its credential's providers have.  The query is one that req[r].tool answers.
AnswerSearch(r) ==
  /\ req[r].at = "enabled"
  /\ \/ req[r].kind = "rest_search" /\ Answer(r, {req[r].tool} \cap Visible(r), FALSE)
     \/ /\ req[r].kind = "mcp_search"
        /\ Answer(r, {t \in {req[r].tool} \cap Found(r) : AllowsProvider(req[r].scope, t[1])},
                  FALSE)

\* callTool's other gates: what they let through is the tool itself.
Gate(r) ==
  /\ req[r].at = "enabled"
  /\ req[r].kind = "call"
  /\ Answer(r, {req[r].tool} \cap Found(r), FALSE)

\* A query rejects, or the replica goes down with the request.
Fail(r) ==
  /\ req[r].at \in {"known", "admitted", "enabled"}
  /\ Set(r, Gone)
  /\ UNCHANGED <<Others, limiter>>

-----------------------------------------------------------------------------
(* The admin plane *)

Agents == <<now, limiter, req>>

\* An admin request changes its row; the audit row is a query of its own, and
\* the answer follows that.
Change(a, action, target) ==
  /\ admin[a].at = "idle" /\ Begun + 1 < MaxBegun
  /\ admin' = [admin EXCEPT ![a] = [at |-> IF action = "plan.changed" THEN "changed" ELSE "read",
                                    action |-> action, target |-> target]]
  /\ UNCHANGED <<Agents, audit>>

Switch(a, action, target) ==
  /\ Change(a, action, target)
  /\ version' = version + 1
  /\ UNCHANGED plan

\* mintForWorkspace; the audit row has no more than the last four characters.
Mint(a, c, scope) ==
  /\ creds[c].state = "none"
  /\ creds' = [creds EXCEPT ![c] = [state |-> "live", scope |-> scope]]
  /\ Switch(a, "credential.minted", "last4")
  /\ UNCHANGED <<enabled, disabled>>

\* Mutant: a revoked credential is revoked again.
RevokeAgain(a, c) ==
  /\ creds[c].state # "none"
  /\ creds' = [creds EXCEPT ![c].state = "revoked"]
  /\ Switch(a, "credential.revoked", c)
  /\ UNCHANGED <<enabled, disabled>>

\* revokeCredential: no row still unrevoked is a 404.
Revoke(a, c) ==
  /\ creds[c].state = "live"
  /\ creds' = [creds EXCEPT ![c].state = "revoked"]
  /\ Switch(a, "credential.revoked", c)
  /\ UNCHANGED <<enabled, disabled>>

\* setToolOverride
Toggle(a, t, on) ==
  /\ disabled' = IF on THEN disabled \ {t} ELSE disabled \cup {t}
  /\ Switch(a, "tool.toggled", t)
  /\ UNCHANGED <<creds, enabled>>

\* A key that is set or a provider that is disconnected, as the registry's
\* enablements see it.
Connect(a, p, on) ==
  /\ enabled' = IF on THEN enabled \cup {p} ELSE enabled \ {p}
  /\ Switch(a, IF on THEN "connection.key_set" ELSE "connection.disconnected", p)
  /\ UNCHANGED <<creds, disabled>>

\* Mutant: the summary is read before the row is written.
ApplyPlanReadFirst(a, new) ==
  /\ admin[a].at = "idle" /\ Begun + 1 < MaxBegun
  /\ plan' = new
  /\ admin' = [admin EXCEPT ![a] = [at |-> "read", action |-> "plan.changed", target |-> plan]]
  /\ UNCHANGED <<Agents, audit, switches, version>>

\* applyPlan: COALESCE keeps the plan that is there when the patch has none.
ApplyPlan(a, new) ==
  /\ plan' = new
  /\ Change(a, "plan.changed", "")
  /\ UNCHANGED <<switches, version>>

\* applyPlan's readWorkspace: the audited plan is whatever it is by now.
ReadBack(a) ==
  /\ admin[a].at = "changed"
  /\ admin' = [admin EXCEPT ![a] = [@ EXCEPT !.at = "read", !.target = plan]]
  /\ UNCHANGED <<Agents, switches, version, plan, audit>>

Row(a) == [by |-> a, action |-> admin[a].action, target |-> admin[a].target]

\* recordAudit
Record(a) ==
  /\ admin[a].at = "read"
  /\ audit' = audit \cup {Row(a)}
  /\ admin' = [admin EXCEPT ![a].at = "audited"]
  /\ UNCHANGED <<Agents, switches, version, plan>>

\* res.json
Reply(a) ==
  /\ admin[a].at = "audited"
  /\ admin' = [admin EXCEPT ![a].at = "answered"]
  /\ UNCHANGED <<Agents, switches, version, plan, audit>>

\* A query rejects, the replica dies, or the connection is gone: the change
\* stands, audited or not, and nobody is answered.
Stop(a) ==
  /\ admin[a].at \in {"changed", "read", "audited"}
  /\ admin' = [admin EXCEPT ![a].at = "failed"]
  /\ UNCHANGED <<Agents, switches, version, plan, audit>>

Tick ==
  /\ now < MaxTime
  /\ now' = now + 1
  /\ UNCHANGED <<switches, limiter, plane, req, version>>

Begin(r) ==
  \/ \E c \in Credentials, kind \in Lists : Authenticate(r, c, kind, CHOOSE t \in Tools : TRUE)
  \/ \E c \in Credentials, kind \in Kinds \ Lists, t \in Tools : Authenticate(r, c, kind, t)

Step(r) ==
  \/ Limit(r) \/ Deny(r) \/ ReadEnabled(r)
  \/ AnswerList(r) \/ AnswerSearch(r) \/ Gate(r)
  \/ Fail(r)

Administer(a) ==
  \/ \E c \in Credentials, scope \in Scopes : Mint(a, c, scope)
  \/ \E c \in Credentials : Revoke(a, c)
  \/ \E t \in Tools : Toggle(a, t, t \in disabled)
  \/ \E p \in Prefixes : Connect(a, p, p \notin enabled)
  \/ \E new \in Plans \cup {plan} : ApplyPlan(a, new)
  \/ ReadBack(a) \/ Record(a) \/ Reply(a) \/ Stop(a)

Next == (\E r \in Requests : Begin(r) \/ Step(r)) \/ (\E a \in Admins : Administer(a)) \/ Tick

Spec == Init /\ [][Next]_vars

-----------------------------------------------------------------------------
(* Properties *)

\* Two answers to one credential, on whose switches nothing changed from the
\* first read of the one to the last of the other.
Comparable(q, r) ==
  /\ req[q].at = "answered" /\ req[r].at = "answered"
  /\ req[q].cred = req[r].cred /\ req[q].begun = req[r].begun

\* domain/credential.ts: a tool that a credential sees in a list or in a search
\* of /v1/tools is a tool it can call, and a list that names all it has leaves
\* none out.
ListsAgree ==
  \A q, r \in Requests :
    Comparable(q, r) /\ req[r].kind = "call" =>
      LET t == req[r].tool
          open == t \in req[r].tools
      IN  /\ req[q].kind \in Lists \cup {"rest_search"} /\ t \in req[q].tools => open
          /\ req[q].kind \in Lists /\ req[q].whole /\ open => t \in req[q].tools

\* README.md:353: "A tool it can see is a tool it can call" - in the answers of
\* the search tool too.
SearchIsCallable ==
  \A q, r \in Requests :
    Comparable(q, r) /\ req[q].kind = "mcp_search" /\ req[r].kind = "call"
      /\ req[r].tool \in req[q].tools => req[r].tool \in req[r].tools

\* catalog.ts: the list of a credential that may write samples its providers
\* evenly: none is cut short while another has two tools more in it.
EvenSample ==
  \A r \in Requests :
    req[r].at = "answered" /\ req[r].kind \in Lists /\ req[r].begun = version
      /\ ~req[r].scope.readOnly =>
        LET In(p) == {t \in req[r].tools : t[1] = p}
            On(p) == {t \in Catalog(enabled, disabled) : t[1] = p}
        IN  \A p, q \in req[r].scope.providers :
              In(p) = On(p) \/ Cardinality(In(p)) + 1 >= Cardinality(In(q))

\* rate-limit.ts: the limiter lets no more through than a full bucket and what
\* time has earned since, and a workspace that keeps calling is not starved: at
\* least half of what it earns is refilled, whenever its calls come.
RateKept ==
  /\ admitted + bucket.tokens <= PerMinute + (bucket.refilledAt * PerMinute) \div Minute
  /\ 2 * earned * Minute >= bucket.refilledAt * PerMinute

\* admin.ts: the trail an administrator relies on, wherever requests stop.  What
\* was answered is audited, every row tells of a change that a request made, and
\* a revoked credential was revoked by exactly one request, so that its row is
\* there or that one request was never answered.
AuditTrue ==
  /\ \A a \in Admins : admin[a].at = "answered" => Row(a) \in audit
  /\ \A e \in audit : \E a \in Admins : admin[a] # Idle /\ e = Row(a)
  /\ \A c \in Credentials :
       LET Revoking == {a \in Admins : admin[a] # Idle /\ admin[a].action = "credential.revoked"
                                                     /\ admin[a].target = c}
       IN  IF creds[c].state = "revoked" THEN \E a \in Admins : Revoking = {a}
                                         ELSE Revoking = {}

\* workspaces.ts: however changes of the plan cross, once all of them have been
\* audited one of their rows tells the plan in force.
PlanTold ==
  LET Changing == {a \in Admins : admin[a] # Idle /\ admin[a].action = "plan.changed"}
  IN  Changing # {} /\ (\A a \in Changing : admin[a].at \in {"audited", "answered"}) =>
        \E e \in audit : e.action = "plan.changed" /\ e.target = plan
=============================================================================
