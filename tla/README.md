# Verification of selat

TLA+ models of selat, a gateway that holds OAuth grants for agents and calls
vendor tools on their behalf. Each module is translated from the TypeScript
under `src/`; TLC checks small instances, and TLAPS proves their safety
properties for every value of the constants. `PROJECT.json` maps each
definition to the lines it stands for and lists runs, mutants, hazards,
findings and theorems.

Paths below are relative to the repository; `application/…`, `adapters/…`,
`domain/…` and `interface/…` are under its `src/`.

## 1. The system

selat is one Node process per replica, any number of replicas, and one
PostgreSQL database (or an embedded single-connection one). A process keeps no
state between requests but a token bucket per workspace and a registry that is
filled at boot. Everything that matters is a row, and nearly every row is read
in one statement and written in another, across an `await`, by whichever
replica happens to serve the request. That is where the hard behaviour is.

| Component | State it keeps | Operations | Talks to | What makes it correct | Modelled in |
|---|---|---|---|---|---|
| Grant refresh (`application/grants.ts`, `adapters/db/grant-store.ts`) | `grants` row: sealed access and refresh token, expiry, `reauth_needed`; an advisory lock | `accessTokenFor`; `load`, `save`, `markReauth`, `drop`, `withRefreshLock` | vendor token endpoint; tool calls; connections | a rotated refresh token is never presented again; racing calls refresh once; a waiter ends | `GrantRefresh`, `GrantPromise` |
| OAuth client (`adapters/oauth/client.ts`) and catalog | none | authorize url, code exchange, refresh, Meta's trade-up | vendors | the outcome of a token request is read rightly | as outcomes in `GrantRefresh`, `Connections` |
| Connections (`application/connections.ts`, `state-store.ts`, `enablement-store.ts`) | `oauth_states`, `provider_enablements`, `tool_overrides` | `beginConnection`, `completeConnection`, `setApiKey`, `disconnect` | grants; vendor consent | a consent is redeemed once; what is enabled has tokens that cover it; tokens go with their last user and not before | `Connections` |
| Tool call (`application/call-tool.ts`, `idempotency-store.ts`, `file-store.ts`) | `idempotency_keys`, `files` | `callTool` | enablement, grants, manifest executor | an answered write is not repeated; off means off; storage is bounded; a call ends | `ToolCall` |
| Metering (`application/metering.ts`) | `usage_events`, `usage_counters`, `audit_log` | `assertQuota`, `recordCall`, `meteredCall`, `recordAudit` | wraps tool calls and admin changes | events and counters agree; the quota is passed by a bounded amount | `Metering`, `ToolCall`, `Surfaces` |
| Usage report (`application/usage-report.ts`) | none (the biller keeps the cursor) | `usageReport`, `meterWindow` | admin route, external biller | every event is billed exactly once | `Metering` (`meterWindow` only) |
| Manifest executor (`adapters/providers/manifest.ts`) | none | check arguments, build request, follow redirects, read response, map errors, page | vendor APIs | a walk ends and loses nothing; credentials stay with their origin; errors tell the agent what to do | `ManifestExecutor` |
| Provider manifests (`adapters/providers/*.ts`) | none | declare tools | the executor | arguments travel where the vendor reads them; a failure has the right code | `Providers` |
| Registry, boot, fake provider (`registry.ts`, `boot.ts`, `fake.ts`) | the registry, filled at boot | `bootProviders` | catalog | what boots can be called | `Providers`, partly |
| Catalog, search, meta tools (`application/catalog.ts`, `tool-search.ts`, `meta-tools.ts`) | none | list, search, call through | enablement, registry | the cut list is even and truthful; no tool is offered that a call would refuse | `Surfaces` |
| Credential scope (`domain/credential.ts`) | none | `assertScopeAllows`, `scopeAllows…` | surfaces, tool call | list and call agree | `Surfaces`, `ToolCall` |
| Workspaces and credentials (`application/workspaces.ts`, `credentials.ts`, `adapters/db/credential-store.ts`) | `workspaces`, `gateway_credentials` | create, plan, mint, revoke | auth middleware | a change of plan is audited as what it left; a revoked credential stops working | `Surfaces` |
| Rate limiter (`interface/http/rate-limit.ts`) | buckets in memory | one decision per request | surfaces | neither floods nor starves | `Surfaces` |
| Surfaces (`interface/http/*`) | none | authenticate, limit, route, answer | everything | admin changes and their audit trail agree | `Surfaces`, partly |
| Pool, migrations, embedded database (`adapters/db/pool.ts`, `embedded.ts`) | connections; `schema_migrations` | `query`, `connect`, `runMigrations` | every store | each migration applies once; the pool never locks up | `Database` |
| Start, configuration, local mode (`main.ts`, `open-database.ts`, `local-mode.ts`, `local-provision.ts`, …) | `vault.key`, a credential file | first-run provisioning | database | a crash in a first start leaves something the next can use | `Database`, partly |
| Vault (`adapters/crypto/vault.ts`), ports and schema, maintenance scripts | none | seal, open; types; by hand | stores | | not modelled (section 6) |

The behaviours that are hard to test are listed at their lines under "hazards"
in `PROJECT.json`, each with the properties that cover it or the reason why
none does yet.

## 2. The modules

| Module | Models | |
|---|---|---|
| `GrantRefresh` | one grant and the calls that need a token from it | core |
| `GrantPromise` | what refreshing promises: ask the vendor and store its answer, in one step | abstract specification |
| `Connections` | connects, api keys, disconnects and refreshes of one workspace | |
| `ToolCall` | the calls of one workspace to one tool | |
| `Metering` | counting and billing the calls of one workspace | |
| `Providers` | every provider manifest and tool as data, and what a deployment boots | pure data |
| `ManifestExecutor` | one agent and one tool, page after page, or a key check | |
| `Surfaces` | the requests of agents and administrators to one workspace | |
| `Database` | starts of processes, and the connections they share | |
| `MC…` | instances for TLC: symmetry, bounds, the providers of an example | |
| `…Proofs` | theorems and proofs about the module they extend | |

They meet at narrow places. `ToolCall` sees `GrantRefresh` as an outcome (a
token, no connection, or reauthentication); `Connections` sees it as a run that
reads the tokens and saves them later; `GrantRefresh` sees `Connections` as
consents that arrive, are saved, and a drop. `Metering` is the frame around
`ToolCall`. `Surfaces` ends a call at the last gate that reads a switch, where
`ToolCall` takes it on. `MCManifestExecutor` composes `ManifestExecutor` with
the manifests of `Providers`. `Database` knows of a refresh only which
connections it holds and waits for. No state is shared but the rows named above.

### GrantRefresh

A *caller* is one run of `accessTokenFor`, in any replica. Each `await` of the
source ends an action:

| Source | Actions |
|---|---|
| first `load` and what follows (`grants.ts:42-53`) | `ReadGrant`, `MarkNoRefresh` |
| `pg_advisory_xact_lock`, `lock_timeout` | `Acquire`, `LockTimeout` |
| the second `load`, inside the lock (`60-68`) | `ReReadGrant` |
| the token request (`71`) | `AskAnswered`, `AskLost`, `AskRefused`, `AskTransient` |
| `save`, or the catch (`72-76`) | `Save`, `SaveFails`, `Mark` |
| COMMIT, a rejected query, the death of the process | `Commit`, `QueryFails`, `Crash` |
| the others who touch the row or the consent | `Expire`, `ExchangeCode`, `SaveConsent`, `Drop`, `Revoke` |

Tokens are serial numbers that the vendor gives out in order. A token expires
by an action, so `isFresh` is a membership test, and a token without
`expiresAt` is one that never does. The vendor is external: a rotating one
stops honouring a refresh token when it is presented and revokes the grant when
a spent one returns, which is what the comments at `grants.ts:54-59` assume of
it. `lock` is a *set* of holders so that a broken lock is expressible.

`Undisturbed` is the premise of `NoReplay` and `RefreshOnce`: no disconnect, no
death and no failed query so far, and consents that bring refresh tokens.
Without it they are false of the code, and rightly: a replica that dies between
the vendor's answer and `save` leaves a worn-out token, and the next caller
cannot know; a "bare" consent, one without a refresh token, keeps the stored one
(the COALESCE of `save`), which a refresh under way may have worn out. These
events are in the runs, and what they do to the other properties is checked; the
two hazards themselves no property covers. Lost and refused answers, expiries and
other reconnects stay inside the premise.

`GrantPromise` has no callers and no lock. `KeepsPromise` maps a grant whose
refresher has the vendor's answer in hand to the grant as it is about to be
stored, and says that every behaviour is then one of atomic refreshes, up to the
first disconnect, reconnect, death or failed query. From then on `GrantPromise`
allows anything (`disturbed`).

### Connections

A *run* is one execution of a handler. A prefix stands for the scopes of its
tools, so the tokens of a grant are the set of prefixes they were consented
for, and "the tokens cover a provider" is set membership. An OAuth state is
drawn once (`drawn`), stored, consumed by the one DELETE that returns it, and
its code traded. Two history variables state the premises of the two
properties that do not hold unconditionally: `crossed` (a connect overlapped
another run on its grant) for `Usable`, and `strayed` (a run stopped half way,
or a refresh put the row back) for `NoOrphan`.

### ToolCall

The gates of `callTool` in their order, one action per `await`: the two reads of
the switches, the idempotency row, the grant, the vendor against the timer, the
three statements of `files.put`, the two of `idempotency.put`, the record.
`meteredCall` is the frame: `Refuse` is `assertQuota` throwing, `Record` its
`finally`. `done` remembers the keys whose result a client has; `late` the calls
begun after that; `off` the switches that were off when the call began and have
been since. A row does not age by 24 hours while a call that has looked for it
is under way (`ExpireKey`): a call lasts for the timer and a few queries.

### Metering

A record is one transaction: `Insert` (BEGIN fixes `now()`, and with it
`created_at` and the month), `Count` (the upsert, which takes the counter's row
until the end) and `Commit`, or `Rollback`, which also is the death of the
process. The clock has ticks below the millisecond; `Millis` is both
`date_trunc` and what JSON keeps of a timestamp. The biller is external: one
window at a time, an answer may be lost and is asked for again, and `until`
comes back as the next `since`.

### Providers and ManifestExecutor

`Providers` keeps of a manifest what code branches on: the method, whether it
writes, which arguments are in the path, needed or taken, how it pages, how it
fails. `Registry(applications)` is `bootProviders`.

`ManifestExecutor` is one agent with one task, a tool and its arguments or a key
check. `Send` and `RefuseArguments` are the checks, `resolveFileArgument`
(`Resolved`: the id of a stored file becomes bytes and their type) and
`buildRequest`; `Follow`,
`TooManyRedirects` and `RedirectIsAnswer` are `followRedirects`, one hop each;
`Refused`, `Lost` and `KeyTimeout` are `throwIfFailed`, `mapError` and the catch
of `validateKey`; `Deliver`, `TooBig` and `DeliverPage` read the answer. The
agent then continues with the cursor it was given, repeats a call that was rate
limited, or ends.

The vendor is external. A failure is given by what the vendor *means* (limited,
credential dead, scope missing, switched off, unpaid, broken), and `Signals`
says how each manifest's vendor puts it: a status, a marked body with a reason,
headers that say how long to wait. `Code` is then the order of the rules in the
code, and `VerdictRight` compares it with the meaning. A vendor's list grows at
its front between the agent's calls; a cursor vendor may send short pages, or a
cursor with nothing behind it. A vendor does not contradict itself: one that
says there is more sends a cursor.

### Surfaces

A request is one `await` after another: the credential's row (`Authenticate`),
the limiter's decision, the enabled providers (`ReadEnabled`), the disabled tools
and the answer (`AnswerList`, `AnswerSearch`, `Gate`). MCP and REST calls pass the
limiter; the lists and searches of `/v1/tools` do not. A query is the tool that
answers it. An admin request is the change of its row, for a plan the read of it
back (`ReadBack`), the audit row (`Record`) and the answer (`Reply`): steps of
their own, after any of which it may `Stop`, by a rejected query, a death or a
lost connection.

`version` counts changes of switches and credentials. An answer that a change
has crossed is `mixed` and not compared; the others carry the version they were
made under (`begun`), so that two of them can be.

### Database

`local` chooses between replicas that share a PostgreSQL and one process with an
embedded database. A start goes through the key file, `runMigrations` file by
file and `provisionLocal` insert by insert, and can die before any of them.
Two replicas that both look for `schema_migrations`, or both run one file, meet
at PostgreSQL's own locks: the loser's start fails and is made again.

A refresh (`sess`) is followed through the connections it needs: one for the
first read, one held for the lock, one more for each query of its callback. A
waiter that `lock_timeout` fails gives its client back inside a failed
transaction (`grant-store.ts:91`); such connections are counted in `dirty` and
whatever draws them, until pg's idle timeout (`CloseIdle`) ends them.

The embedded pool has one client, behind a chain of promises: `connect` takes the
`tail` as the client `ahead` of it and puts its own promise there (`QueueUp`),
awaits the one ahead (`Resume`), and keeps its promise by its release, which is
the end of its refresh. Its one session may lock again what it has locked, so
nothing but this queue keeps two clients apart. The pool's own queries run at
once, inside whatever transaction that client has open.

## 3. The runs

| Run | Instance | Checks |
|---|---|---|
| `grant_calls` | 2 callers, rotating vendor, 2 expiries, one each of connect (with a refresh token or without), drop, crash, failed query, revocation, lost answer; any 4 of these kinds in one behaviour | `TypeOK`, `NoReplay`, `RefreshOnce`, the inductive `RefreshInv`, `KeepsPromise` (refinement of `GrantPromise`), `CallEnds` |
| `grant_drop` | 2 callers, 1 expiry, 1 disconnect | finds `DropIsFinal` violated |
| `grant_transient` | 2 callers, 1 expiry, 1 failed request | finds `FlagMeansDead` violated |
| `conn_mixed` | 3 runs, 2 providers on one grant and 1 with a key, 2 states, 4 events | `TypeOK`, `TradedOnce`, `NoOrphan`, `Usable` |
| `conn_sibling` | 2 runs, 2 events | finds `SiblingsKeepTokens` violated |
| `toolcall_calls` | 2 callers, 1 key, quota of 1 file | `TypeOK`, `PerformedOnce`, `OffIsOff`, `FilesBounded`, `CallEnds` |
| `metering_window` | 2 callers, quota 1, 3 records, 5 ticks, 2 ticks to the millisecond, 4 to the month | `TypeOK`, `CounterExact`, `OvershootBounded`, `ChargedOnce`, `MissedOnlyLate`, `CursorForward` |
| `metering_missed` | 1 caller, 1 record, 3 ticks | finds `EveryEventCharged` violated |
| `executor_walks` | all tools of the 12 vendor manifests and their key checks, pages of 2, lists of up to 4, 1 slow-down | `TypeOK`, `SecretStaysHome`, `WritesOnce`, `VerdictRight`, `WalkExact`, `WalkEnds` |
| `surfaces_lists` | 2 requests and 2 admin requests, of which 4 begin, an admin request counted as two; 1 credential, 2 providers with 3 tools, a list budget of 2, 2 plans, 1 call a minute, 4 ticks of half a minute | `TypeOK`, `ListsAgree`, `EvenSample`, `RateKept`, `AuditTrue`, `PlanTold` |
| `surfaces_search` | 2 requests, 1 admin request | finds `SearchIsCallable` violated |
| `database_boot` | 2 replicas, 2 migrations, 3 refreshes of 2 grants, pool of 3, 1 crash | `TypeOK`, `MigratedOnce`, `LocalUsable`, `OneClient`, `BootEnds`, `RefreshEnds` |

Why the bounds are enough to be interesting:

- *Grants.* The replay needs two callers and one expiry. Two expiries let a
  refreshed token expire again behind a waiter. Each kind of event happens once
  at any moment (`Bound` counts events by kind; a request is "lost" whether it
  failed before the vendor acted or after), and four kinds of them meet in one
  behaviour (`Mixed`): an expiry and a lost answer beside a reconnect and a
  death, say.
- *Connections.* Two providers share a grant, so siblings matter; the third has
  a grant of its own and an api key. Four events, in any mix of callbacks, keys,
  disconnects, refreshes and failures, are a connect with a replayed callback
  and two disconnects, or two connects crossing a disconnect and a refresh.
  Beginning a consent and its expiry are free: the two states bound them.
- *ToolCall* has no event bound. Its state is finite by itself; callers start
  again when they end, so sequences of calls of any length are covered.
- *Metering.* Five ticks are three milliseconds and a month's end inside a
  millisecond-aligned tick; three records let two race and a third follow.
  `MaxTime` and `MaxCalls` only cut behaviours off.

- *ManifestExecutor.* The manifests are the repository's own, so nothing is an
  instance there. Two items to a page and four in a list are an empty list, a
  full last page, a short one, and one that became full under the walk. Chains
  of redirects have every length the code allows, with any mix of origins.
- *Surfaces.* Two answers are compared, and one change must be able to fall
  between them; two changes of plan, or two revocations, must be able to cross.
  Four begun is either. The budget of 2 is below the 3 tools,
  and a provider with two tools and a write stands against one with a single
  read. Two ticks to the minute make the refill's rounding visible.
- *Database.* Two replicas race for a file while the second is still missing;
  one crash can fall anywhere. Two refreshes wait for one lock while a third
  takes connections for another grant; the pool is one larger than the grants.
  Three refreshes are also the shortest queue in which one is behind another
  that waits.

`CHECK_DEADLOCK FALSE` is set where a model ends: in the two runs of
`Connections`, once the event bound is used up and both states are spent; in
`executor_walks`, whose walk ends; in the two runs of `Surfaces` and in
`database_boot`, once their requests and refreshes are done.

Runs and OAuth states (`Connections`), callers (`Metering`), requests and
administrators (`Surfaces`) are interchangeable and used as symmetry sets. Runs
with a liveness property, or a refinement, use no symmetry.

**Fairness.** `GrantRefresh` assumes weak fairness of a caller's own steps:
PostgreSQL answers or fails a query, refuses the lock after `LOCK_TIMEOUT` (5 s,
`grant-store.ts`), and a token request ends when the connection or the HTTP
client gives up. `ToolCall` assumes it of the gateway's own steps, the timer of
`withTimeout` among them, and *not* of the vendor: `Answer` never has to happen.
`ManifestExecutor` assumes that its next step is taken: a fetch answers,
rejects, or is ended by the caller's signal (and the key check by its own
timer); no single outcome is fair, so that a vendor may redirect for as long as
the code lets it. `Database` assumes that a process which is down is started
again and runs on, that queries are answered and that vendors answer or time
out. Nothing else is fair: no human, no clock, no failure has to act.

**Mutants.** Each property of a passing run has a variant of one definition
(marked `Mutant` in the modules) that a plausible slip in the code would be,
with which the property fails: a lock per process, a re-read that is skipped,
scopes of the one prefix, a row that is read and deleted later, a counter
without its row lock, a window that ends at the microsecond, headers rebuilt at
every redirect, no cursor taken for page 0, a list narrowed by provider only, a
limiter that dates its bucket at every request, a plan read back before it is
written, a migration outside the transaction that records it, a caller that joins
the queue only when it finds it free. They are not part of any specification.

## 4. What the counterexamples say

Five runs find a statement of the repository untrue of its code. The traces are
short and each is a legal schedule of `await`s.

1. `DropIsFinal`: a disconnect deletes the grant while a refresh waits for the
   vendor; `save` is an upsert and inserts it again (`grants.ts:72`).
   README.md:379 says that the tokens are dropped.
2. `FlagMeansDead`: the `catch` at `grants.ts:74` treats every error as a
   rejection, so a refresh that a restarted vendor could serve a second later
   asks for a human. A test is named for the opposite (`test/grants.test.ts:124`)
   and passes because its fake does not store the flag.
3. `SiblingsKeepTokens`: a disconnect votes before a sibling's connect has
   enabled it and drops after (`connections.ts:165-171`).
4. `EveryEventCharged`: an event is stamped at BEGIN and seen at COMMIT; a
   window that closes in between never counts it (`usage-report.ts:85-86`).
   `MissedOnlyLate` shows that this is the only way to miss one.
5. `SearchIsCallable`: the MCP search tool shows a read-only credential the
   writes of its providers (`meta-tools.ts:67` filters by provider), which a call
   then refuses. README.md:354-356 says that a tool it can see is a tool it can
   call. `ListsAgree` is the same claim for the lists and the search of
   `/v1/tools`, of which it is true.

Other things the modelling showed, which no run of its own restates:

- `internal_error` (`errors.ts:73`) is returned for what is not a gateway error,
  and is not in the "full set" of README.md:225-228.
- `RefreshEnds` needs a pool larger than the number of grants refreshed at once.
  With `POOL_MAX = 2` and two grants TLC finds both lock holders waiting for a
  second connection for ever: `createPool` sets no connection timeout, and
  `lock_timeout` bounds only the wait for the lock. `DATABASE_POOL_MAX=1` is
  a legal configuration and hangs on its first refresh.
- A waiter that `lock_timeout` fails hands back a client that is inside an
  aborted transaction (`grant-store.ts:91`, no ROLLBACK): the queries and the
  BEGIN that draw it fail, until pg closes it for having been idle.
- A first start that dies while it writes `vault.key` leaves an empty one, and
  no later start gets past the configuration (`local-mode.ts:24`). One that dies
  between the workspace and its enablement leaves the fake provider off for ever;
  one that dies while it writes the credential file makes every later start
  announce nothing.
- The plan that `plan.changed` audits is read back by a query of its own, so of
  two changes at once both may be audited as the second, and the last row by id
  need not be the plan in force; `PlanTold` is what remains true. A change whose
  request stops before its audit row stands unaudited, and one that stops after
  it is audited and answered to nobody: a mint then leaves a live credential
  whose token nobody has.
- `grant-store.ts:68-70` says of the refresh lock's transaction that the callback
  writes on a connection of its own, "so nothing here is rolled back". In the
  embedded database there is one connection, and a query of the callback, or of
  anyone, runs inside whatever transaction a client has open.

## 5. What is proved

Every safety property that a passing run checks is a theorem, for every value of
the constants under the assumptions named in the modules, which TLC evaluates in
every run.

| Theorem | Says | Rests on |
|---|---|---|
| `GrantRefreshProofs!TypeCorrect` | `[]TypeOK` | |
| `GrantRefreshProofs!RefreshInvariant` | `[]RefreshInv` | inductive with `TypeOK` |
| `GrantRefreshProofs!NeverReplays`, `RefreshesOnce` | `[]NoReplay`, `[]RefreshOnce` | `RefreshInv` |
| `GrantPromiseProofs!RefreshKeepsPromise` | `Spec => KeepsPromise`, the refinement up to the first disturbance | `RefreshInv`, `AskInv` |
| `ConnectionsProofs!TypeCorrect` | `[]TypeOK` | |
| `ConnectionsProofs!TradesOnce` | `[]TradedOnce` | `TradeInv` |
| `ConnectionsProofs!LeavesNoOrphan` | `[]NoOrphan` | inductive with `TypeOK` |
| `ConnectionsProofs!KeepsUsable` | `[]Usable` | `UseInv` |
| `ToolCallProofs!TypeCorrect` | `[]TypeOK` | |
| `ToolCallProofs!PerformsOnce` | `[]PerformedOnce` | `PerformedInv` |
| `ToolCallProofs!OffStaysOff` | `[]OffIsOff` | `OffInv` |
| `ToolCallProofs!BoundsFiles` | `[]FilesBounded` | `FilesInv` |
| `MeteringProofs!TypeCorrect` | `[]TypeOK` | inductive with `WindowsFit` |
| `MeteringProofs!CursorAdvances` | `CursorForward` | `WindowsFit` |
| `MeteringProofs!CountsExactly` | `[]CounterExact` | `CountInv` |
| `MeteringProofs!BoundsOvershoot` | `[]OvershootBounded` | `CountInv`, `QuotaInv` |
| `MeteringProofs!ChargesOnce`, `MissesOnlyLate` | `[]ChargedOnce`, `[]MissedOnlyLate` | `BillInv` |
| `ManifestExecutorProofs!TypeCorrect` | `[]TypeOK` | `TypeInv` |
| `ManifestExecutorProofs!KeepsSecret` | `[]SecretStaysHome`, for any manifests | `WireInv` |
| `ManifestExecutorProofs!WritesAtMostOnce` | `[]WritesOnce`, for any manifests | `WriteInv` |
| `ManifestExecutorProofs!JudgesRightly` | `[]VerdictRight` | `TypeInv` |
| `ManifestExecutorProofs!WalksExactly` | `[]WalkExact` | `RequestInv`, `WalkInv` |
| `SurfacesProofs!TypeCorrect` | `[]TypeOK` | `TypeInv` |
| `SurfacesProofs!AuditsTruly` | `[]AuditTrue` | `AuditInv` |
| `SurfacesProofs!TellsPlan` | `[]PlanTold` | `AuditInv`, `PlanInv` |
| `SurfacesProofs!KeepsRate` | `[]RateKept` | `TypeInv` |
| `SurfacesProofs!ListsAreTrue` | `[]ListsAgree` | `ListInv` |
| `SurfacesProofs!SamplesEvenly` | `[]EvenSample` | `ListInv` |
| `DatabaseProofs!TypeCorrect` | `[]TypeOK` | `Typed`, `InRange`, `PoolKept` |
| `DatabaseProofs!EachMigrationOnce` | `[]MigratedOnce` | `Migrating` |
| `DatabaseProofs!CredentialUsable` | `[]LocalUsable` | `Provisioned` |
| `DatabaseProofs!OneClientOut` | `[]OneClient` | `Queued` |

`NoOrphan`, `RateKept` and `VerdictRight` are inductive once types
are known; the others are not. The arguments:

- `RefreshInv`. That the token in a caller's hand is not worn out when it asks
  depends on the row it re-read. So `LockInv` puts one call at a time inside
  the lock; `WornInv` says that the stored token is worn out only while that
  call is still inside, about to replace or flag it; `ConsentInv` says that a
  reconnect's tokens are new to everyone; `SerialInv` gives fresh serials. A
  re-read then finds either a good token or a flag.
- `TradeInv`. A state is in exactly one place: not drawn, in the hands of the
  run that stores it, in the table, in the hands of the run that consumed it,
  or traded.
- `UseInv`. On a grant that no connect has crossed, at most one connect or
  consent is on its way, and everything in flight covers what is enabled.
- `PerformedInv`. A key a client can replay by has a live row, and a call that
  knows the key cannot get past the lookup.
- `FilesInv`. Files plus the calls between measure and insert stay under the
  bound: whoever passes the measure finds the quota open, and at most all
  others stand beside it.
- `CountInv`. Counter and events agree because an open upsert is one more than
  what is committed (`UpsertFits`), which the row's lock keeps true, and because
  ids are drawn once (`Numbered`), so that a commit adds one event.
- `QuotaInv`. Counter plus the calls that may still count in the month stay under
  the bound (`Within`): who passes the check finds the counter below the quota,
  and at most all others are pending beside it. A month that has not begun counts
  nothing; when it begins every caller may be pending and the counter is 0.
- `BillInv`. What has been charged lies behind the cursor (`Charged`) and an open
  window ahead of it (`WindowsFit`), so the two are disjoint; and the window has
  every event between the cursor and its end that was there (`Complete`).
- `TypeInv` of `ManifestExecutor` adds that the task is one the manifests offer.
  `SignalsAre` says what each meaning of a vendor looks like and `Codings` what
  `Code` makes of each look; `VerdictRight` is the two together.
- `RequestInv`, `WalkInv`. A request on its way is what `BuildRequest` makes of the
  task, so the vendor hears the agent's cursor. A cursor stands for the newest
  item it asks for (`From`): the agent has all that lies above, and nothing below
  (`Walked`). `NextIs` says that the next cursor goes on just below the page, for
  every style of paging, and `LastIs` that a page without one is the last.
- `AuditInv`, `PlanInv`. A row is of a request that got past `Record`, and every
  request that did has one; of two that revoke one credential the second finds it
  revoked and changes nothing. Of the requests that have changed the plan one has
  read back the plan in force, has not read yet, or has failed: the last writer
  is such a one, and what it reads is its own plan or that of a later writer.
- `RateKept`, by the arithmetic of division: a refill that earns nothing does not
  move the bucket's clock, and one that earns something drops less than it earns.
- `ListInv`. A request that no change has crossed has read the switches as they
  are (`Fresh`), and for each version one setting of the switches explains all
  the answers begun at it (`SeenAt`), the current one if the version is. Two
  comparable answers are therefore two functions of one setting.
- `EvenCut`, on which `SamplesEvenly` rests: a tool's turn is its number among
  those of its provider that are on; a cut that takes a turn has taken all before.

- `WireInv`, `WriteInv`. A request that carries the credential is at home and
  has never been elsewhere. Nothing has been written before an answer, and an
  answer after a write has no next page and asks for no repetition.
- `Migrating`. What is recorded has taken effect once and is a prefix of the
  files (`Recorded`); two replicas are never past the start of the same file
  (`OwnFile`); no replica is ahead of what is recorded (`Behind`).
- `Provisioned`. A local instance has one process (`OneProcess`); each stage of
  its first start has left just what the next stage relies on (`StageFits`), and
  the credential file, when it is written, holds what was announced (`FileFits`).
- `Queued`. The clients of an embedded pool that wait or are out have ranks, no
  two the same; each waits for the one before it, the last is the tail, and only
  the first can find its predecessor released, so only the first is out.
  `PoolKept`, in the type invariant, counts connections by cardinality, which
  takes finitely many refreshes (`SessionAssumption`).

Some assumptions on the constants carry content:

- `ToolAssumption`, `ErrorAssumption` (`ManifestExecutor`) are what the proofs
  need of the manifests, where the runs have the repository's own: a list pages
  in one of the three styles, one whose vendor says outright whether there is
  more has no choice of fields, a 403 with a code of its own is the vendor's
  failure, and a vendor whose keys are checked does not put a request to
  reconnect into a body that succeeds. `executor_walks` evaluates them on the
  twelve manifests; a manifest that breaks one has to be looked at.
- `CallerAssumption` (`Metering`): some caller exists; with none the bound would
  lie below the quota, and the counter 0 above it for a quota of 0.
- `RegistryAssumption`, `ScopeAssumption`, `RateAssumption` (`Surfaces`): a registry
  is a list of providers with lists of tools; some scope exists; a limit of no
  calls a minute is not one.

Only model-checked: liveness (`CallEnds` twice, `WalkEnds`, `BootEnds`,
`RefreshEnds`). Liveness under fairness and ENABLED are out of the prover's
reach, and so is what a recursive definition computes for every input; no
module here declares a RECURSIVE operator.

## 6. What is not modelled, and the plan

Not modelled: encryption of tokens (`vault.ts`), PKCE and the authorize url,
the urls and projected fields of manifests, types and enums of arguments,
escaping, the scores of the search, formatting of errors and reports, logging,
the values of the configuration, health checks and shutdown, ports and schema,
the maintenance scripts. They are data or wording to every property above, or
nothing runs beside them. Also left out:

- In `Metering`: a change of plan, which moves the quota under the bound of
  `OvershootBounded`. `usageReport`: four reads for display, on four connections;
  their numbers may disagree and nothing claims that they agree.
- In `ToolCall`: other tools and arguments under the same idempotency key. The
  code binds a key to neither (`call-tool.ts:67`).
- In `Connections`: the rows of consents that nobody answers. An expired row is
  deleted only when it is asked for.
- In `ManifestExecutor`: vendors that contradict themselves (there is more, but
  no cursor), and lists whose tools do not page.
- In `Surfaces`: the service token, creation of workspaces, listings of the
  admin plane and of connections (`GET /v1/connections` lists every provider,
  whatever the credential's scope).

Planned, in this order:

1. Reconnects that race a refresh: a property for the extent of the damage, and
   a premise for `NoReplay` weaker than `Undisturbed`.
2. `KeepsPromise` past a reconnect or a disconnect, as steps of the promise.
3. Keys of `ToolCall` that are used with a second tool or other arguments.
