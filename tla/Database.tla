------------------------------ MODULE Database ------------------------------
(***************************************************************************)
(* The database as the gateway opens and shares it: the start of a         *)
(* process (main.ts, open-database.ts, local-mode.ts, runMigrations of     *)
(* db/pool.ts, local-provision.ts), and the connections of its pool under  *)
(* the refresh lock (createPool, db/embedded.ts, withRefreshLock of        *)
(* db/grant-store.ts).                                                     *)
(*                                                                         *)
(* Replicas share one Postgres, or one local process has an embedded one.  *)
(* A query is an action; a process can die before any of them.  What a     *)
(* refresh does to its grant is module GrantRefresh: here it is the        *)
(* connections it holds and waits for.                                     *)
(***************************************************************************)
EXTENDS Naturals, FiniteSets

CONSTANTS
  Replicas,
  Migrations,   \* how many numbered files there are
  Sessions,     \* refreshes
  Grants,
  GrantOf,      \* the grant each refreshes
  POOL_MAX,     \* connections of one process
  MaxCrashes

ASSUME PoolAssumption == POOL_MAX \in Nat \ {0}
ASSUME MigrationAssumption == Migrations \in Nat
ASSUME GrantAssumption == GrantOf \in [Sessions -> Grants]
ASSUME SessionAssumption == IsFiniteSet(Sessions)
ASSUME CrashAssumption == MaxCrashes \in Nat

VARIABLES
  local,      \* no DATABASE_URL: one process, embedded database
  boot,       \* by replica: how far its start is, and at which migration
  table,      \* is there a schema_migrations?
  applied,    \* its rows
  effect,     \* how often each migration has taken effect
  keyFile,    \* vault.key of a local instance
  credFile,   \* its credential file, and the token in it
  db,         \* its rows: workspace, fake enabled, tokens known
  minted,     \* tokens minted so far
  told,       \* history: tokens a start has announced
  sess,       \* by refresh: where it stands, and in which replica
  dirty,      \* by replica: idle connections left inside a failed transaction
  tail,       \* by replica: the embedded pool's tail, as the client that ends it
  ahead,      \* by refresh: the client it awaits
  crashes

schema == <<table, applied, effect>>
disk == <<keyFile, credFile, db, minted, told>>
queue == <<tail, ahead>>
vars == <<local, boot, schema, disk, sess, dirty, queue, crashes>>

Absent == [state |-> "absent", token |-> 0]
BootStages == {"off", "key", "write_key", "table", "creating", "check", "run", "ran",
               "provision", "enable", "mint", "open_file", "write_file", "ready"}
Ended == {"idle", "done", "failed"}
Holding == {"lock", "locked", "vendor", "save", "mark", "commit"}
SessionStages == Ended \cup {"load", "connect", "await"} \cup Holding

\* Clients of the replica's pool that are out.
Out(r) == {s \in Sessions : sess[s].at \in Holding /\ sess[s].in = r}

\* A process has no more connections than its pool may open.
PoolKept == \A r \in Replicas : ~local => dirty[r] + Cardinality(Out(r)) <= POOL_MAX

TypeOK ==
  /\ local \in BOOLEAN /\ table \in BOOLEAN
  /\ boot \in [Replicas -> [at : BootStages, file : Nat]]
  /\ applied \subseteq 1 .. Migrations
  /\ effect \in [1 .. Migrations -> Nat]
  /\ keyFile \in {"absent", "empty", "written"}
  /\ credFile \in [state : {"absent", "empty", "written"}, token : Nat]
  /\ db \in [workspace : BOOLEAN, fake : BOOLEAN, tokens : SUBSET (1 .. minted)]
  /\ told \subseteq 1 .. minted
  /\ sess \in [Sessions -> [at : SessionStages, in : Replicas]]
  /\ dirty \in [Replicas -> Nat]
  /\ tail \in [Replicas -> SUBSET Sessions] /\ ahead \in [Sessions -> SUBSET Sessions]
  /\ PoolKept
  /\ crashes \in 0 .. MaxCrashes

Init ==
  /\ local \in BOOLEAN
  /\ boot = [r \in Replicas |-> [at |-> "off", file |-> 0]]
  /\ table = FALSE /\ applied = {} /\ effect = [f \in 1 .. Migrations |-> 0]
  /\ keyFile = "absent" /\ credFile = Absent
  /\ db = [workspace |-> FALSE, fake |-> FALSE, tokens |-> {}]
  /\ minted = 0 /\ told = {}
  /\ sess \in [Sessions -> [at : {"idle"}, in : Replicas]]
  /\ dirty = [r \in Replicas |-> 0]
  /\ tail = [r \in Replicas |-> {}] /\ ahead = [s \in Sessions |-> {}]
  /\ crashes = 0

-----------------------------------------------------------------------------
(* A start *)

Goto(r, stage) == boot' = [boot EXCEPT ![r].at = stage]
AtStage(r, stage) == boot[r].at = stage
Serving == <<sess, dirty, queue>>

\* A local instance has one process: its database admits no second.
Start(r) ==
  /\ AtStage(r, "off")
  /\ local => \A q \in Replicas : AtStage(q, "off")
  /\ Goto(r, IF local THEN "key" ELSE "table")
  /\ UNCHANGED <<local, schema, disk, Serving, crashes>>

\* localMode makes a key file once.  What a crash leaves of it is not a key,
\* and loadConfig throws.
ReadKey(r) ==
  /\ AtStage(r, "key")
  /\ \/ keyFile = "absent" /\ keyFile' = "empty" /\ Goto(r, "write_key")
     \/ keyFile = "empty" /\ Goto(r, "off") /\ UNCHANGED keyFile
     \/ keyFile = "written" /\ Goto(r, "table") /\ UNCHANGED keyFile
  /\ UNCHANGED <<local, schema, credFile, db, minted, told, Serving, crashes>>

WriteKey(r) ==
  /\ AtStage(r, "write_key")
  /\ keyFile' = "written"
  /\ Goto(r, "table")
  /\ UNCHANGED <<local, schema, credFile, db, minted, told, Serving, crashes>>

-----------------------------------------------------------------------------
(* runMigrations *)

\* CREATE TABLE IF NOT EXISTS looks first and creates then: a second replica
\* that has looked as well is refused, and its start fails.
LookForTable(r) ==
  /\ AtStage(r, "table")
  /\ boot' = [boot EXCEPT ![r] = IF table THEN [at |-> "check", file |-> 1]
                                          ELSE [@ EXCEPT !.at = "creating"]]
  /\ UNCHANGED <<local, schema, disk, Serving, crashes>>

CreateTable(r) ==
  /\ AtStage(r, "creating")
  /\ boot' = [boot EXCEPT ![r] = IF table THEN [@ EXCEPT !.at = "off"]
                                          ELSE [at |-> "check", file |-> 1]]
  /\ table' = TRUE
  /\ UNCHANGED <<local, applied, effect, disk, Serving, crashes>>

\* Mutant: a select counts no rows, as PGlite's affectedRows would have it.
CheckNothing(r) ==
  /\ AtStage(r, "check")
  /\ LET f == boot[r].file
     IN  \/ f <= Migrations /\ Goto(r, "run")
         \/ f > Migrations /\ Goto(r, IF local THEN "provision" ELSE "ready")
  /\ UNCHANGED <<local, schema, disk, Serving, crashes>>

\* Is the next file applied?  After the last one the process goes on.
Check(r) ==
  /\ AtStage(r, "check")
  /\ LET f == boot[r].file
     IN  \/ f \in applied /\ boot' = [boot EXCEPT ![r].file = @ + 1]
         \/ f <= Migrations /\ f \notin applied /\ Goto(r, "run")
         \/ f > Migrations /\ Goto(r, IF local THEN "provision" ELSE "ready")
  /\ UNCHANGED <<local, schema, disk, Serving, crashes>>

\* Mutant: the file runs outside the transaction that records it.
RunUnwrapped(r) ==
  /\ AtStage(r, "run")
  /\ effect' = [effect EXCEPT ![boot[r].file] = @ + 1]
  /\ Goto(r, "ran")
  /\ UNCHANGED <<local, table, applied, disk, Serving, crashes>>

\* BEGIN, and the file.  Postgres makes it wait for another's uncommitted run
\* of it, and refuses it once that is committed: ROLLBACK, and the start fails.
Run(r) ==
  /\ AtStage(r, "run")
  /\ \A q \in Replicas : ~(AtStage(q, "ran") /\ boot[q].file = boot[r].file)
  /\ Goto(r, IF boot[r].file \in applied THEN "off" ELSE "ran")
  /\ UNCHANGED <<local, schema, disk, Serving, crashes>>

\* The row, and COMMIT of both.
Commit(r) ==
  /\ AtStage(r, "ran")
  /\ LET f == boot[r].file
     IN  /\ applied' = applied \cup {f}
         /\ effect' = [effect EXCEPT ![f] = @ + 1]
         /\ boot' = [boot EXCEPT ![r] = [at |-> "check", file |-> f + 1]]
  /\ UNCHANGED <<local, table, disk, Serving, crashes>>

-----------------------------------------------------------------------------
(* provisionLocal *)

\* Mutant: every start mints a credential.
FindNothing(r) ==
  /\ AtStage(r, "provision")
  /\ db' = [db EXCEPT !.workspace = TRUE]
  /\ Goto(r, IF db.workspace THEN "mint" ELSE "enable")
  /\ UNCHANGED <<local, schema, keyFile, credFile, minted, told, Serving, crashes>>

\* The workspace of an earlier start, with the file it left, if it left one; a
\* start that finds the file empty announces nothing.
FindWorkspace(r) ==
  /\ AtStage(r, "provision")
  /\ \/ /\ db.workspace /\ credFile # Absent
        /\ told' = told \cup ({credFile.token} \ {0})
        /\ Goto(r, "ready")
        /\ UNCHANGED db
     \/ /\ db.workspace /\ credFile = Absent
        /\ Goto(r, "mint")
        /\ UNCHANGED <<told, db>>
     \/ /\ ~db.workspace
        /\ db' = [db EXCEPT !.workspace = TRUE]
        /\ Goto(r, "enable")
        /\ UNCHANGED told
  /\ UNCHANGED <<local, schema, keyFile, credFile, minted, Serving, crashes>>

EnableFake(r) ==
  /\ AtStage(r, "enable")
  /\ db' = [db EXCEPT !.fake = TRUE]
  /\ Goto(r, "mint")
  /\ UNCHANGED <<local, schema, keyFile, credFile, minted, told, Serving, crashes>>

\* mintInto: the row first, then the file.
Mint(r) ==
  /\ AtStage(r, "mint")
  /\ minted' = minted + 1
  /\ db' = [db EXCEPT !.tokens = @ \cup {minted + 1}]
  /\ Goto(r, "open_file")
  /\ UNCHANGED <<local, schema, keyFile, credFile, told, Serving, crashes>>

OpenFile(r) ==
  /\ AtStage(r, "open_file")
  /\ credFile' = [state |-> "empty", token |-> 0]
  /\ Goto(r, "write_file")
  /\ UNCHANGED <<local, schema, keyFile, db, minted, told, Serving, crashes>>

WriteFile(r) ==
  /\ AtStage(r, "write_file")
  /\ credFile' = [state |-> "written", token |-> minted]
  /\ told' = told \cup {minted}
  /\ Goto(r, "ready")
  /\ UNCHANGED <<local, schema, keyFile, db, minted, Serving, crashes>>

-----------------------------------------------------------------------------
(* A refresh and the pool *)

Starting == <<local, boot, schema, disk, crashes>>
Move(s, stage) == sess' = [sess EXCEPT ![s].at = stage]

\* A connection is to be had: pg's pool opens POOL_MAX of them, and some of the
\* idle ones may be dirty.
Clean(r) == dirty[r] + Cardinality(Out(r)) < POOL_MAX
Dirty(r) == dirty[r] > 0

\* A query of the pool's own goes through any idle connection and fails in a
\* dirty one.  The embedded pool runs it at once, inside what transaction ever.
Query(s, good, bad) ==
  LET r == sess[s].in
  IN  /\ \/ (local \/ Clean(r)) /\ Move(s, good)
         \/ ~local /\ Dirty(r) /\ Move(s, bad)
      /\ UNCHANGED <<dirty, queue, Starting>>

\* accessTokenFor has begun and finds a token to refresh.
Need(s) ==
  /\ sess[s].at = "idle"
  /\ AtStage(sess[s].in, "ready")
  /\ Move(s, "load")
  /\ UNCHANGED <<dirty, queue, Starting>>

Load(s) == sess[s].at = "load" /\ Query(s, "connect", "failed")

\* Is this client's promise kept?  A client keeps it by its release.
Released(s) == sess[s].at \in Ended

\* Mutant: a caller joins the queue only when it finds no client out.
QueueUpIfFree(s) ==
  LET r == sess[s].in
  IN  /\ sess[s].at = "connect"
      /\ local
      /\ ahead' = [ahead EXCEPT ![s] = tail[r]]
      /\ tail' = IF \A q \in tail[r] : Released(q) THEN [tail EXCEPT ![r] = {s}] ELSE tail
      /\ Move(s, "await")
      /\ UNCHANGED <<dirty, Starting>>

\* connect of the embedded pool, up to its await: it takes the tail for the
\* client ahead, and its own promise becomes the tail.
QueueUp(s) ==
  LET r == sess[s].in
  IN  /\ sess[s].at = "connect"
      /\ local
      /\ ahead' = [ahead EXCEPT ![s] = tail[r]]
      /\ tail' = [tail EXCEPT ![r] = {s}]
      /\ Move(s, "await")
      /\ UNCHANGED <<dirty, Starting>>

\* The client ahead is released: BEGIN and SET.
Resume(s) ==
  /\ sess[s].at = "await"
  /\ local
  /\ \A q \in ahead[s] : Released(q)
  /\ ahead' = [ahead EXCEPT ![s] = {}]
  /\ Move(s, "lock")
  /\ UNCHANGED <<dirty, tail, Starting>>

\* connect of createPool's, BEGIN and SET; BEGIN in a dirty connection throws and
\* gives it back as it is.
Connect(s) ==
  LET r == sess[s].in
  IN  /\ sess[s].at = "connect"
      /\ ~local
      /\ \/ Clean(r) /\ Move(s, "lock")
         \/ Dirty(r) /\ Move(s, "failed")
      /\ UNCHANGED <<dirty, queue, Starting>>

\* Holders of the advisory lock of a grant, in any replica.
Holders(g) == {s \in Sessions : GrantOf[s] = g /\ sess[s].at \in Holding \ {"lock"}}

\* The embedded database is one session, which its own locks do not keep out.
Lock(s) ==
  /\ sess[s].at = "lock"
  /\ local \/ Holders(GrantOf[s]) = {}
  /\ Move(s, "locked")
  /\ UNCHANGED <<dirty, queue, Starting>>

\* Mutants: a waiter waits for good; it gives its connection back twice.
LockWaits(s) == FALSE /\ UNCHANGED vars
LockTimeoutTwice(s) ==
  /\ sess[s].at = "lock"
  /\ ~local /\ Holders(GrantOf[s]) # {}
  /\ Move(s, "failed")
  /\ dirty' = [dirty EXCEPT ![sess[s].in] = @ + 2]
  /\ UNCHANGED <<queue, Starting>>

\* lock_timeout fails the waiter's transaction; its client is released without
\* a ROLLBACK.
LockTimeout(s) ==
  /\ sess[s].at = "lock"
  /\ ~local /\ Holders(GrantOf[s]) # {}
  /\ Move(s, "failed")
  /\ dirty' = [dirty EXCEPT ![sess[s].in] = @ + 1]
  /\ UNCHANGED <<queue, Starting>>

\* The callback reads the grant again, through the pool: it asks the vendor,
\* flags the grant, or is done with it.
ReRead(s) ==
  /\ sess[s].at = "locked"
  /\ \E stage \in {"vendor", "mark", "commit"} : Query(s, stage, "commit")

\* Well or not.
VendorAnswers(s) ==
  /\ sess[s].at = "vendor"
  /\ \E stage \in {"save", "mark"} : Move(s, stage)
  /\ UNCHANGED <<dirty, queue, Starting>>

\* grants.save, whose failure the catch takes for the vendor's.
Save(s) == sess[s].at = "save" /\ Query(s, "commit", "mark")
MarkReauth(s) == sess[s].at = "mark" /\ Query(s, "commit", "commit")

\* COMMIT frees the lock, and the client goes back.
CommitLock(s) ==
  /\ sess[s].at = "commit"
  /\ Move(s, "done")
  /\ UNCHANGED <<dirty, queue, Starting>>

\* pg closes a connection that nobody has drawn for its idle timeout.
CloseIdle(r) ==
  /\ Dirty(r)
  /\ dirty' = [dirty EXCEPT ![r] = @ - 1]
  /\ UNCHANGED <<sess, queue, Starting>>

\* A process dies, or a query of its start rejects: what it had uncommitted is
\* rolled back, its connections close, its refreshes are gone.
Crash(r) ==
  /\ ~AtStage(r, "off")
  /\ crashes < MaxCrashes
  /\ crashes' = crashes + 1
  /\ Goto(r, "off")
  /\ sess' = [s \in Sessions |->
                IF sess[s].in = r /\ sess[s].at \notin Ended
                THEN [sess[s] EXCEPT !.at = "failed"] ELSE sess[s]]
  /\ dirty' = [dirty EXCEPT ![r] = 0]
  /\ tail' = [tail EXCEPT ![r] = {}]
  /\ ahead' = [s \in Sessions |-> IF sess[s].in = r THEN {} ELSE ahead[s]]
  /\ UNCHANGED <<local, schema, disk>>

Begin(r) ==
  \/ Start(r) \/ ReadKey(r) \/ WriteKey(r)
  \/ LookForTable(r) \/ CreateTable(r) \/ Check(r) \/ Run(r) \/ Commit(r)
  \/ FindWorkspace(r) \/ EnableFake(r) \/ Mint(r) \/ OpenFile(r) \/ WriteFile(r)

Refresh(s) ==
  \/ Load(s) \/ Connect(s) \/ QueueUp(s) \/ Resume(s) \/ Lock(s) \/ LockTimeout(s) \/ ReRead(s)
  \/ VendorAnswers(s) \/ Save(s) \/ MarkReauth(s) \/ CommitLock(s)

Next ==
  \/ \E r \in Replicas : Begin(r) \/ CloseIdle(r) \/ Crash(r)
  \/ \E s \in Sessions : Need(s) \/ Refresh(s)

Spec == Init /\ [][Next]_vars

\* A process that is down is started again and runs; queries are answered and
\* vendors answer or time out.
FairSpec ==
  /\ Spec
  /\ \A r \in Replicas : WF_vars(Begin(r))
  /\ \A s \in Sessions : WF_vars(Refresh(s))

-----------------------------------------------------------------------------
(* Properties *)

\* db/pool.ts: whichever replicas race or die, a migration takes effect once,
\* when it is recorded, in the order of the files, and no process serves before
\* all have.
MigratedOnce ==
  /\ \A f \in 1 .. Migrations : effect[f] = IF f \in applied THEN 1 ELSE 0
  /\ \A f \in applied : 1 .. f \subseteq applied
  /\ \A r \in Replicas : AtStage(r, "ready") => applied = 1 .. Migrations

\* local-provision.ts: a token that a start announces is a credential of the
\* database, every later start announces the same, and a start that announces
\* none has found the file cut short.
LocalUsable ==
  /\ told \subseteq db.tokens
  /\ Cardinality(told) <= 1
  /\ local /\ (\E r \in Replicas : AtStage(r, "ready")) =>
       told = {credFile.token} \/ (credFile.state = "empty" /\ told = {})

\* embedded.ts: however many ask while others wait or are released, one client at
\* a time is out of the embedded pool, so that no COMMIT is of somebody else's
\* half-done work.
OneClient == local => \A r \in Replicas : Cardinality(Out(r)) <= 1

\* open-database.ts, local-mode.ts: every replica gets to serve in the end,
\* whatever its earlier starts and the others did, and so does a local instance
\* whose first start did not die within the write of its key.
BootEnds ==
  <>[] IF local THEN (\E r \in Replicas : AtStage(r, "ready")) \/ keyFile = "empty"
                ELSE \A r \in Replicas : AtStage(r, "ready")

\* grant-store.ts: no refresh holds its call, or a connection, for good.  It
\* takes a pool that is larger than the grants that are refreshed at once.
RefreshEnds == \A s \in Sessions : sess[s].at = "load" ~> sess[s].at \in Ended
=============================================================================
