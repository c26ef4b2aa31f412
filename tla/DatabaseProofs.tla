--------------------------- MODULE DatabaseProofs ---------------------------
(***************************************************************************)
(* Proofs about Database, for any number of replicas, migrations, grants   *)
(* and crashes, any finite number of refreshes and a pool of any size.     *)
(***************************************************************************)
EXTENDS Database, FiniteSetTheorems, TLAPS

USE PoolAssumption, MigrationAssumption, GrantAssumption, SessionAssumption, CrashAssumption

-----------------------------------------------------------------------------
(* How a step of a start moves its process *)

BootTyped == boot \in [Replicas -> [at : BootStages, file : Nat]]

\* Process r goes to a stage, and the others stay.
Turn(r, stage, file) ==
  /\ BootTyped'
  /\ boot'[r].at = stage /\ boot'[r].file = file
  /\ \A q \in Replicas : q # r => boot'[q] = boot[q]

LEMMA GotoTurns ==
  ASSUME BootTyped, NEW r \in Replicas, NEW stage \in BootStages, Goto(r, stage)
  PROVE  Turn(r, stage, boot[r].file)
BY DEF BootTyped, Goto, Turn

LEMMA JumpTurns ==
  ASSUME BootTyped, NEW r \in Replicas, NEW stage \in BootStages, NEW file \in Nat,
         boot' = [boot EXCEPT ![r] = [at |-> stage, file |-> file]]
  PROVE  Turn(r, stage, file)
BY DEF BootTyped, Turn

LEMMA BootNames ==
  /\ "off" \in BootStages /\ "key" \in BootStages /\ "write_key" \in BootStages
  /\ "table" \in BootStages /\ "creating" \in BootStages /\ "check" \in BootStages
  /\ "run" \in BootStages /\ "ran" \in BootStages /\ "provision" \in BootStages
  /\ "enable" \in BootStages /\ "mint" \in BootStages /\ "open_file" \in BootStages
  /\ "write_file" \in BootStages /\ "ready" \in BootStages
BY DEF BootStages

\* The steps before a process reads the migrations.
Opening(r) == Start(r) \/ ReadKey(r) \/ WriteKey(r) \/ LookForTable(r) \/ CreateTable(r)
Provisioning(r) ==
  FindWorkspace(r) \/ EnableFake(r) \/ Mint(r) \/ OpenFile(r) \/ WriteFile(r)
LocalStages == {"provision", "enable", "mint", "open_file", "write_file"}

LEMMA OpeningTurns ==
  ASSUME BootTyped, NEW r \in Replicas, Opening(r)
  PROVE  /\ \/ \E stage \in {"off", "key", "write_key", "table", "creating"} :
                 Turn(r, stage, boot[r].file)
            \/ Turn(r, "check", 1)
         /\ boot[r].at = "off" => (local => \A q \in Replicas : boot[q].at = "off")
         /\ boot[r].at \in {"off", "key", "write_key", "table", "creating"}
<1> USE DEF AtStage
<1>1. CASE Start(r)
  <2>1. PICK stage \in {"key", "table"} : Goto(r, stage)
    BY <1>1 DEF Start
  <2> QED
    BY <1>1, <2>1, BootNames, GotoTurns DEF Start
<1>2. CASE ReadKey(r)
  <2>1. PICK stage \in {"write_key", "off", "table"} : Goto(r, stage)
    BY <1>2 DEF ReadKey
  <2> QED
    BY <1>2, <2>1, BootNames, GotoTurns DEF ReadKey
<1>3. CASE WriteKey(r)
  BY <1>3, BootNames, GotoTurns DEF WriteKey
<1>4. CASE LookForTable(r)
  <2>1. CASE table
    BY <1>4, <2>1, BootNames, JumpTurns DEF LookForTable
  <2>2. CASE ~table
    <3>1. Goto(r, "creating")
      BY <1>4, <2>2 DEF LookForTable, Goto
    <3> QED
      BY <1>4, <3>1, BootNames, GotoTurns DEF LookForTable
  <2> QED
    BY <2>1, <2>2
<1>5. CASE CreateTable(r)
  <2>1. CASE ~table
    BY <1>5, <2>1, BootNames, JumpTurns DEF CreateTable
  <2>2. CASE table
    <3>1. Goto(r, "off")
      BY <1>5, <2>2 DEF CreateTable, Goto
    <3> QED
      BY <1>5, <3>1, BootNames, GotoTurns DEF CreateTable
  <2> QED
    BY <2>1, <2>2
<1> QED
  BY <1>1, <1>2, <1>3, <1>4, <1>5 DEF Opening

LEMMA CheckTurns ==
  ASSUME BootTyped, NEW r \in Replicas, Check(r)
  PROVE  /\ boot[r].at = "check"
         /\ \/ boot[r].file \in applied /\ Turn(r, "check", boot[r].file + 1)
            \/ /\ boot[r].file <= Migrations /\ boot[r].file \notin applied
               /\ Turn(r, "run", boot[r].file)
            \/ boot[r].file > Migrations /\ local /\ Turn(r, "provision", boot[r].file)
            \/ boot[r].file > Migrations /\ ~local /\ Turn(r, "ready", boot[r].file)
<1>1. boot[r].file + 1 \in Nat
  BY DEF BootTyped
<1>2. ASSUME boot' = [boot EXCEPT ![r].file = @ + 1], boot[r].at = "check"
      PROVE  Turn(r, "check", boot[r].file + 1)
  <2>1. boot[r] = [at |-> "check", file |-> boot[r].file]
    BY <1>2 DEF BootTyped
  <2>2. [boot[r] EXCEPT !.file = @ + 1] = [at |-> "check", file |-> boot[r].file + 1]
    BY <2>1
  <2>3. boot' = [boot EXCEPT ![r] = [at |-> "check", file |-> boot[r].file + 1]]
    BY <1>2, <2>2
  <2> QED
    BY <1>1, <2>3, BootNames, JumpTurns
<1>3. boot[r].at = "check"
  BY DEF Check, AtStage
<1>4. CASE boot[r].file \in applied /\ boot' = [boot EXCEPT ![r].file = @ + 1]
  BY <1>2, <1>3, <1>4
<1>5. CASE boot[r].file <= Migrations /\ boot[r].file \notin applied /\ Goto(r, "run")
  BY <1>3, <1>5, BootNames, GotoTurns
<1>6. CASE boot[r].file > Migrations /\ Goto(r, IF local THEN "provision" ELSE "ready")
  <2>1. CASE local
    BY <1>3, <1>6, <2>1, BootNames, GotoTurns
  <2>2. CASE ~local
    BY <1>3, <1>6, <2>2, BootNames, GotoTurns
  <2> QED
    BY <2>1, <2>2
<1> QED
  BY <1>4, <1>5, <1>6 DEF Check

LEMMA RunTurns ==
  ASSUME BootTyped, NEW r \in Replicas, Run(r)
  PROVE  /\ boot[r].at = "run"
         /\ \A q \in Replicas : ~(boot[q].at = "ran" /\ boot[q].file = boot[r].file)
         /\ \/ Turn(r, "off", boot[r].file)
            \/ boot[r].file \notin applied /\ Turn(r, "ran", boot[r].file)
BY BootNames, GotoTurns DEF Run, AtStage

LEMMA CommitTurns ==
  ASSUME BootTyped, NEW r \in Replicas, Commit(r)
  PROVE  boot[r].at = "ran" /\ Turn(r, "check", boot[r].file + 1)
<1>1. boot[r].file + 1 \in Nat
  BY DEF BootTyped
<1> QED
  BY <1>1, BootNames, JumpTurns DEF Commit, AtStage

LEMMA ProvisioningTurns ==
  ASSUME BootTyped, NEW r \in Replicas
  PROVE  /\ FindWorkspace(r) =>
              boot[r].at = "provision" /\ \E stage \in {"enable", "mint", "ready"} :
                                            Turn(r, stage, boot[r].file)
         /\ EnableFake(r) => boot[r].at = "enable" /\ Turn(r, "mint", boot[r].file)
         /\ Mint(r) => boot[r].at = "mint" /\ Turn(r, "open_file", boot[r].file)
         /\ OpenFile(r) => boot[r].at = "open_file" /\ Turn(r, "write_file", boot[r].file)
         /\ WriteFile(r) => boot[r].at = "write_file" /\ Turn(r, "ready", boot[r].file)
BY BootNames, GotoTurns DEF FindWorkspace, EnableFake, Mint, OpenFile, WriteFile, AtStage

LEMMA CrashTurns ==
  ASSUME BootTyped, NEW r \in Replicas, Crash(r)
  PROVE  boot[r].at # "off" /\ Turn(r, "off", boot[r].file)
BY BootNames, GotoTurns DEF Crash, AtStage

-----------------------------------------------------------------------------
(* How a step of a refresh moves it *)

SessTyped == sess \in [Sessions -> [at : SessionStages, in : Replicas]]

\* Refresh s goes to a stage in the process it runs in, and the others stay.
Moved(s, stage) ==
  /\ SessTyped'
  /\ sess'[s].at = stage /\ sess'[s].in = sess[s].in
  /\ \A q \in Sessions : q # s => sess'[q] = sess[q]

LEMMA MoveMoves ==
  ASSUME SessTyped, NEW s \in Sessions, NEW stage \in SessionStages, Move(s, stage)
  PROVE  Moved(s, stage)
BY DEF SessTyped, Move, Moved

LEMMA SessionNames ==
  /\ "idle" \in Ended /\ "done" \in Ended /\ "failed" \in Ended
  /\ "lock" \in Holding /\ "locked" \in Holding /\ "vendor" \in Holding
  /\ "save" \in Holding /\ "mark" \in Holding /\ "commit" \in Holding
  /\ "load" \notin Holding /\ "connect" \notin Holding /\ "await" \notin Holding
  /\ Ended \cup {"load", "connect", "await"} \cup Holding = SessionStages
  /\ Ended \cap Holding = {}
BY DEF Ended, Holding, SessionStages

\* Those that wait for no lock: they hold it.
Locked == Holding \ {"lock"}

\* The moves that the pool tells apart: outside it; into it, while a connection is
\* to be had; to the lock; from the lock out, which leaves a connection dirty; on,
\* with the lock; and back.
Outside(s) ==
  /\ sess[s].at \notin Holding
  /\ \E stage \in SessionStages \ Holding : Moved(s, stage)
  /\ UNCHANGED dirty
Enters(s) ==
  /\ sess[s].at \notin Holding
  /\ Moved(s, "lock")
  /\ ~local => Clean(sess[s].in)
  /\ UNCHANGED dirty
Locks(s) ==
  /\ sess[s].at = "lock"
  /\ Moved(s, "locked")
  /\ UNCHANGED dirty
GivesUp(s) ==
  /\ sess[s].at = "lock"
  /\ Moved(s, "failed")
  /\ dirty' = [dirty EXCEPT ![sess[s].in] = @ + 1]
WorksOn(s) ==
  /\ sess[s].at \in Locked
  /\ \E stage \in Locked : Moved(s, stage)
  /\ UNCHANGED dirty
Leaves(s) ==
  /\ sess[s].at \in Locked
  /\ Moved(s, "done")
  /\ UNCHANGED dirty

LEMMA QueryMoves ==
  ASSUME SessTyped, NEW s \in Sessions, NEW good \in SessionStages, NEW bad \in SessionStages,
         Query(s, good, bad)
  PROVE  /\ Moved(s, good) \/ Moved(s, bad)
         /\ UNCHANGED dirty
         /\ UNCHANGED Starting
BY MoveMoves DEF Query

\* Only the embedded pool's connect moves its queue.
LEMMA QueueMoves ==
  ASSUME NEW s \in Sessions, Need(s) \/ Refresh(s)
  PROVE  QueueUp(s) \/ Resume(s) \/ UNCHANGED queue
BY DEF Need, Refresh, Query, Load, Connect, Lock, LockTimeout, ReRead, VendorAnswers, Save,
   MarkReauth, CommitLock

LEMMA RefreshMoves ==
  ASSUME SessTyped, NEW s \in Sessions, Need(s) \/ Refresh(s)
  PROVE  /\ Outside(s) \/ Enters(s) \/ Locks(s) \/ GivesUp(s) \/ WorksOn(s) \/ Leaves(s)
         /\ UNCHANGED Starting
<1> USE SessionNames DEF Locked
<1>1. CASE Need(s)
  BY <1>1, MoveMoves DEF Need, Outside
<1>2. CASE Load(s)
  BY <1>2, QueryMoves DEF Load, Outside
<1>3. CASE Connect(s)
  BY <1>3, MoveMoves DEF Connect, Enters, Outside
<1>11. CASE QueueUp(s)
  BY <1>11, MoveMoves DEF QueueUp, Outside
<1>12. CASE Resume(s)
  BY <1>12, MoveMoves DEF Resume, Enters
<1>4. CASE Lock(s)
  BY <1>4, MoveMoves DEF Lock, Locks
<1>5. CASE LockTimeout(s)
  BY <1>5, MoveMoves DEF LockTimeout, GivesUp
<1>6. CASE ReRead(s)
  <2>1. PICK stage \in {"vendor", "mark", "commit"} : Query(s, stage, "commit")
    BY <1>6 DEF ReRead
  <2>2. stage \in Locked /\ stage \in SessionStages
    OBVIOUS
  <2> QED
    BY <1>6, <2>1, <2>2, QueryMoves DEF ReRead, WorksOn
<1>7. CASE VendorAnswers(s)
  BY <1>7, MoveMoves DEF VendorAnswers, WorksOn
<1>8. CASE Save(s)
  BY <1>8, QueryMoves DEF Save, WorksOn
<1>9. CASE MarkReauth(s)
  BY <1>9, QueryMoves DEF MarkReauth, WorksOn
<1>10. CASE CommitLock(s)
  BY <1>10, MoveMoves DEF CommitLock, Leaves
<1> QED
  BY <1>1, <1>2, <1>3, <1>4, <1>5, <1>6, <1>7, <1>8, <1>9, <1>10, <1>11, <1>12 DEF Refresh

-----------------------------------------------------------------------------
(* Type correctness *)

SchemaTyped ==
  /\ table \in BOOLEAN
  /\ applied \subseteq 1 .. Migrations
  /\ effect \in [1 .. Migrations -> Nat]

DiskTyped ==
  /\ keyFile \in {"absent", "empty", "written"}
  /\ credFile \in [state : {"absent", "empty", "written"}, token : 0 .. minted]
  /\ minted \in Nat
  /\ db \in [workspace : BOOLEAN, fake : BOOLEAN, tokens : SUBSET (1 .. minted)]
  /\ told \subseteq 1 .. minted

DirtyTyped == dirty \in [Replicas -> Nat]
QueueTyped == tail \in [Replicas -> SUBSET Sessions] /\ ahead \in [Sessions -> SUBSET Sessions]

\* A process runs files that there are, and writes a token that it has minted.
InRange ==
  \A r \in Replicas : /\ boot[r].at = "check" => boot[r].file >= 1
                      /\ boot[r].at \in {"run", "ran"} => boot[r].file \in 1 .. Migrations
                      /\ boot[r].at \in {"open_file", "write_file"} => minted >= 1

\* TypeOK but for the pool's size.
Typed ==
  /\ local \in BOOLEAN /\ crashes \in 0 .. MaxCrashes
  /\ BootTyped /\ InRange /\ SchemaTyped /\ DiskTyped /\ SessTyped /\ DirtyTyped
  /\ QueueTyped

LEMMA TypedInit == Init => Typed
<1> SUFFICES ASSUME Init PROVE Typed
  OBVIOUS
<1> USE DEF Init
<1>1. BootTyped
  BY BootNames DEF BootTyped
<1>2. SchemaTyped
  BY DEF SchemaTyped
<1>3. DiskTyped
  BY DEF DiskTyped, Absent
<1>4. SessTyped
  BY SessionNames DEF SessTyped
<1>5. DirtyTyped /\ QueueTyped /\ InRange
  BY DEF DirtyTyped, QueueTyped, InRange
<1> QED
  BY <1>1, <1>2, <1>3, <1>4, <1>5 DEF Typed

\* What the steps of a start and a crash leave alone.
LEMMA SchemaKept ==
  ASSUME NEW r \in Replicas, Opening(r) \/ Check(r) \/ Run(r) \/ Provisioning(r) \/ Crash(r)
  PROVE  UNCHANGED <<applied, effect>>
BY DEF Opening, Check, Run, Provisioning, Crash, schema, Start, ReadKey, WriteKey, LookForTable,
   CreateTable, FindWorkspace, EnableFake, Mint, OpenFile, WriteFile

LEMMA DiskKept ==
  ASSUME NEW r \in Replicas, Opening(r) \/ Check(r) \/ Run(r) \/ Commit(r) \/ Crash(r)
  PROVE  UNCHANGED <<credFile, db, minted, told>>
BY DEF Opening, Check, Run, Commit, Crash, disk, Start, ReadKey, WriteKey, LookForTable, CreateTable

LEMMA ServingKept ==
  ASSUME NEW r \in Replicas, Begin(r)
  PROVE  UNCHANGED <<local, Serving, crashes>>
BY DEF Begin, Start, ReadKey, WriteKey, LookForTable, CreateTable, Check, Run, Commit,
   FindWorkspace, EnableFake, Mint, OpenFile, WriteFile

LEMMA BeginParts ==
  ASSUME NEW r \in Replicas, Begin(r)
  PROVE  Opening(r) \/ Check(r) \/ Run(r) \/ Commit(r) \/ Provisioning(r)
BY DEF Begin, Opening, Provisioning

LEMMA TurnInRange ==
  ASSUME InRange, minted \in Nat, minted' \in Nat, minted' >= minted,
         NEW r \in Replicas, NEW stage, NEW file, Turn(r, stage, file),
         stage = "check" => file >= 1,
         stage \in {"run", "ran"} => file \in 1 .. Migrations,
         stage \in {"open_file", "write_file"} => minted' >= 1
  PROVE  BootTyped' /\ InRange'
<1>1. BootTyped'
  BY DEF Turn
<1>2. ASSUME NEW q \in Replicas
      PROVE  /\ boot'[q].at = "check" => boot'[q].file >= 1
             /\ boot'[q].at \in {"run", "ran"} => boot'[q].file \in 1 .. Migrations
             /\ boot'[q].at \in {"open_file", "write_file"} => minted' >= 1
  <2>1. CASE q = r
    BY <2>1 DEF Turn
  <2>2. CASE q # r
    BY <2>2 DEF Turn, InRange
  <2> QED
    BY <2>1, <2>2
<1> QED
  BY <1>1, <1>2 DEF InRange

LEMMA BootStep ==
  ASSUME Typed, NEW r \in Replicas, Begin(r) \/ Crash(r)
  PROVE  BootTyped' /\ InRange'
<1>0. BootTyped /\ InRange /\ minted \in Nat /\ boot[r].file \in Nat
  BY DEF Typed, DiskTyped, BootTyped
<1>1. CASE Opening(r)
  <2>1. minted' = minted
    BY <1>1, DiskKept
  <2>2. PICK stage \in {"off", "key", "write_key", "table", "creating", "check"}, file \in Nat :
          Turn(r, stage, file) /\ (stage = "check" => file >= 1)
    BY <1>0, <1>1, OpeningTurns
  <2> QED
    BY <1>0, <2>1, <2>2, TurnInRange
<1>2. CASE Check(r)
  <2>1. minted' = minted
    BY <1>2, DiskKept
  <2>2. boot[r].at = "check" /\ boot[r].file >= 1
    BY <1>0, <1>2, CheckTurns DEF InRange
  <2>3. PICK stage \in {"check", "run", "provision", "ready"}, file \in Nat :
          /\ Turn(r, stage, file)
          /\ stage = "check" => file >= 1
          /\ stage = "run" => file \in 1 .. Migrations
    BY <1>0, <1>2, <2>2, CheckTurns
  <2> QED
    BY <1>0, <2>1, <2>3, TurnInRange
<1>3. CASE Run(r)
  <2>1. minted' = minted
    BY <1>3, DiskKept
  <2>2. boot[r].file \in 1 .. Migrations
    BY <1>0, <1>3, RunTurns DEF InRange
  <2>3. PICK stage \in {"off", "ran"} : Turn(r, stage, boot[r].file)
    BY <1>0, <1>3, RunTurns
  <2> QED
    BY <1>0, <2>1, <2>2, <2>3, TurnInRange
<1>4. CASE Commit(r)
  <2>1. minted' = minted
    BY <1>4, DiskKept
  <2>2. Turn(r, "check", boot[r].file + 1)
    BY <1>0, <1>4, CommitTurns
  <2> QED
    BY <1>0, <2>1, <2>2, TurnInRange
<1>5. CASE Provisioning(r)
  <2>1. minted' \in Nat /\ minted' >= minted
    BY <1>0, <1>5 DEF Provisioning, FindWorkspace, EnableFake, Mint, OpenFile, WriteFile
  <2>2. PICK stage \in {"enable", "mint", "open_file", "write_file", "ready"} :
          Turn(r, stage, boot[r].file)
    BY <1>0, <1>5, ProvisioningTurns DEF Provisioning
  <2>3. stage \in {"open_file", "write_file"} => minted' >= 1
    <3>1. CASE FindWorkspace(r) \/ EnableFake(r) \/ WriteFile(r)
      BY <1>0, <2>2, <3>1, ProvisioningTurns DEF Turn
    <3>2. CASE Mint(r)
      BY <1>0, <3>2 DEF Mint
    <3>3. CASE OpenFile(r)
      BY <1>0, <2>1, <3>3, ProvisioningTurns DEF InRange
    <3> QED
      BY <1>5, <3>1, <3>2, <3>3 DEF Provisioning
  <2> QED
    BY <1>0, <2>1, <2>2, <2>3, TurnInRange
<1>6. CASE Crash(r)
  <2>1. minted' = minted
    BY <1>6, DiskKept
  <2>2. Turn(r, "off", boot[r].file)
    BY <1>0, <1>6, CrashTurns
  <2> QED
    BY <1>0, <2>1, <2>2, TurnInRange
<1> QED
  BY <1>1, <1>2, <1>3, <1>4, <1>5, <1>6, BeginParts

LEMMA SchemaStep ==
  ASSUME Typed, NEW r \in Replicas, Begin(r) \/ Crash(r)
  PROVE  SchemaTyped'
<1>1. CASE Commit(r)
  <2>1. boot[r].file \in 1 .. Migrations
    BY <1>1, CommitTurns DEF Typed, InRange
  <2>2. effect' \in [1 .. Migrations -> Nat]
    BY <1>1, <2>1 DEF Commit, Typed, SchemaTyped
  <2> QED
    BY <1>1, <2>1, <2>2 DEF Commit, Typed, SchemaTyped
<1>2. CASE CreateTable(r)
  BY <1>2 DEF CreateTable, Typed, SchemaTyped
<1>3. CASE UNCHANGED schema
  BY <1>3 DEF schema, Typed, SchemaTyped
<1> QED
  BY <1>1, <1>2, <1>3 DEF Begin, Crash, Start, ReadKey, WriteKey, LookForTable, Check, Run,
     FindWorkspace, EnableFake, Mint, OpenFile, WriteFile

LEMMA DiskStep ==
  ASSUME Typed, NEW r \in Replicas, Begin(r) \/ Crash(r)
  PROVE  DiskTyped'
<1> USE DEF Typed, DiskTyped
<1>1. CASE UNCHANGED <<credFile, db, minted, told>> /\ keyFile' \in {keyFile, "empty", "written"}
  BY <1>1
<1>2. CASE FindWorkspace(r)
  <2>1. db' \in [workspace : BOOLEAN, fake : BOOLEAN, tokens : SUBSET (1 .. minted)]
    BY <1>2 DEF FindWorkspace
  <2>2. {credFile.token} \ {0} \subseteq 1 .. minted
    OBVIOUS
  <2>3. told' \subseteq 1 .. minted
    BY <1>2, <2>2 DEF FindWorkspace
  <2> QED
    BY <1>2, <2>1, <2>3 DEF FindWorkspace
<1>3. CASE EnableFake(r)
  BY <1>3 DEF EnableFake
<1>4. CASE Mint(r)
  <2>1. minted' = minted + 1
    BY <1>4 DEF Mint
  <2>2. 1 .. minted \subseteq 1 .. minted' /\ 0 .. minted \subseteq 0 .. minted' /\ minted' \in 1 .. minted'
    BY <2>1
  <2>3. db.tokens \cup {minted'} \subseteq 1 .. minted'
    BY <2>2
  <2>4. db' \in [workspace : BOOLEAN, fake : BOOLEAN, tokens : SUBSET (1 .. minted')]
    BY <1>4, <2>3 DEF Mint
  <2>5. credFile' \in [state : {"absent", "empty", "written"}, token : 0 .. minted']
    BY <1>4, <2>2 DEF Mint
  <2>6. keyFile' = keyFile /\ told' = told
    BY <1>4 DEF Mint
  <2> QED
    BY <2>1, <2>2, <2>4, <2>5, <2>6
<1>5. CASE OpenFile(r)
  <2>1. 0 \in 0 .. minted
    OBVIOUS
  <2> QED
    BY <1>5, <2>1 DEF OpenFile
<1>6. CASE WriteFile(r)
  <2>1. boot[r].at = "write_file"
    BY <1>6 DEF WriteFile, AtStage
  <2>2. minted >= 1
    BY <2>1 DEF InRange
  <2>3. minted \in 1 .. minted /\ minted \in 0 .. minted
    BY <2>2
  <2> QED
    BY <1>6, <2>3 DEF WriteFile
<1> QED
  BY <1>1, <1>2, <1>3, <1>4, <1>5, <1>6 DEF Begin, Crash, disk, Start, ReadKey, WriteKey,
     LookForTable, CreateTable, Check, Run, Commit

-----------------------------------------------------------------------------
(* The pool *)

LEMMA OutFinite == \A r \in Replicas : IsFiniteSet(Out(r)) /\ Cardinality(Out(r)) \in Nat
<1> TAKE r \in Replicas
<1>1. Out(r) \subseteq Sessions
  BY DEF Out
<1> QED
  BY <1>1, FS_Subset, FS_CardinalityType

LEMMA OutMoved ==
  ASSUME SessTyped, NEW s \in Sessions, NEW stage \in SessionStages, Moved(s, stage),
         NEW r \in Replicas
  PROVE  Out(r)' = IF r = sess[s].in
                   THEN IF stage \in Holding THEN Out(r) \cup {s} ELSE Out(r) \ {s}
                   ELSE Out(r)
BY DEF Out, Moved, SessTyped

\* What a move makes of the connections of each process.
LEMMA PoolMoved ==
  ASSUME Typed, PoolKept, NEW s \in Sessions, Need(s) \/ Refresh(s)
  PROVE  DirtyTyped' /\ PoolKept'
<1> DEFINE p == sess[s].in
<1>0. SessTyped /\ DirtyTyped /\ p \in Replicas /\ POOL_MAX \in Nat /\ s \in Sessions
      /\ \A r \in Replicas : dirty[r] \in Nat
  BY DEF Typed, SessTyped, DirtyTyped
<1>1. local' = local
  BY <1>0, RefreshMoves DEF Starting
<1>2. CASE \E stage \in SessionStages :
             /\ Moved(s, stage) /\ UNCHANGED dirty
             /\ stage \in Holding => sess[s].at \in Holding
  <2>1. PICK stage \in SessionStages :
          /\ Moved(s, stage) /\ UNCHANGED dirty
          /\ stage \in Holding => sess[s].at \in Holding
    BY <1>2
  <2>2. ASSUME NEW r \in Replicas PROVE Cardinality(Out(r)') <= Cardinality(Out(r))
    <3>1. Out(r)' = Out(r) \/ Out(r)' = Out(r) \ {s}
      BY <1>0, <2>1, OutMoved DEF Out
    <3>2. Cardinality(Out(r) \ {s}) <= Cardinality(Out(r))
      <4>1. IsFiniteSet(Out(r)) /\ Cardinality(Out(r)) \in Nat
        BY OutFinite
      <4>2. Cardinality(Out(r) \ {s}) \in {Cardinality(Out(r)) - 1, Cardinality(Out(r))}
        BY <4>1, FS_RemoveElement
      <4> QED
        BY <4>1, <4>2
    <3>3. Cardinality(Out(r)) <= Cardinality(Out(r))
      BY OutFinite
    <3> QED
      BY <3>1, <3>2, <3>3
  <2>3. ASSUME NEW r \in Replicas PROVE Cardinality(Out(r)') \in Nat
    <3>1. Out(r)' \subseteq Sessions
      BY DEF Out
    <3> QED
      BY <3>1, FS_Subset, FS_CardinalityType
  <2> QED
    BY <1>0, <1>1, <2>1, <2>2, <2>3, OutFinite DEF PoolKept, DirtyTyped
<1>3. CASE Enters(s)
  <2>1. ~local => dirty[p] + Cardinality(Out(p)) < POOL_MAX
    BY <1>3 DEF Enters, Clean
  <2>2. ASSUME NEW r \in Replicas
        PROVE  Out(r)' = IF r = p THEN Out(r) \cup {s} ELSE Out(r)
    BY <1>0, <1>3, SessionNames, OutMoved DEF Enters
  <2>3. s \notin Out(p)
    BY <1>3 DEF Enters, Out
  <2>4. Cardinality(Out(p) \cup {s}) = Cardinality(Out(p)) + 1
    BY <1>0, <2>3, OutFinite, FS_AddElement
  <2>5. ASSUME NEW r \in Replicas, ~local' PROVE dirty'[r] + Cardinality(Out(r)') <= POOL_MAX
    <3>1. dirty[r] \in Nat /\ Cardinality(Out(r)) \in Nat /\ dirty' = dirty /\ ~local
      BY <1>0, <1>1, <1>3, <2>5, OutFinite DEF Enters
    <3>2. CASE r = p
      <4>1. Cardinality(Out(r)') = Cardinality(Out(r)) + 1
        BY <2>2, <2>4, <3>2
      <4> QED
        BY <1>0, <2>1, <3>1, <3>2, <4>1
    <3>3. CASE r # p
      BY <2>2, <3>1, <3>3 DEF PoolKept
    <3> QED
      BY <3>2, <3>3
  <2>6. DirtyTyped'
    BY <1>0, <1>3 DEF DirtyTyped, Enters
  <2> QED
    BY <2>5, <2>6 DEF PoolKept
<1>4. CASE GivesUp(s)
  <2>1. ASSUME NEW r \in Replicas
        PROVE  Out(r)' = IF r = p THEN Out(r) \ {s} ELSE Out(r)
    BY <1>0, <1>4, SessionNames, OutMoved DEF GivesUp
  <2>2. s \in Out(p)
    BY <1>4, SessionNames DEF GivesUp, Out
  <2>3. Cardinality(Out(p) \ {s}) = Cardinality(Out(p)) - 1
    BY <1>0, <2>2, OutFinite, FS_RemoveElement
  <2>4. \A r \in Replicas : dirty'[r] = IF r = p THEN dirty[r] + 1 ELSE dirty[r]
    BY <1>0, <1>4 DEF GivesUp, DirtyTyped
  <2>5. DirtyTyped'
    BY <1>0, <1>4 DEF GivesUp, DirtyTyped
  <2>6. ASSUME NEW r \in Replicas, ~local' PROVE dirty'[r] + Cardinality(Out(r)') <= POOL_MAX
    <3>1. /\ dirty[r] \in Nat /\ Cardinality(Out(r)) \in Nat
          /\ dirty[r] + Cardinality(Out(r)) <= POOL_MAX
      BY <1>0, <1>1, <2>6, OutFinite DEF PoolKept
    <3>2. CASE r = p
      <4>1. Cardinality(Out(r)') = Cardinality(Out(r)) - 1
        BY <2>1, <2>3, <3>2
      <4> QED
        BY <1>0, <2>4, <3>1, <3>2, <4>1
    <3>3. CASE r # p
      BY <2>1, <2>4, <3>1, <3>3
    <3> QED
      BY <3>2, <3>3
  <2> QED
    BY <2>5, <2>6 DEF PoolKept
<1> QED
  BY <1>0, <1>2, <1>3, <1>4, SessionNames, RefreshMoves
     DEF Outside, Locks, WorksOn, Leaves, Locked

LEMMA SessionsCrash ==
  ASSUME SessTyped, NEW r \in Replicas, Crash(r)
  PROVE  /\ SessTyped'
         /\ \A s \in Sessions :
              /\ sess'[s].in = sess[s].in
              /\ sess'[s] = sess[s] \/ (sess'[s].at = "failed" /\ sess[s].in = r)
              /\ sess[s].in = r => sess'[s].at \in Ended
<1>1. "failed" \in SessionStages
  BY SessionNames
<1>2. ASSUME NEW s \in Sessions
      PROVE  sess'[s] = IF sess[s].in = r /\ sess[s].at \notin Ended
                        THEN [sess[s] EXCEPT !.at = "failed"] ELSE sess[s]
  BY DEF Crash
<1>3. SessTyped'
  BY <1>1 DEF Crash, SessTyped
<1>4. \A s \in Sessions : sess[s] \in [at : SessionStages, in : Replicas]
  BY DEF SessTyped
<1> QED
  BY <1>2, <1>3, <1>4, SessionNames

LEMMA PoolCrash ==
  ASSUME Typed, PoolKept, NEW r \in Replicas, Crash(r)
  PROVE  SessTyped' /\ DirtyTyped' /\ PoolKept'
<1>0. SessTyped /\ DirtyTyped
  BY DEF Typed
<1>1. SessTyped' /\ DirtyTyped' /\ local' = local
  BY <1>0, SessionsCrash DEF Crash, DirtyTyped
<1>2. Out(r)' = {} /\ dirty'[r] = 0
  BY <1>0, SessionsCrash, SessionNames DEF Out, Crash, DirtyTyped
<1>3. \A q \in Replicas : q # r => Out(q)' = Out(q) /\ dirty'[q] = dirty[q]
  BY <1>0, SessionsCrash, SessionNames DEF Out, Crash, DirtyTyped
<1> QED
  BY <1>1, <1>2, <1>3, FS_EmptySet DEF PoolKept

LEMMA QueueTypedStep == Typed /\ [Next]_vars => QueueTyped'
<1> SUFFICES ASSUME Typed, [Next]_vars PROVE QueueTyped'
  OBVIOUS
<1> USE DEF QueueTyped
<1>1. QueueTyped /\ SessTyped
  BY DEF Typed
<1>2. CASE UNCHANGED queue
  BY <1>1, <1>2 DEF queue
<1>3. ASSUME NEW s \in Sessions, QueueUp(s) PROVE QueueTyped'
  <2>1. tail[sess[s].in] \in SUBSET Sessions
    BY <1>1 DEF SessTyped
  <2> QED
    BY <1>1, <1>3, <2>1 DEF QueueUp
<1>4. ASSUME NEW s \in Sessions, Resume(s) PROVE QueueTyped'
  BY <1>1, <1>4 DEF Resume
<1>5. ASSUME NEW r \in Replicas, Crash(r) PROVE QueueTyped'
  BY <1>1, <1>5 DEF Crash
<1>6. CASE UNCHANGED vars
  BY <1>2, <1>6 DEF vars
<1>7. ASSUME NEW r \in Replicas, Begin(r) \/ CloseIdle(r) PROVE QueueTyped'
  BY <1>2, <1>7, ServingKept DEF Serving, CloseIdle
<1>8. ASSUME NEW s \in Sessions, Need(s) \/ Refresh(s) PROVE QueueTyped'
  BY <1>2, <1>3, <1>4, <1>8, QueueMoves
<1> QED
  BY <1>5, <1>6, <1>7, <1>8 DEF Next

LEMMA TypedStep == Typed /\ PoolKept /\ [Next]_vars => Typed' /\ PoolKept'
<1> SUFFICES ASSUME Typed, PoolKept, [Next]_vars PROVE Typed' /\ PoolKept'
  OBVIOUS
<1>0. QueueTyped'
  BY QueueTypedStep
<1>1. ASSUME NEW s \in Sessions, Need(s) \/ Refresh(s) PROVE Typed' /\ PoolKept'
  <2>1. DirtyTyped' /\ PoolKept'
    BY <1>1, PoolMoved
  <2>2. SessTyped' /\ UNCHANGED Starting
    BY <1>1, RefreshMoves
       DEF Typed, Outside, Enters, Locks, GivesUp, WorksOn, Leaves, Moved
  <2>3. BootTyped' /\ InRange' /\ SchemaTyped' /\ DiskTyped'
    BY <2>2 DEF Starting, schema, disk, Typed, BootTyped, InRange, SchemaTyped, DiskTyped
  <2> QED
    BY <1>0, <2>1, <2>2, <2>3 DEF Typed, Starting
<1>2. ASSUME NEW r \in Replicas, Begin(r) PROVE Typed' /\ PoolKept'
  <2>1. UNCHANGED <<local, sess, dirty, crashes>>
    BY <1>2, ServingKept DEF Serving
  <2>2. SessTyped' /\ DirtyTyped' /\ PoolKept'
    BY <2>1 DEF Typed, SessTyped, DirtyTyped, PoolKept, Out
  <2> QED
    BY <1>0, <1>2, <2>1, <2>2, BootStep, SchemaStep, DiskStep DEF Typed
<1>3. ASSUME NEW r \in Replicas, Crash(r) PROVE Typed' /\ PoolKept'
  <2>1. local' = local /\ crashes' \in 0 .. MaxCrashes
    BY <1>3 DEF Crash, Typed
  <2> QED
    BY <1>0, <1>3, <2>1, PoolCrash, BootStep, SchemaStep, DiskStep DEF Typed
<1>4. ASSUME NEW r \in Replicas, CloseIdle(r) PROVE Typed' /\ PoolKept'
  <2>1. UNCHANGED <<sess, Starting>>
    BY <1>4 DEF CloseIdle
  <2>2. DirtyTyped' /\ \A q \in Replicas : dirty'[q] <= dirty[q]
    BY <1>4 DEF CloseIdle, Dirty, DirtyTyped, Typed
  <2>3. PoolKept'
    <3> SUFFICES ASSUME NEW q \in Replicas, ~local
                 PROVE  dirty'[q] + Cardinality(Out(q)) <= POOL_MAX
      BY <2>1 DEF PoolKept, Out, Starting
    <3>1. Cardinality(Out(q)) \in Nat
      BY FS_Subset, FS_CardinalityType DEF Out
    <3> QED
      BY <2>2, <3>1 DEF PoolKept, DirtyTyped, Typed
  <2>4. BootTyped' /\ InRange' /\ SchemaTyped' /\ DiskTyped' /\ SessTyped'
    BY <2>1 DEF Starting, schema, disk, Typed, BootTyped, InRange, SchemaTyped, DiskTyped, SessTyped
  <2> QED
    BY <1>0, <2>1, <2>2, <2>3, <2>4 DEF Typed, Starting
<1>5. CASE UNCHANGED vars
  BY <1>0, <1>5 DEF vars, schema, disk, Typed, BootTyped, InRange, SchemaTyped, DiskTyped, SessTyped,
     DirtyTyped, PoolKept, Out
<1> QED
  BY <1>1, <1>2, <1>3, <1>4, <1>5 DEF Next

LEMMA InitTyped == Init => Typed /\ PoolKept
<1> SUFFICES ASSUME Init PROVE PoolKept
  BY TypedInit
<1>1. \A r \in Replicas : Out(r) = {} /\ dirty[r] = 0
  BY SessionNames DEF Init, Out
<1> QED
  BY <1>1, FS_EmptySet DEF PoolKept

\* Database: whatever dies and whatever waits, the state is well formed, and no
\* process has more connections in use or gone bad than its pool may open.
THEOREM TypeCorrect == Spec => []TypeOK
<1>1. Init => Typed /\ PoolKept
  BY InitTyped
<1>2. Typed /\ PoolKept => TypeOK
  <2> SUFFICES ASSUME Typed, PoolKept PROVE TypeOK
    OBVIOUS
  <2>1. credFile \in [state : {"absent", "empty", "written"}, token : Nat]
    BY DEF Typed, DiskTyped
  <2> QED
    BY <2>1 DEF Typed, BootTyped, SchemaTyped, DiskTyped, SessTyped, DirtyTyped, QueueTyped, TypeOK
<1> QED
  BY <1>1, <1>2, TypedStep, PTL DEF Spec

-----------------------------------------------------------------------------
(* One client of an embedded pool *)

\* A client that is out, or waits.
Live(s) == sess[s].at \in Holding \cup {"await"}
Share(s, t) == Live(s) /\ Live(t) /\ sess[s].in = sess[t].in

\* The clients of a pool stand in line, by some rank: one that is out awaits
\* nobody, one with another before it awaits a client that is not before that
\* other, and the tail is behind all.
OutIsFree == \A s \in Sessions : sess[s].at \in Holding => ahead[s] = {}
OneBehindAnother(rank) ==
  \A s, t \in Sessions : Share(s, t) =>
    /\ s # t => rank[s] # rank[t]
    /\ rank[s] < rank[t] =>
         \E p \in ahead[t] : p \in Sessions /\ Share(p, t) /\ rank[s] <= rank[p]
TailIsLast(rank) ==
  \A s \in Sessions : Live(s) =>
    /\ tail[sess[s].in] # {}
    /\ \A t \in tail[sess[s].in] : t \in Sessions /\ Share(t, s) /\ rank[s] <= rank[t]
InLine(rank) == OutIsFree /\ OneBehindAnother(rank) /\ TailIsLast(rank)
Ranks == [Sessions -> Nat]
Queued == local => \E rank \in Ranks : InLine(rank)

\* Nobody of its pool stands before it.
LEMMA FreeIsFirst ==
  ASSUME NEW rank \in Ranks, OneBehindAnother(rank), NEW s \in Sessions,
         \A p \in ahead[s] : p \in Sessions => ~Live(p)
  PROVE  \A q \in Sessions : Share(q, s) /\ q # s => rank[s] < rank[q]
<1>1. ASSUME NEW q \in Sessions, Share(q, s), q # s PROVE rank[s] < rank[q]
  <2>1. rank[q] \in Nat /\ rank[s] \in Nat /\ rank[q] # rank[s]
    BY <1>1 DEF Ranks, OneBehindAnother
  <2>2. ~(rank[q] < rank[s])
    BY <1>1 DEF OneBehindAnother, Share
  <2> QED
    BY <2>1, <2>2
<1> QED
  BY <1>1

\* A step under which the queue and the live clients stay.
LEMMA LineStays ==
  ASSUME NEW rank \in Ranks, InLine(rank), UNCHANGED queue,
         \A q \in Sessions : /\ sess'[q].in = sess[q].in
                             /\ Live(q)' <=> Live(q)
                             /\ sess'[q].at \in Holding => sess[q].at \in Holding
  PROVE  InLine(rank)'
<1>1. \A p, q \in Sessions : Share(p, q)' <=> Share(p, q)
  BY DEF Share
<1>2. OutIsFree'
  BY DEF OutIsFree, InLine, queue
<1>3. OneBehindAnother(rank)'
  BY <1>1 DEF OneBehindAnother, InLine, queue
<1>4. TailIsLast(rank)'
  BY <1>1 DEF TailIsLast, InLine, queue
<1> QED
  BY <1>2, <1>3, <1>4 DEF InLine

\* A client that is out is released, or awaits nobody any more.
LEMMA LineThins ==
  ASSUME SessTyped, NEW rank \in Ranks, InLine(rank), UNCHANGED queue, NEW s \in Sessions,
         sess[s].at \in Holding, NEW stage \in Ended, Moved(s, stage)
  PROVE  InLine(rank)'
<1>1. \A q \in Sessions : q # s => (Live(q)' <=> Live(q)) /\ sess'[q] = sess[q]
  BY DEF Moved, Live
<1>2. ~Live(s)' /\ sess'[s].in = sess[s].in /\ Live(s)
  BY SessionNames DEF Moved, Live, Ended
<1>3. \A p, q \in Sessions : Share(p, q)' <=> Share(p, q) /\ p # s /\ q # s
  BY <1>1, <1>2 DEF Share
<1>4. \A q \in Sessions : Share(q, s) /\ q # s => rank[s] < rank[q]
  <2>1. ahead[s] = {}
    BY DEF InLine, OutIsFree
  <2> QED
    BY <2>1, FreeIsFirst DEF InLine
<1>5. OutIsFree'
  BY <1>1, <1>2 DEF OutIsFree, InLine, queue, Live
<1>6. OneBehindAnother(rank)'
  <2>1. ASSUME NEW p \in Sessions, NEW q \in Sessions, Share(p, q)', rank[p] < rank[q]
        PROVE  \E w \in ahead[q] : w \in Sessions /\ Share(w, q)' /\ rank[p] <= rank[w]
    <3>1. Share(p, q) /\ p # s /\ q # s
      BY <1>3, <2>1
    <3>2. PICK w \in ahead[q] : w \in Sessions /\ Share(w, q) /\ rank[p] <= rank[w]
      BY <2>1, <3>1 DEF InLine, OneBehindAnother
    <3>3. w # s
      <4>1. SUFFICES ASSUME w = s PROVE FALSE
        OBVIOUS
      <4>2. Share(p, s)
        BY <3>1, <3>2, <4>1 DEF Share
      <4>3. rank[s] < rank[p] /\ rank[p] <= rank[s]
        BY <1>4, <3>1, <3>2, <4>1, <4>2
      <4>4. rank[s] \in Nat /\ rank[p] \in Nat
        BY DEF Ranks
      <4> QED
        BY <4>3, <4>4
    <3> QED
      BY <1>3, <3>1, <3>2, <3>3
  <2>2. ASSUME NEW p \in Sessions, NEW q \in Sessions, Share(p, q)', p # q PROVE rank[p] # rank[q]
    BY <1>3, <2>2 DEF InLine, OneBehindAnother
  <2> QED
    BY <2>1, <2>2 DEF OneBehindAnother, queue
<1>7. TailIsLast(rank)'
  <2>1. ASSUME NEW q \in Sessions, Live(q)'
        PROVE  /\ tail[sess[q].in] # {}
               /\ \A t \in tail[sess[q].in] : t \in Sessions /\ Share(t, q)' /\ rank[q] <= rank[t]
    <3>1. Live(q) /\ q # s
      BY <1>1, <1>2, <2>1
    <3>2. ASSUME NEW t \in tail[sess[q].in]
          PROVE  t \in Sessions /\ Share(t, q)' /\ rank[q] <= rank[t]
      <4>1. t \in Sessions /\ Share(t, q) /\ rank[q] <= rank[t]
        BY <3>1, <3>2 DEF InLine, TailIsLast
      <4>2. t # s
        <5>1. SUFFICES ASSUME t = s PROVE FALSE
          OBVIOUS
        <5>2. Share(q, s)
          BY <4>1, <5>1 DEF Share
        <5>3. rank[s] < rank[q] /\ rank[q] <= rank[s]
          BY <1>4, <3>1, <4>1, <5>1, <5>2
        <5>4. rank[s] \in Nat /\ rank[q] \in Nat
          BY DEF Ranks
        <5> QED
          BY <5>3, <5>4
      <4> QED
        BY <1>3, <3>1, <4>1, <4>2
    <3> QED
      BY <3>1, <3>2 DEF InLine, TailIsLast
  <2>2. \A q \in Sessions : sess'[q].in = sess[q].in
    BY <1>1, <1>2
  <2> QED
    BY <2>1, <2>2 DEF TailIsLast, queue
<1> QED
  BY <1>5, <1>6, <1>7 DEF InLine

\* The client whose turn it is awaits nobody that is live: it is the first.
LEMMA LineMovesUp ==
  ASSUME Typed, NEW rank \in Ranks, InLine(rank), NEW s \in Sessions, Resume(s)
  PROVE  InLine(rank)'
<1>1. Moved(s, "lock") /\ SessTyped /\ QueueTyped
  BY SessionNames, MoveMoves DEF Resume, Typed
<1>2. \A q \in Sessions : (Live(q)' <=> Live(q)) /\ sess'[q].in = sess[q].in
                          /\ (q # s => sess'[q] = sess[q])
  BY <1>1, SessionNames DEF Resume, Moved, Live
<1>3. \A p, q \in Sessions : Share(p, q)' <=> Share(p, q)
  BY <1>2 DEF Share
<1>4. \A q \in Sessions : ahead'[q] = IF q = s THEN {} ELSE ahead[q]
  BY <1>1 DEF Resume, QueueTyped
<1>5. tail' = tail
  BY DEF Resume
<1>6. \A q \in Sessions : Share(q, s) /\ q # s => rank[s] < rank[q]
  <2>1. \A p \in ahead[s] : p \in Sessions => ~Live(p)
    BY SessionNames DEF Resume, Released, Live, Ended
  <2> QED
    BY <2>1, FreeIsFirst DEF InLine
<1>7. OutIsFree'
  BY <1>2, <1>4 DEF OutIsFree, InLine
<1>8. OneBehindAnother(rank)'
  <2>1. ASSUME NEW p \in Sessions, NEW q \in Sessions, Share(p, q), rank[p] < rank[q]
        PROVE  \E w \in ahead'[q] : w \in Sessions /\ Share(w, q) /\ rank[p] <= rank[w]
    <3>1. q # s
      <4>1. rank[p] \in Nat /\ rank[q] \in Nat
        BY DEF Ranks
      <4> QED
        BY <1>6, <2>1, <4>1 DEF Share
    <3> QED
      BY <1>4, <2>1, <3>1 DEF InLine, OneBehindAnother
  <2> QED
    BY <1>3, <2>1 DEF InLine, OneBehindAnother
<1>9. TailIsLast(rank)'
  BY <1>2, <1>3, <1>5 DEF InLine, TailIsLast
<1> QED
  BY <1>7, <1>8, <1>9 DEF InLine

\* A caller that joins stands behind the tail, and so behind all.
LEMMA LineGrows ==
  ASSUME Typed, NEW rank \in Ranks, InLine(rank), NEW s \in Sessions, QueueUp(s)
  PROVE  \E other \in Ranks : InLine(other)'
<1>1. Moved(s, "await") /\ SessTyped /\ QueueTyped /\ sess[s].in \in Replicas
  BY SessionNames, MoveMoves DEF QueueUp, Typed, SessTyped
<1>2. PICK r \in Replicas : r = sess[s].in
  BY <1>1
<1>3. /\ \A q \in Sessions : ahead'[q] = IF q = s THEN tail[r] ELSE ahead[q]
      /\ tail'[r] = {s} /\ \A q \in Replicas : q # r => tail'[q] = tail[q]
  BY <1>1, <1>2 DEF QueueUp, QueueTyped
<1>4. /\ ~Live(s) /\ Live(s)' /\ \A q \in Sessions : sess'[q].in = sess[q].in
      /\ \A q \in Sessions : q # s => sess'[q] = sess[q] /\ (Live(q)' <=> Live(q))
  BY <1>1, SessionNames DEF QueueUp, Moved, Live
<1>5. PICK top \in Nat : \A q \in Sessions : Live(q) /\ sess[q].in = r => rank[q] < top
  <2>1. CASE \E t \in tail[r] : t \in Sessions
    <3>1. PICK t \in tail[r] : t \in Sessions
      BY <2>1
    <3>2. rank[t] \in Nat /\ \A q \in Sessions : rank[q] \in Nat
      BY <3>1 DEF Ranks
    <3>3. \A q \in Sessions : Live(q) /\ sess[q].in = r => rank[q] <= rank[t]
      BY <3>1 DEF InLine, TailIsLast
    <3>4. rank[t] + 1 \in Nat /\ \A q \in Sessions : rank[q] <= rank[t] => rank[q] < rank[t] + 1
      BY <3>2
    <3> QED
      BY <3>3, <3>4
  <2>2. CASE ~\E t \in tail[r] : t \in Sessions
    <3>1. \A q \in Sessions : ~(Live(q) /\ sess[q].in = r)
      BY <2>2 DEF InLine, TailIsLast
    <3> QED
      BY <3>1
  <2> QED
    BY <2>1, <2>2
<1>6. PICK other : other = [rank EXCEPT ![s] = top]
  OBVIOUS
<1>7. other \in Ranks /\ other[s] = top /\ \A q \in Sessions : q # s => other[q] = rank[q]
  BY <1>5, <1>6 DEF Ranks
<1>8. \A p, q \in Sessions : /\ p # s /\ q # s => (Share(p, q)' <=> Share(p, q))
                             /\ Share(p, s)' => sess[p].in = r /\ (p # s => Live(p))
                             /\ Share(s, q)' => sess[q].in = r
  BY <1>2, <1>4 DEF Share
<1>9. OutIsFree'
  BY <1>1, <1>3, <1>4, SessionNames DEF OutIsFree, InLine, Moved
<1>10. OneBehindAnother(other)'
  <2>1. ASSUME NEW p \in Sessions, NEW q \in Sessions, Share(p, q)', p # q
        PROVE  other[p] # other[q]
    <3>0. \A x \in Sessions : rank[x] \in Nat
      BY DEF Ranks
    <3>1. CASE p # s /\ q # s
      BY <1>7, <1>8, <2>1, <3>1 DEF InLine, OneBehindAnother
    <3>2. CASE p = s
      <4>1. Share(q, s)'
        BY <2>1, <3>2 DEF Share
      <4> QED
        BY <1>5, <1>7, <1>8, <2>1, <3>0, <3>2, <4>1
    <3>3. CASE q = s
      BY <1>5, <1>7, <1>8, <2>1, <3>0, <3>3
    <3> QED
      BY <3>1, <3>2, <3>3
  <2>2. ASSUME NEW p \in Sessions, NEW q \in Sessions, Share(p, q)', other[p] < other[q]
        PROVE  \E w \in ahead'[q] : w \in Sessions /\ Share(w, q)' /\ other[p] <= other[w]
    <3>0. \A x \in Sessions : rank[x] \in Nat
      BY DEF Ranks
    <3>1. CASE q = s
      <4>1. p # s /\ Live(p) /\ sess[p].in = r
        BY <1>5, <1>7, <1>8, <2>2, <3>1
      <4>2. PICK t \in tail[r] : t \in Sessions /\ Share(t, p) /\ rank[p] <= rank[t]
        BY <4>1 DEF InLine, TailIsLast
      <4>3. t # s /\ Live(t) /\ sess[t].in = r
        BY <1>4, <4>1, <4>2 DEF Share
      <4>4. Share(t, s)'
        BY <1>2, <1>4, <4>2, <4>3 DEF Share
      <4> QED
        BY <1>3, <1>7, <3>1, <4>1, <4>2, <4>3, <4>4
    <3>2. CASE q # s /\ p # s
      <4>1. Share(p, q) /\ rank[p] < rank[q]
        BY <1>7, <1>8, <2>2, <3>2
      <4>2. PICK w \in ahead[q] : w \in Sessions /\ Share(w, q) /\ rank[p] <= rank[w]
        BY <4>1 DEF InLine, OneBehindAnother
      <4>3. w # s
        BY <1>4, <4>2 DEF Share
      <4> QED
        BY <1>3, <1>7, <1>8, <3>2, <4>2, <4>3
    <3>3. CASE q # s /\ p = s
      <4>1. Share(q, s)'
        BY <2>2, <3>3 DEF Share
      <4>2. rank[q] < top
        BY <1>5, <1>8, <3>3, <4>1
      <4> QED
        BY <1>7, <2>2, <3>0, <3>3, <4>2
    <3> QED
      BY <3>1, <3>2, <3>3
  <2> QED
    BY <2>1, <2>2 DEF OneBehindAnother
<1>11. TailIsLast(other)'
  <2>1. ASSUME NEW q \in Sessions, Live(q)'
        PROVE  /\ tail'[sess[q].in] # {}
               /\ \A t \in tail'[sess[q].in] : t \in Sessions /\ Share(t, q)' /\ other[q] <= other[t]
    <3>0. \A x \in Sessions : rank[x] \in Nat /\ sess[x].in \in Replicas
      BY <1>1 DEF Ranks, SessTyped
    <3>1. CASE sess[q].in = r
      <4>1. tail'[sess[q].in] = {s} /\ Share(s, q)'
        BY <1>2, <1>3, <1>4, <2>1, <3>1 DEF Share
      <4>2. other[q] <= other[s]
        BY <1>4, <1>5, <1>7, <2>1, <3>0, <3>1
      <4> QED
        BY <4>1, <4>2
    <3>2. CASE sess[q].in # r
      <4>1. q # s /\ Live(q) /\ tail'[sess[q].in] = tail[sess[q].in]
        BY <1>2, <1>3, <1>4, <2>1, <3>0, <3>2
      <4>2. ASSUME NEW t \in tail[sess[q].in]
            PROVE  t \in Sessions /\ Share(t, q)' /\ other[q] <= other[t]
        <5>1. t \in Sessions /\ Share(t, q) /\ rank[q] <= rank[t]
          BY <4>1, <4>2 DEF InLine, TailIsLast
        <5>2. t # s
          BY <1>4, <5>1 DEF Share
        <5> QED
          BY <1>7, <1>8, <4>1, <5>1, <5>2
      <4>3. tail[sess[q].in] # {}
        BY <4>1 DEF InLine, TailIsLast
      <4> QED
        BY <4>1, <4>2, <4>3
    <3> QED
      BY <3>1, <3>2
  <2> QED
    BY <1>4, <2>1 DEF TailIsLast
<1> QED
  BY <1>7, <1>9, <1>10, <1>11 DEF InLine

\* A process that dies takes its whole line with it.
LEMMA LineDies ==
  ASSUME Typed, NEW rank \in Ranks, InLine(rank), NEW r \in Replicas, Crash(r)
  PROVE  InLine(rank)'
<1>1. SessTyped /\ QueueTyped
  BY DEF Typed
<1>2. \A q \in Sessions : /\ sess'[q].in = sess[q].in
                          /\ sess[q].in = r => ~Live(q)'
                          /\ sess[q].in # r => sess'[q] = sess[q] /\ (Live(q)' <=> Live(q))
  BY <1>1, SessionsCrash, SessionNames DEF Live, Ended
<1>3. \A p, q \in Sessions : /\ Share(p, q)' => Share(p, q) /\ sess[q].in # r
                             /\ Share(p, q) /\ sess[q].in # r => Share(p, q)'
  BY <1>2 DEF Share
<1>4. /\ \A q \in Sessions : ahead'[q] = IF sess[q].in = r THEN {} ELSE ahead[q]
      /\ \A q \in Replicas : q # r => tail'[q] = tail[q]
  BY <1>1 DEF Crash, QueueTyped
<1>5. OutIsFree'
  BY <1>2, <1>4 DEF OutIsFree, InLine
<1>6. OneBehindAnother(rank)'
  <2>1. ASSUME NEW p \in Sessions, NEW q \in Sessions, Share(p, q)', rank[p] < rank[q]
        PROVE  \E w \in ahead'[q] : w \in Sessions /\ Share(w, q)' /\ rank[p] <= rank[w]
    <3>1. Share(p, q) /\ sess[q].in # r
      BY <1>3, <2>1
    <3>2. PICK w \in ahead[q] : w \in Sessions /\ Share(w, q) /\ rank[p] <= rank[w]
      BY <2>1, <3>1 DEF InLine, OneBehindAnother
    <3> QED
      BY <1>3, <1>4, <3>1, <3>2
  <2>2. ASSUME NEW p \in Sessions, NEW q \in Sessions, Share(p, q)', p # q PROVE rank[p] # rank[q]
    BY <1>3, <2>2 DEF InLine, OneBehindAnother
  <2> QED
    BY <2>1, <2>2 DEF OneBehindAnother
<1>7. TailIsLast(rank)'
  <2>1. ASSUME NEW q \in Sessions, Live(q)'
        PROVE  /\ tail'[sess[q].in] # {}
               /\ \A t \in tail'[sess[q].in] : t \in Sessions /\ Share(t, q)' /\ rank[q] <= rank[t]
    <3>1. Live(q) /\ sess[q].in # r /\ sess[q].in \in Replicas
      BY <1>1, <1>2, <2>1 DEF SessTyped
    <3>2. tail'[sess[q].in] = tail[sess[q].in]
      BY <1>4, <3>1
    <3> QED
      BY <1>3, <3>1, <3>2 DEF InLine, TailIsLast
  <2> QED
    BY <1>2, <2>1 DEF TailIsLast
<1> QED
  BY <1>5, <1>6, <1>7 DEF InLine

\* How a refresh moves the line of an embedded pool.
LEMMA LocalMoves ==
  ASSUME SessTyped, local, NEW s \in Sessions, Need(s) \/ Refresh(s), UNCHANGED queue,
         ~QueueUp(s), ~Resume(s)
  PROVE  \E stage \in SessionStages :
           /\ Moved(s, stage)
           /\ \/ sess[s].at \in Holding /\ stage \in Holding \cup Ended
              \/ ~Live(s) /\ stage \notin Holding \cup {"await"}
<1> USE SessionNames DEF Live
<1>1. CASE Need(s)
  BY <1>1, MoveMoves DEF Need, Ended
<1>2. CASE Load(s)
  BY <1>2, QueryMoves DEF Load
<1>3. CASE Connect(s) \/ LockTimeout(s)
  BY <1>3 DEF Connect, LockTimeout
<1>4. CASE Lock(s)
  BY <1>4, MoveMoves DEF Lock
<1>5. CASE ReRead(s)
  <2>1. PICK stage \in {"vendor", "mark", "commit"} : Query(s, stage, "commit")
    BY <1>5 DEF ReRead
  <2>2. stage \in Holding /\ stage \in SessionStages /\ "commit" \in SessionStages
    OBVIOUS
  <2> QED
    BY <1>5, <2>1, <2>2, QueryMoves DEF ReRead
<1>6. CASE VendorAnswers(s)
  BY <1>6, MoveMoves DEF VendorAnswers
<1>7. CASE Save(s)
  BY <1>7, QueryMoves DEF Save
<1>8. CASE MarkReauth(s)
  BY <1>8, QueryMoves DEF MarkReauth
<1>9. CASE CommitLock(s)
  BY <1>9, MoveMoves DEF CommitLock
<1> QED
  BY <1>1, <1>2, <1>3, <1>4, <1>5, <1>6, <1>7, <1>8, <1>9 DEF Refresh

LEMMA QueuedStep == Typed /\ Queued /\ [Next]_vars => Queued'
<1> SUFFICES ASSUME Typed, Queued, [Next]_vars, local' PROVE \E rank \in Ranks : InLine(rank)'
  BY DEF Queued, Ranks
<1>0. SessTyped /\ local' = local
  BY RefreshMoves, ServingKept DEF Typed, Next, Starting, CloseIdle, Crash, vars
<1>1. PICK rank \in Ranks : InLine(rank)
  BY <1>0 DEF Queued
<1>2. ASSUME UNCHANGED <<sess, queue>> PROVE InLine(rank)'
  BY <1>1, <1>2, LineStays DEF Live
<1>3. ASSUME NEW s \in Sessions, Need(s) \/ Refresh(s) PROVE \E other \in Ranks : InLine(other)'
  <2>1. CASE QueueUp(s)
    BY <1>1, <2>1, LineGrows
  <2>2. CASE Resume(s)
    BY <1>1, <2>2, LineMovesUp
  <2>3. CASE ~QueueUp(s) /\ ~Resume(s)
    <3>1. UNCHANGED queue
      BY <1>3, <2>3, QueueMoves
    <3>2. PICK stage \in SessionStages :
            /\ Moved(s, stage)
            /\ \/ sess[s].at \in Holding /\ stage \in Holding \cup Ended
               \/ ~Live(s) /\ stage \notin Holding \cup {"await"}
      BY <1>0, <1>3, <2>3, <3>1, LocalMoves
    <3>3. CASE sess[s].at \in Holding /\ stage \in Ended
      BY <1>0, <1>1, <3>1, <3>2, <3>3, LineThins
    <3>4. CASE ~(sess[s].at \in Holding /\ stage \in Ended)
      <4>1. \A q \in Sessions : /\ sess'[q].in = sess[q].in
                                /\ Live(q)' <=> Live(q)
                                /\ sess'[q].at \in Holding => sess[q].at \in Holding
        BY <3>2, <3>4 DEF Moved, Live
      <4> QED
        BY <1>1, <3>1, <4>1, LineStays
    <3> QED
      BY <3>3, <3>4
  <2> QED
    BY <2>1, <2>2, <2>3
<1>4. ASSUME NEW r \in Replicas, Begin(r) \/ CloseIdle(r) PROVE InLine(rank)'
  BY <1>2, <1>4, ServingKept DEF Serving, CloseIdle
<1>5. ASSUME NEW r \in Replicas, Crash(r) PROVE InLine(rank)'
  BY <1>1, <1>5, LineDies
<1>6. CASE UNCHANGED vars
  BY <1>2, <1>6 DEF vars
<1> QED
  BY <1>1, <1>3, <1>4, <1>5, <1>6 DEF Next

\* OneClient: however many callers ask for the embedded pool's client, and
\* whoever dies, at most one has it.
THEOREM OneClientOut == Spec => []OneClient
<1>1. Init => Queued
  <2> SUFFICES ASSUME Init PROVE \E rank \in Ranks : InLine(rank)
    BY DEF Queued
  <2>1. \A s \in Sessions : ~Live(s) /\ sess[s].at \notin Holding
    BY SessionNames DEF Init, Live, Holding
  <2>2. [s \in Sessions |-> 0] \in Ranks
    BY DEF Ranks
  <2>3. InLine([s \in Sessions |-> 0])
    BY <2>1 DEF InLine, OutIsFree, OneBehindAnother, TailIsLast, Share
  <2> QED
    BY <2>2, <2>3
<1>2. Queued => OneClient
  <2> SUFFICES ASSUME Queued, local, NEW r \in Replicas PROVE Cardinality(Out(r)) <= 1
    BY DEF OneClient
  <2>1. PICK rank \in Ranks : InLine(rank)
    BY DEF Queued
  <2>2. ASSUME NEW s \in Out(r), NEW t \in Out(r), s # t PROVE FALSE
    <3>1. /\ s \in Sessions /\ t \in Sessions /\ ahead[s] = {} /\ ahead[t] = {}
          /\ Share(s, t) /\ Share(t, s)
      BY <2>1, <2>2 DEF InLine, OutIsFree, Out, Share, Live
    <3>2. rank[s] < rank[t] /\ rank[t] < rank[s]
      BY <2>1, <2>2, <3>1, FreeIsFirst DEF InLine
    <3>3. rank[s] \in Nat /\ rank[t] \in Nat
      BY <2>1, <3>1 DEF Ranks
    <3> QED
      BY <3>2, <3>3
  <2>3. CASE Out(r) = {}
    BY <2>3, FS_EmptySet
  <2>4. CASE \E s : Out(r) = {s}
    <3>1. PICK s : Out(r) = {s}
      BY <2>4
    <3>2. Cardinality(Out(r)) = 1
      BY <3>1, FS_Singleton
    <3> QED
      BY <3>2
  <2> QED
    BY <2>2, <2>3, <2>4
<1>3. Init => Typed /\ PoolKept
  BY InitTyped
<1> QED
  BY <1>1, <1>2, <1>3, QueuedStep, TypedStep, PTL DEF Spec

-----------------------------------------------------------------------------
(* The migrations *)

Later == LocalStages \cup {"ready"}

\* What a process at a stage may rely on.
Behind(stage, file) ==
  /\ stage \in {"check", "run", "ran"} => \A f \in 1 .. Migrations : f < file => f \in applied
  /\ stage \in Later => applied = 1 .. Migrations

\* A file that has run without being recorded is new, and one process runs it.
OwnFile ==
  \A r \in Replicas : boot[r].at = "ran" =>
    /\ boot[r].file \notin applied
    /\ \A q \in Replicas : boot[q].at = "ran" /\ boot[q].file = boot[r].file => q = r

Recorded ==
  /\ \A f \in 1 .. Migrations : effect[f] = IF f \in applied THEN 1 ELSE 0
  /\ \A f \in applied : 1 .. f \subseteq applied

Migrating ==
  /\ Recorded
  /\ OwnFile
  /\ \A r \in Replicas : Behind(boot[r].at, boot[r].file)

\* A process that turns while the record stays.
LEMMA TurnMigrating ==
  ASSUME Migrating, UNCHANGED <<applied, effect>>,
         NEW r \in Replicas, NEW stage, NEW file, Turn(r, stage, file),
         Behind(stage, file),
         stage = "ran" => /\ file \notin applied
                          /\ \A q \in Replicas : ~(boot[q].at = "ran" /\ boot[q].file = file)
  PROVE  Migrating'
<1>1. Recorded'
  BY DEF Migrating, Recorded
<1>2. OwnFile'
  BY DEF Migrating, OwnFile, Turn
<1>3. \A q \in Replicas : Behind(boot[q].at, boot[q].file)'
  BY DEF Migrating, Behind, Turn
<1> QED
  BY <1>1, <1>2, <1>3 DEF Migrating

LEMMA CommitMigrating ==
  ASSUME Typed, Migrating, NEW r \in Replicas, Commit(r)
  PROVE  Migrating'
<1> DEFINE f == boot[r].file
<1>0. /\ BootTyped /\ SchemaTyped /\ Turn(r, "check", f + 1) /\ boot[r].at = "ran"
      /\ f \in 1 .. Migrations /\ \A q \in Replicas : boot[q].file \in Nat
  BY CommitTurns DEF Typed, InRange, BootTyped
<1>1. applied' = applied \cup {f} /\ f \notin applied
  BY <1>0 DEF Commit, Migrating, OwnFile
<1>2. \A n \in 1 .. Migrations : n < f => n \in applied
  BY <1>0 DEF Migrating, Behind
<1>3. Recorded'
  <2>1. effect' = [effect EXCEPT ![f] = @ + 1]
    BY DEF Commit
  <2>2. \A n \in 1 .. Migrations : effect'[n] = IF n \in applied' THEN 1 ELSE 0
    BY <1>0, <1>1, <2>1 DEF Migrating, Recorded, SchemaTyped
  <2>3. 1 .. f \subseteq applied'
    BY <1>0, <1>1, <1>2
  <2>4. \A n \in applied' : 1 .. n \subseteq applied'
    BY <1>1, <2>3 DEF Migrating, Recorded
  <2> QED
    BY <2>2, <2>4 DEF Recorded
<1>4. OwnFile'
  <2> SUFFICES ASSUME NEW q \in Replicas, boot'[q].at = "ran"
               PROVE  /\ boot'[q].file \notin applied'
                      /\ \A p \in Replicas : boot'[p].at = "ran" /\ boot'[p].file = boot'[q].file => p = q
    BY DEF OwnFile
  <2>1. q # r /\ boot'[q] = boot[q]
    BY <1>0 DEF Turn
  <2>2. boot[q].file \notin applied /\ boot[q].file # f
    BY <1>0, <2>1 DEF Migrating, OwnFile
  <2>3. \A p \in Replicas : boot'[p].at = "ran" => boot'[p] = boot[p]
    BY <1>0 DEF Turn
  <2> QED
    BY <1>1, <2>1, <2>2, <2>3 DEF Migrating, OwnFile
<1>5. ASSUME NEW q \in Replicas PROVE Behind(boot[q].at, boot[q].file)'
  <2>1. CASE q = r
    BY <1>0, <1>1, <1>2, <2>1 DEF Turn, Behind, Later, LocalStages
  <2>2. CASE q # r
    <3>1. boot'[q] = boot[q]
      BY <1>0, <2>2 DEF Turn
    <3>2. Behind(boot[q].at, boot[q].file)
      BY DEF Migrating
    <3> QED
      BY <1>0, <1>1, <3>1, <3>2 DEF Behind, SchemaTyped
  <2> QED
    BY <2>1, <2>2
<1> QED
  BY <1>3, <1>4, <1>5 DEF Migrating

LEMMA MigratingStep == Typed /\ Migrating /\ [Next]_vars => Migrating'
<1> SUFFICES ASSUME Typed, Migrating, [Next]_vars PROVE Migrating'
  OBVIOUS
<1>0. BootTyped /\ SchemaTyped /\ Migrations \in Nat /\ \A r \in Replicas : boot[r].file \in Nat
  BY DEF Typed, BootTyped
<1>1. ASSUME NEW s \in Sessions, Need(s) \/ Refresh(s) PROVE Migrating'
  <2>1. UNCHANGED <<boot, applied, effect>>
    BY <1>1, RefreshMoves DEF Typed, Starting, schema
  <2> QED
    BY <2>1 DEF Migrating, Recorded, OwnFile, Behind
<1>2. ASSUME NEW r \in Replicas, Opening(r) PROVE Migrating'
  <2>1. PICK stage \in {"off", "key", "write_key", "table", "creating", "check"}, file \in Nat :
          Turn(r, stage, file) /\ (stage = "check" => file = 1)
    BY <1>0, <1>2, OpeningTurns
  <2>2. Behind(stage, file)
    BY <2>1 DEF Behind, Later, LocalStages
  <2>3. UNCHANGED <<applied, effect>>
    BY <1>2, SchemaKept
  <2> QED
    BY <2>1, <2>2, <2>3, TurnMigrating
<1>3. ASSUME NEW r \in Replicas, Check(r) PROVE Migrating'
  <2> DEFINE f == boot[r].file
  <2>1. \A n \in 1 .. Migrations : n < f => n \in applied
    BY <1>0, <1>3, CheckTurns DEF Migrating, Behind
  <2>2. UNCHANGED <<applied, effect>>
    BY <1>3, SchemaKept
  <2>3. CASE f \in applied /\ Turn(r, "check", f + 1)
    <3>1. Behind("check", f + 1)
      BY <1>0, <2>1, <2>3 DEF Behind, Later, LocalStages
    <3> QED
      BY <2>2, <2>3, <3>1, TurnMigrating
  <2>4. CASE Turn(r, "run", f)
    <3>1. Behind("run", f)
      BY <2>1 DEF Behind, Later, LocalStages
    <3> QED
      BY <2>2, <2>4, <3>1, TurnMigrating
  <2>5. CASE f > Migrations /\ \E stage \in {"provision", "ready"} : Turn(r, stage, f)
    <3>1. PICK stage \in {"provision", "ready"} : Turn(r, stage, f)
      BY <2>5
    <3>2. applied = 1 .. Migrations
      <4>1. \A n \in 1 .. Migrations : n < f
        BY <1>0, <2>5
      <4>2. 1 .. Migrations \subseteq applied
        BY <2>1, <4>1
      <4> QED
        BY <1>0, <4>2 DEF SchemaTyped
    <3>3. Behind(stage, f)
      BY <3>2 DEF Behind
    <3> QED
      BY <2>2, <3>1, <3>3, TurnMigrating
  <2> QED
    BY <1>0, <1>3, <2>3, <2>4, <2>5, CheckTurns
<1>4. ASSUME NEW r \in Replicas, Run(r) PROVE Migrating'
  <2> DEFINE f == boot[r].file
  <2>1. UNCHANGED <<applied, effect>>
    BY <1>4, SchemaKept
  <2>2. PICK stage \in {"off", "ran"} : Turn(r, stage, f) /\ (stage = "ran" => f \notin applied)
    BY <1>0, <1>4, RunTurns
  <2>3. /\ \A q \in Replicas : ~(boot[q].at = "ran" /\ boot[q].file = f)
        /\ boot[r].at = "run"
    BY <1>0, <1>4, RunTurns
  <2>4. Behind(stage, f)
    BY <2>3 DEF Migrating, Behind, Later, LocalStages
  <2> QED
    BY <2>1, <2>2, <2>3, <2>4, TurnMigrating
<1>5. ASSUME NEW r \in Replicas, Commit(r) PROVE Migrating'
  BY <1>5, CommitMigrating
<1>6. ASSUME NEW r \in Replicas, Provisioning(r) PROVE Migrating'
  <2>1. UNCHANGED <<applied, effect>>
    BY <1>6, SchemaKept
  <2>2. boot[r].at \in LocalStages /\ \E stage \in Later : Turn(r, stage, boot[r].file)
    BY <1>0, <1>6, ProvisioningTurns DEF Provisioning, LocalStages, Later
  <2>3. PICK stage \in Later : Turn(r, stage, boot[r].file)
    BY <2>2
  <2>4. Behind(stage, boot[r].file) /\ stage # "ran"
    BY <2>2 DEF Migrating, Behind, Later, LocalStages
  <2> QED
    BY <2>1, <2>3, <2>4, TurnMigrating
<1>7. ASSUME NEW r \in Replicas, Crash(r) PROVE Migrating'
  <2>1. UNCHANGED <<applied, effect>>
    BY <1>7, SchemaKept
  <2>2. Turn(r, "off", boot[r].file) /\ Behind("off", boot[r].file)
    BY <1>0, <1>7, CrashTurns DEF Behind, Later, LocalStages
  <2> QED
    BY <2>1, <2>2, TurnMigrating
<1>8. CASE UNCHANGED vars
  BY <1>8 DEF vars, schema, Migrating, Recorded, OwnFile, Behind
<1>9. ASSUME NEW r \in Replicas, CloseIdle(r) PROVE Migrating'
  BY <1>9 DEF CloseIdle, Starting, schema, Migrating, Recorded, OwnFile, Behind
<1> QED
  BY <1>1, <1>2, <1>3, <1>4, <1>5, <1>6, <1>7, <1>8, <1>9, BeginParts DEF Next

\* Database: however many replicas race through the migrations or die in one,
\* each takes effect once, in the order of the files, before anyone serves.
THEOREM EachMigrationOnce == Spec => []MigratedOnce
<1>1. Init => Migrating
  BY DEF Init, Migrating, Recorded, OwnFile, Behind, Later, LocalStages
<1>2. Migrating => MigratedOnce
  BY DEF Migrating, Recorded, Behind, Later, MigratedOnce, AtStage
<1>3. Init => Typed /\ PoolKept
  BY InitTyped
<1> QED
  BY <1>1, <1>2, <1>3, MigratingStep, TypedStep, PTL DEF Spec

-----------------------------------------------------------------------------
(* The first start of a local instance *)

\* The credential file holds nothing, or a token of the database: the one that
\* has been announced.
FileFits ==
  \/ credFile = Absent /\ told = {}
  \/ credFile = [state |-> "empty", token |-> 0] /\ told = {}
  \/ /\ credFile.state = "written"
     /\ credFile.token \in db.tokens /\ told = {credFile.token}

\* What the stage of a start says of the file.
StageFits(stage) ==
  /\ stage \in LocalStages => local
  /\ stage \in {"enable", "mint", "open_file"} => credFile = Absent
  /\ stage = "write_file" => credFile = [state |-> "empty", token |-> 0]
  /\ stage \in {"enable", "mint", "open_file", "write_file"} => db.workspace
  /\ stage \in {"open_file", "write_file"} => minted \in db.tokens
  /\ stage = "ready" /\ local => credFile # Absent

\* A local instance has one process; a replica writes no file.
OneProcess ==
  /\ local => \A q, r \in Replicas : boot[q].at # "off" /\ boot[r].at # "off" => q = r
  /\ ~local => credFile = Absent

Provisioned ==
  /\ FileFits
  /\ OneProcess
  /\ ~db.workspace => credFile = Absent
  /\ \A r \in Replicas : StageFits(boot[r].at)

\* A process that turns, and was at work or finds itself alone.
LEMMA TurnOneProcess ==
  ASSUME OneProcess, NEW r \in Replicas, NEW stage, NEW file, Turn(r, stage, file),
         local' = local, ~local => credFile' = credFile,
         \/ boot[r].at # "off"
         \/ local => \A q \in Replicas : boot[q].at = "off"
  PROVE  OneProcess'
BY DEF OneProcess, Turn

\* The others' stages while one process turns: there are none, or the disk stays.
LEMMA TurnStages ==
  ASSUME Provisioned, NEW r \in Replicas, NEW stage, NEW file, Turn(r, stage, file),
         local' = local, StageFits(stage)',
         \/ UNCHANGED <<credFile, db, minted>>
         \/ local /\ boot[r].at # "off"
  PROVE  \A q \in Replicas : StageFits(boot[q].at)'
<1> SUFFICES ASSUME NEW q \in Replicas, q # r PROVE StageFits(boot[q].at)'
  BY DEF Turn
<1>1. boot'[q] = boot[q] /\ StageFits(boot[q].at)
  BY DEF Turn, Provisioned
<1>2. CASE UNCHANGED <<credFile, db, minted>>
  BY <1>1, <1>2 DEF StageFits
<1>3. CASE local /\ boot[r].at # "off"
  <2>1. boot[q].at = "off"
    BY <1>3 DEF Provisioned, OneProcess
  <2> QED
    BY <1>1, <2>1 DEF StageFits, LocalStages
<1> QED
  BY <1>2, <1>3

\* A step that leaves the disk alone.
LEMMA TurnProvisioned ==
  ASSUME Provisioned, UNCHANGED <<local, credFile, db, minted, told>>,
         NEW r \in Replicas, NEW stage, NEW file, Turn(r, stage, file),
         stage \in LocalStages => stage = "provision" /\ local,
         stage = "ready" => ~local,
         \/ boot[r].at # "off"
         \/ local => \A q \in Replicas : boot[q].at = "off"
  PROVE  Provisioned'
<1>1. OneProcess'
  BY TurnOneProcess DEF Provisioned
<1>2. StageFits(stage)'
  BY DEF StageFits, LocalStages
<1>3. FileFits'
  BY DEF Provisioned, FileFits
<1> QED
  BY <1>1, <1>2, <1>3, TurnStages DEF Provisioned

LEMMA ProvisioningKeeps ==
  ASSUME Typed, Provisioned, NEW r \in Replicas, Provisioning(r)
  PROVE  Provisioned'
<1>0. BootTyped /\ DiskTyped /\ FileFits /\ OneProcess /\ StageFits(boot[r].at)
  BY DEF Typed, Provisioned
<1>1. boot[r].at \in LocalStages /\ local /\ boot[r].at # "off"
  BY <1>0, ProvisioningTurns DEF Provisioning, StageFits, LocalStages
<1>2. local' = local
  BY DEF Provisioning, FindWorkspace, EnableFake, Mint, OpenFile, WriteFile
<1>3. ASSUME NEW stage, NEW file, Turn(r, stage, file), StageFits(stage)', FileFits',
             ~db'.workspace => credFile' = Absent
      PROVE  Provisioned'
  BY <1>0, <1>1, <1>2, <1>3, TurnOneProcess, TurnStages DEF Provisioned
<1>4. CASE FindWorkspace(r)
  <2>1. UNCHANGED <<credFile, minted>> /\ boot[r].at = "provision"
    BY <1>4 DEF FindWorkspace, AtStage
  <2>2. CASE db.workspace /\ credFile # Absent
    <3>1. told' = told /\ db' = db /\ Turn(r, "ready", boot[r].file)
      <4>1. {credFile.token} \ {0} \subseteq told
        BY <1>0, <2>2 DEF FileFits
      <4>2. told' = told
        BY <1>4, <2>2, <4>1 DEF FindWorkspace
      <4>3. Goto(r, "ready") /\ db' = db
        BY <1>4, <2>2 DEF FindWorkspace
      <4> QED
        BY <1>0, <4>2, <4>3, BootNames, GotoTurns
    <3>2. FileFits' /\ StageFits("ready")'
      BY <1>0, <2>1, <2>2, <3>1 DEF FileFits, StageFits, LocalStages
    <3> QED
      BY <1>3, <2>2, <3>1, <3>2
  <2>3. CASE db.workspace /\ credFile = Absent
    <3>1. told' = told /\ db' = db /\ Turn(r, "mint", boot[r].file)
      BY <1>0, <1>4, <2>3, BootNames, GotoTurns DEF FindWorkspace
    <3>2. FileFits' /\ StageFits("mint")'
      BY <1>0, <1>1, <1>2, <2>1, <2>3, <3>1 DEF FileFits, StageFits, LocalStages
    <3> QED
      BY <1>3, <2>3, <3>1, <3>2
  <2>4. CASE ~db.workspace
    <3>1. told' = told /\ Turn(r, "enable", boot[r].file)
      BY <1>0, <1>4, <2>4, BootNames, GotoTurns DEF FindWorkspace
    <3>2. db'.workspace /\ db'.tokens = db.tokens /\ credFile = Absent
      BY <1>0, <1>4, <2>4 DEF FindWorkspace, DiskTyped, Provisioned
    <3>3. FileFits' /\ StageFits("enable")'
      BY <1>0, <1>1, <1>2, <2>1, <3>1, <3>2 DEF FileFits, StageFits, LocalStages
    <3> QED
      BY <1>3, <3>1, <3>2, <3>3
  <2> QED
    BY <2>2, <2>3, <2>4
<1>5. CASE EnableFake(r)
  <2>1. UNCHANGED <<credFile, minted, told>> /\ Turn(r, "mint", boot[r].file) /\ boot[r].at = "enable"
    BY <1>0, <1>5, ProvisioningTurns DEF EnableFake
  <2>2. db'.workspace = db.workspace /\ db'.tokens = db.tokens
    BY <1>0, <1>5 DEF EnableFake, DiskTyped
  <2>3. credFile = Absent
    BY <1>0, <2>1 DEF StageFits
  <2>4. FileFits' /\ StageFits("mint")'
    BY <1>0, <1>1, <1>2, <2>1, <2>2, <2>3 DEF FileFits, StageFits, LocalStages
  <2> QED
    BY <1>3, <2>1, <2>3, <2>4
<1>6. CASE Mint(r)
  <2>1. /\ UNCHANGED <<credFile, told>> /\ minted' = minted + 1
        /\ Turn(r, "open_file", boot[r].file) /\ boot[r].at = "mint"
    BY <1>0, <1>6, ProvisioningTurns DEF Mint
  <2>2. db'.workspace = db.workspace /\ db'.tokens = db.tokens \cup {minted'}
    BY <1>0, <1>6, <2>1 DEF Mint, DiskTyped
  <2>3. credFile = Absent
    BY <1>0, <2>1 DEF StageFits
  <2>4. FileFits' /\ StageFits("open_file")'
    BY <1>0, <1>1, <1>2, <2>1, <2>2, <2>3 DEF FileFits, StageFits, LocalStages
  <2> QED
    BY <1>3, <2>1, <2>3, <2>4
<1>7. CASE OpenFile(r)
  <2>1. /\ UNCHANGED <<db, minted, told>> /\ credFile' = [state |-> "empty", token |-> 0]
        /\ Turn(r, "write_file", boot[r].file) /\ boot[r].at = "open_file"
    BY <1>0, <1>7, ProvisioningTurns DEF OpenFile
  <2>2. credFile = Absent /\ minted \in db.tokens /\ db.workspace
    BY <1>0, <2>1 DEF StageFits
  <2>3. FileFits' /\ StageFits("write_file")'
    BY <1>0, <1>1, <1>2, <2>1, <2>2 DEF FileFits, StageFits, LocalStages, Absent
  <2> QED
    BY <1>3, <2>1, <2>2, <2>3
<1>8. CASE WriteFile(r)
  <2>1. /\ UNCHANGED <<db, minted>> /\ credFile' = [state |-> "written", token |-> minted]
        /\ told' = told \cup {minted}
        /\ Turn(r, "ready", boot[r].file) /\ boot[r].at = "write_file"
    BY <1>0, <1>8, ProvisioningTurns DEF WriteFile
  <2>2. minted \in db.tokens /\ db.workspace /\ credFile = [state |-> "empty", token |-> 0]
    BY <1>0, <2>1 DEF StageFits
  <2>3. told = {}
    BY <1>0, <2>2 DEF FileFits, Absent
  <2>4. FileFits' /\ StageFits("ready")'
    BY <1>0, <1>1, <1>2, <2>1, <2>2, <2>3 DEF FileFits, StageFits, LocalStages, Absent
  <2> QED
    BY <1>3, <2>1, <2>2, <2>4
<1> QED
  BY <1>4, <1>5, <1>6, <1>7, <1>8 DEF Provisioning

LEMMA ProvisionedStep == Typed /\ Provisioned /\ [Next]_vars => Provisioned'
<1> SUFFICES ASSUME Typed, Provisioned, [Next]_vars PROVE Provisioned'
  OBVIOUS
<1>0. BootTyped /\ \A r \in Replicas : boot[r].file \in Nat
  BY DEF Typed, BootTyped
<1>1. ASSUME NEW s \in Sessions, Need(s) \/ Refresh(s) PROVE Provisioned'
  <2>1. UNCHANGED <<local, boot, credFile, db, minted, told>>
    BY <1>1, RefreshMoves DEF Typed, Starting, disk
  <2> QED
    BY <2>1 DEF Provisioned, FileFits, OneProcess, StageFits
<1>2. ASSUME NEW r \in Replicas, Begin(r), ~Provisioning(r) PROVE Provisioned'
  <2>1. UNCHANGED <<local, credFile, db, minted, told>>
    BY <1>2, DiskKept, ServingKept, BeginParts
  <2>2. CASE Opening(r)
    <3>1. PICK stage \in {"off", "key", "write_key", "table", "creating", "check"}, file \in Nat :
            Turn(r, stage, file)
      BY <1>0, <2>2, OpeningTurns
    <3>2. boot[r].at # "off" \/ (local => \A q \in Replicas : boot[q].at = "off")
      BY <1>0, <2>2, OpeningTurns
    <3> QED
      BY <2>1, <3>1, <3>2, TurnProvisioned DEF LocalStages
  <2>3. CASE Check(r)
    <3>1. PICK stage \in {"check", "run", "provision", "ready"}, file \in Nat :
            /\ Turn(r, stage, file)
            /\ stage = "provision" => local
            /\ stage = "ready" => ~local
      BY <1>0, <2>3, CheckTurns
    <3>2. boot[r].at # "off"
      BY <1>0, <2>3, CheckTurns
    <3> QED
      BY <2>1, <3>1, <3>2, TurnProvisioned DEF LocalStages
  <2>4. CASE Run(r) \/ Commit(r)
    <3>1. PICK stage \in {"off", "ran", "check"}, file \in Nat : Turn(r, stage, file)
      BY <1>0, <2>4, RunTurns, CommitTurns
    <3>2. boot[r].at # "off"
      BY <1>0, <2>4, RunTurns, CommitTurns
    <3> QED
      BY <2>1, <3>1, <3>2, TurnProvisioned DEF LocalStages
  <2> QED
    BY <1>2, <2>2, <2>3, <2>4, BeginParts
<1>3. ASSUME NEW r \in Replicas, Crash(r) PROVE Provisioned'
  <2>1. UNCHANGED <<local, credFile, db, minted, told>>
    BY <1>3, DiskKept DEF Crash
  <2>2. boot[r].at # "off" /\ Turn(r, "off", boot[r].file)
    BY <1>0, <1>3, CrashTurns
  <2> QED
    BY <2>1, <2>2, TurnProvisioned DEF LocalStages
<1>4. CASE UNCHANGED vars
  BY <1>4 DEF vars, disk, Provisioned, FileFits, OneProcess, StageFits
<1>5. ASSUME NEW r \in Replicas, CloseIdle(r) PROVE Provisioned'
  BY <1>5 DEF CloseIdle, Starting, disk, Provisioned, FileFits, OneProcess, StageFits
<1> QED
  BY <1>1, <1>2, <1>3, <1>4, <1>5, ProvisioningKeeps DEF Next

\* Database: wherever the first starts of a local instance died, every start
\* announces one and the same credential of its database, or none, and then
\* over a file that was cut short.
THEOREM CredentialUsable == Spec => []LocalUsable
<1>1. Init => Provisioned
  BY DEF Init, Provisioned, FileFits, OneProcess, StageFits, LocalStages
<1>2. Provisioned => LocalUsable
  <2> SUFFICES ASSUME Provisioned PROVE LocalUsable
    OBVIOUS
  <2>1. told \subseteq db.tokens
    BY DEF Provisioned, FileFits
  <2>2. Cardinality(told) <= 1
    <3>1. CASE told = {}
      BY <3>1, FS_EmptySet
    <3>2. CASE told = {credFile.token}
      <4>1. Cardinality(told) = 1
        BY <3>2, FS_Singleton
      <4> QED
        BY <4>1
    <3> QED
      BY <3>1, <3>2 DEF Provisioned, FileFits
  <2>3. ASSUME local, NEW r \in Replicas, boot[r].at = "ready"
        PROVE  told = {credFile.token} \/ (credFile.state = "empty" /\ told = {})
    <3>1. credFile # Absent
      BY <2>3 DEF Provisioned, StageFits
    <3> QED
      BY <3>1 DEF Provisioned, FileFits
  <2> QED
    BY <2>1, <2>2, <2>3 DEF LocalUsable, AtStage
<1>3. Init => Typed /\ PoolKept
  BY InitTyped
<1> QED
  BY <1>1, <1>2, <1>3, ProvisionedStep, TypedStep, PTL DEF Spec
=============================================================================
