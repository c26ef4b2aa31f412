-------------------------- MODULE ManifestExecutor --------------------------
(***************************************************************************)
(* The executor behind every manifest (adapters/providers/manifest.ts):    *)
(* one agent uses one tool, page after page, or a workspace has its key    *)
(* checked.  The executor validates, builds a request, follows redirects   *)
(* and reads the answer; the vendor and the agent are external.            *)
(*                                                                         *)
(* A vendor's list holds items 1 .. top, newest first, and grows at the    *)
(* front.  A cursor is a page number (page style) or the last item of the  *)
(* page before (id and cursor styles); 0 is no cursor.                     *)
(***************************************************************************)
EXTENDS Integers, Sequences, FiniteSets

CONSTANTS
  Known,      \* the manifests in use: prefix -> <<manifest, tools>> (Providers)
  InQuery,    \* arguments declared in: 'query'
  Defaulted,  \* required arguments that have a default
  PageSize,   \* items on a full page
  MaxItems,   \* how long a vendor's list grows
  MaxFaults,  \* how often a vendor asks the agent to slow down
  Now         \* the wall clock, in seconds

ASSUME BoundAssumption == PageSize \in Nat \ {0} /\ {MaxItems, MaxFaults, Now} \subseteq Nat

VARIABLES
  task,       \* what the agent wants: a tool and its arguments, or a key check
  pc,         \* ready, sending, answered, ended
  cursor,     \* the agent's cursor
  request,    \* which arguments the request carries, and where
  hop,        \* redirects it has followed
  home,       \* is it at the manifest's origin?
  secret,     \* does it carry the credential?
  strayed,    \* history: has it left that origin?
  result,     \* what the agent is told
  cause,      \* history: what the vendor meant
  performed,  \* history: how often the vendor carried a write out
  top,        \* the newest item of the vendor's list
  first,      \* history: the newest item when the walk began
  seen,       \* history: how often the agent got each item, up to 2
  faults

list == <<top, first, seen, faults>>
wire == <<request, hop, home, secret, strayed>>
vars == <<task, pc, cursor, wire, result, cause, performed, list>>

MAX_HOPS == 5
DEFAULT_RETRY_AFTER == 60
Items == 1 .. MaxItems

-----------------------------------------------------------------------------
(* What is asked for *)

KeyCheck == "validateKey"
\* validate.request, as if it were a tool.
Check == [method |-> "GET", write |-> FALSE, path |-> {}, needs |-> {}, takes |-> {},
          paged |-> FALSE, selector |-> {}, file |-> {}, binary |-> FALSE]
ToolOf(p, name) == IF name = KeyCheck THEN Check ELSE Known[p][2][name]
M == Known[task.prefix][1]
T == ToolOf(task.prefix, task.tool)

\* Where an upload's bytes come from: the caller, a stored file, both, neither,
\* or a file that is gone.
Sources == {"inline", "stored", "both", "neither", "gone"}
Media == {"content", "mime_type"}

\* The arguments a caller may give, an upload's bytes apart: what the tool
\* needs, everything it takes, or one too few.
Needed(tool) == (tool.path \cup tool.needs) \ Defaulted
Everything(tool) ==
  (tool.path \cup tool.needs \cup tool.takes)
    \ (IF tool.file = {} THEN {} ELSE {"content"} \cup tool.file)
Arguments(tool) ==
  {Needed(tool), Everything(tool) \cup Needed(tool)}
    \cup {Needed(tool) \ {a} : a \in Needed(tool)}

\* The arguments that say where the bytes are: the bytes, the id of a file, both.
Given(tool, source) ==
  (IF source \in {"inline", "both"} THEN {"content"} ELSE {})
    \cup (IF source \in {"stored", "both", "gone"} THEN tool.file ELSE {})

TasksOf(p, name) ==
  LET tool == ToolOf(p, name)
  IN  {[prefix |-> p, tool |-> name, args |-> a \cup Given(tool, s), source |-> s] :
         a \in Arguments(tool), s \in IF tool.file = {} THEN {"none"} ELSE Sources}
Checks(p) == IF Known[p][1].validate THEN {KeyCheck} ELSE {}
Tasks ==
  UNION {UNION {TasksOf(p, name) : name \in DOMAIN Known[p][2] \cup Checks(p)} : p \in DOMAIN Known}

NoRequest == [query |-> {}, body |-> {}, media |-> {}]
NoResult == [code |-> "none", more |-> FALSE, next |-> 0, wait |-> 0]
Failed(code) == [NoResult EXCEPT !.code = code]
Causes == {"none", "fine", "limited", "dead", "scope", "off", "unpaid", "broken"}
Codes == {"ok", "invalid_arguments", "reauth_required", "credential_scope_denied",
          "rate_limited", "upstream_error", "upstream_timeout"}

\* The key check and the tools of a prefix.
Offers(p) == {ToolOf(p, name) : name \in DOMAIN Known[p][2] \cup Checks(p)}

\* What the manifests keep to: a list pages in one of three styles, and one whose
\* vendor says outright whether there is more lets no caller choose its fields.
ASSUME ToolAssumption ==
  /\ "paging" \notin InQuery
  /\ \A p \in DOMAIN Known : KeyCheck \notin DOMAIN Known[p][2]
  /\ \A p \in DOMAIN Known : \A tool \in Offers(p) :
       /\ tool.paged => Known[p][1].paging.style \in {"page", "id", "cursor"}
       /\ tool.paged /\ Known[p][1].paging.flag => tool.selector = {}

\* A 403 that has a code of its own is the vendor's failure, and a vendor whose
\* keys are checked does not ask for a reconnect in a body that succeeds.
ASSUME ErrorAssumption ==
  \A p \in DOMAIN Known :
    LET errors == Known[p][1].errors
    IN  /\ errors.forbidden \subseteq {"upstream_error", "upstream_timeout"}
        /\ "unlisted" \notin DOMAIN errors.codes
        /\ \A r \in DOMAIN errors.codes : errors.codes[r] \in Codes
        /\ DOMAIN errors.after \subseteq Nat
        /\ Known[p][1].validate /\ 200 \in errors.failsOn =>
             \A r \in DOMAIN errors.codes : errors.codes[r] # "reauth_required"

Requests ==
  [query : SUBSET (task.args \cup {"paging"}), body : SUBSET (task.args \cup {"paging"}),
   media : SUBSET Media]

TypeOK ==
  /\ task \in TasksOf(task.prefix, task.tool)
  /\ pc \in {"ready", "sending", "answered", "ended"}
  /\ cursor \in Int
  /\ request \in Requests
  /\ hop \in 0 .. MAX_HOPS
  /\ {home, secret, strayed} \subseteq BOOLEAN
  /\ result \in [code : Codes \cup {"none"}, more : BOOLEAN, next : Nat, wait : Nat]
  /\ cause \in Causes
  /\ performed \in Nat
  /\ top \in 0 .. MaxItems /\ first \in 0 .. top
  /\ seen \in [Items -> 0 .. 2]
  /\ faults \in 0 .. MaxFaults

\* A cursor of -1 is none that a provider issued.
Init ==
  /\ task \in Tasks
  /\ pc = "ready"
  /\ cursor \in IF T.paged THEN {0, -1} ELSE {0}
  /\ request = NoRequest
  /\ hop = 0
  /\ home = TRUE
  /\ secret = FALSE
  /\ strayed = FALSE
  /\ result = NoResult
  /\ cause = "none"
  /\ performed = 0
  /\ top \in IF T.paged THEN 0 .. MaxItems ELSE {0}
  /\ first = top
  /\ seen = [i \in Items |-> 0]
  /\ faults = 0

-----------------------------------------------------------------------------
(* The call *)

\* validate, then resolveFileArgument, then readCursor.
Acceptable ==
  /\ Needed(T) \subseteq task.args
  /\ task.source \in {"none", "inline", "stored"}
  /\ T.paged /\ M.paging.style = "page" => cursor >= 0

ByMethod == IF T.method \in {"GET", "DELETE"} THEN "query" ELSE "body"
Where(arg) == IF arg \in InQuery THEN "query" ELSE ByMethod

\* resolveFileArgument: the id of a stored file becomes its bytes and their type.
Resolved ==
  IF T.file \cap task.args = {} THEN task.args ELSE (task.args \ T.file) \cup Media

\* What is not in the path goes to the query or the body, the paging parameters
\* with it; an upload's bytes and their type travel as media.
BuildRequest ==
  LET media == IF T.file = {} THEN {} ELSE Media
      loose == (Resolved \ (T.path \cup media)) \cup (IF T.paged THEN {"paging"} ELSE {})
  IN  [query |-> {a \in loose : Where(a) = "query"},
       body |-> {a \in loose : Where(a) = "body"},
       media |-> Resolved \cap media]

\* The call is over, and its request with it.
Answer(res) ==
  /\ result' = res
  /\ pc' = "answered"
  /\ request' = NoRequest
  /\ hop' = 0
  /\ home' = TRUE
  /\ secret' = FALSE
  /\ strayed' = FALSE

\* The request leaves for the manifest's origin with the credential.
Send ==
  /\ pc = "ready"
  /\ Acceptable
  /\ request' = BuildRequest
  /\ hop' = 0
  /\ home' = TRUE
  /\ secret' = TRUE
  /\ strayed' = FALSE
  /\ pc' = "sending"
  /\ cause' = "none"
  /\ UNCHANGED <<task, cursor, result, performed, list>>

RefuseArguments ==
  /\ pc = "ready"
  /\ ~Acceptable
  /\ Answer(Failed("invalid_arguments"))
  /\ cause' = "none"
  /\ UNCHANGED <<task, cursor, performed, list>>

-----------------------------------------------------------------------------
(* Redirects *)

Fetched == pc = "sending"
Perform(times) == performed' = performed + times

\* Mutant: a redirect is followed whatever the method.
FollowAny(origin) ==
  /\ Fetched
  /\ hop < MAX_HOPS
  /\ hop' = hop + 1
  /\ home' = origin
  /\ secret' = (secret /\ home = origin)
  /\ strayed' = (strayed \/ ~origin)
  /\ Perform(IF T.write /\ performed < 2 THEN 1 ELSE 0)
  /\ UNCHANGED <<task, pc, cursor, request, result, cause, list>>

\* Mutant: nothing counts the hops.
FollowOn(origin) ==
  /\ Fetched
  /\ T.method = "GET"
  /\ hop' = hop + 1
  /\ home' = origin
  /\ secret' = (secret /\ home = origin)
  /\ strayed' = (strayed \/ ~origin)
  /\ UNCHANGED <<task, pc, cursor, request, result, cause, performed, list>>

\* Mutant: the headers are rebuilt at every hop, by where it goes.
FollowRebuilt(origin) ==
  /\ Fetched
  /\ T.method = "GET"
  /\ hop < MAX_HOPS
  /\ hop' = hop + 1
  /\ home' = origin
  /\ secret' = origin
  /\ strayed' = (strayed \/ ~origin)
  /\ UNCHANGED <<task, pc, cursor, request, result, cause, performed, list>>

\* A redirect of a GET is followed, and the credential stays behind when the
\* origin changes.  origin: is the next address the manifest's own?
Follow(origin) ==
  /\ Fetched
  /\ T.method = "GET"
  /\ hop < MAX_HOPS
  /\ hop' = hop + 1
  /\ home' = origin
  /\ secret' = (secret /\ home = origin)
  /\ strayed' = (strayed \/ ~origin)
  /\ UNCHANGED <<task, pc, cursor, request, result, cause, performed, list>>

TooManyRedirects ==
  /\ Fetched
  /\ T.method = "GET"
  /\ hop = MAX_HOPS
  /\ Answer(Failed("upstream_error"))
  /\ cause' = "broken"
  /\ UNCHANGED <<task, cursor, performed, list>>

\* Any other method: the redirect is the answer, and it is not ok.  The vendor
\* may have done what it was asked and point at the outcome.
RedirectIsAnswer ==
  /\ Fetched
  /\ T.method # "GET"
  /\ Answer(Failed("upstream_error"))
  /\ cause' = "broken"
  /\ \E done \in {0, 1} : Perform(IF T.write THEN done ELSE 0)
  /\ UNCHANGED <<task, cursor, list>>

-----------------------------------------------------------------------------
(* Failures *)

\* How each vendor signals what it means: a status, the bodyFailure marker with
\* its reason, whether the header of the rateLimited rule says none is left, and
\* how long its headers say to wait: not at all, 5 s, or until 2 s from now.
Signal(status, marked, reason, exhausted) ==
  [status |-> status, marked |-> marked, reason |-> reason, exhausted |-> exhausted,
   after |-> <<>>]
Plain(status) == Signal(status, FALSE, "none", FALSE)
ReasonsFor(code) == {r \in DOMAIN M.errors.codes : M.errors.codes[r] = code}
Marked(code) == {Signal(s, TRUE, r, FALSE) : s \in M.errors.failsOn, r \in ReasonsFor(code)}
Unlisted == {Signal(s, TRUE, "unlisted", FALSE) : s \in M.errors.failsOn}
Waits == [DOMAIN M.errors.after -> {0, 5, Now + 2}]

Signals(meaning) ==
  CASE meaning = "limited" ->
         {[s EXCEPT !.after = w] :
            s \in {Plain(429)} \cup Marked("rate_limited")
                    \cup {Signal(x, FALSE, "none", TRUE) : x \in M.errors.limited}, w \in Waits}
    [] meaning = "dead" ->
         {Plain(401)} \cup (IF 200 \in M.errors.failsOn THEN Marked("reauth_required") ELSE {})
           \cup (IF M.errors.forbidden = {} THEN {Plain(403)} ELSE {})
    [] meaning = "scope" ->
         Marked("credential_scope_denied")
           \cup (IF 403 \in M.errors.failsOn THEN Marked("reauth_required") ELSE {})
    [] meaning = "off" ->
         IF M.errors.forbidden = {} THEN {}
         ELSE {Plain(403)} \cup (IF 403 \in M.errors.failsOn THEN Unlisted ELSE {})
    [] meaning = "unpaid" -> {Plain(402)}
    [] meaning = "broken" -> {Plain(404), Plain(500)} \cup Unlisted

\* What the code makes of one: the rules in the order of throwIfFailed.
CredentialCode == IF task.tool = KeyCheck THEN "invalid_arguments" ELSE "reauth_required"
The(set, otherwise) == IF set = {} THEN otherwise ELSE CHOOSE x \in set : TRUE

\* Mutant: the rateLimited rule is gone, and a 403 is a 403.
CodeUnlimited(s) ==
  IF s.marked
  THEN IF s.reason \in DOMAIN M.errors.codes THEN M.errors.codes[s.reason] ELSE "upstream_error"
  ELSE IF s.status = 401 THEN CredentialCode
  ELSE IF s.status = 403 THEN The(M.errors.forbidden, CredentialCode)
  ELSE IF s.status = 429 THEN "rate_limited"
  ELSE "upstream_error"

Code(s) ==
  IF s.marked
  THEN IF s.reason \in DOMAIN M.errors.codes THEN M.errors.codes[s.reason] ELSE "upstream_error"
  ELSE IF s.status \in M.errors.limited /\ s.exhausted THEN "rate_limited"
  ELSE IF s.status = 401 THEN CredentialCode
  ELSE IF s.status = 403 THEN The(M.errors.forbidden, CredentialCode)
  ELSE IF s.status = 429 THEN "rate_limited"
  ELSE "upstream_error"

Seconds(s, i) == IF M.errors.after[i].as = "epoch" THEN s.after[i] - Now ELSE s.after[i]

\* retryAfterFrom: the first header that names a time still to come.
RetryAfter(s) ==
  LET telling == {i \in DOMAIN s.after : s.after[i] > 0 /\ Seconds(s, i) > 0}
      i == CHOOSE i \in telling : \A j \in telling : i <= j
  IN  IF telling = {} THEN DEFAULT_RETRY_AFTER ELSE Seconds(s, i)

Verdict(s) ==
  [NoResult EXCEPT !.code = Code(s), !.wait = IF Code(s) = "rate_limited" THEN RetryAfter(s) ELSE 0]

\* The vendor refuses, and does not carry the request out.
Refused(meaning) ==
  /\ Fetched
  /\ meaning = "limited" => faults < MaxFaults
  /\ \E v \in {Verdict(s) : s \in Signals(meaning)} : Answer(v)
  /\ cause' = meaning
  /\ faults' = IF meaning = "limited" THEN faults + 1 ELSE faults
  /\ UNCHANGED <<task, cursor, performed, top, first, seen>>

\* The fetch rejects, or a body that should be JSON is not: mapError, and the
\* catch of validateKey.
Lost ==
  /\ Fetched
  /\ Answer(Failed("upstream_error"))
  /\ cause' = "broken"
  /\ \E done \in {0, 1} : Perform(IF T.write THEN done ELSE 0)
  /\ UNCHANGED <<task, cursor, list>>

KeyTimeout ==
  /\ Fetched
  /\ task.tool = KeyCheck
  /\ Answer(Failed("upstream_timeout"))
  /\ cause' = "broken"
  /\ UNCHANGED <<task, cursor, performed, list>>

-----------------------------------------------------------------------------
(* Answers *)

Success == [NoResult EXCEPT !.code = "ok"]

\* One object, or bytes the gateway can carry.
Deliver ==
  /\ Fetched
  /\ ~T.paged
  /\ Answer(Success)
  /\ cause' = "fine"
  /\ Perform(IF T.write THEN 1 ELSE 0)
  /\ UNCHANGED <<task, cursor, list>>

\* Bytes past MAX_BINARY_BYTES, as declared or as they come.
TooBig ==
  /\ Fetched
  /\ T.binary
  /\ Answer(Failed("invalid_arguments"))
  /\ cause' = "fine"
  /\ UNCHANGED <<task, cursor, performed, list>>

\* The vendor's pages.  It reads the paging parameters where the method puts
\* them, and starts from the front when they are not there.
Heard ==
  IF "paging" \in (IF ByMethod = "query" THEN request.query ELSE request.body) THEN cursor ELSE 0
Least(a, b) == IF a <= b THEN a ELSE b
Newest ==
  CASE Heard = 0 -> top
    [] Heard > 0 /\ M.paging.style = "page" ->
         IF top >= (Heard - 1) * PageSize THEN top - (Heard - 1) * PageSize ELSE 0
    [] OTHER -> Heard - 1
Full == Least(PageSize, Newest)

\* A page holds items newest - size + 1 .. newest.  Only a cursor vendor sends
\* short pages, or a cursor with nothing behind it; one that says outright
\* whether there is more leaves its cursor on the last page.  A caller that
\* chose its fields may have left the cursor out.
Pages ==
  LET short == M.paging.style = "cursor"
      sizes == IF short /\ Full > 0 THEN 1 .. Full ELSE {Full}
      last(k) == Newest - k + 1
      tokens(k) ==
        (IF Newest > k \/ M.paging.flag THEN {last(k)}
         ELSE IF k > 0 THEN {0, last(k)} ELSE {0})
        \cup (IF T.selector # {} /\ T.selector \subseteq task.args THEN {0} ELSE {})
  IN  UNION {[newest : {Newest}, size : {k}, more : {Newest > k}, token : tokens(k)] : k \in sizes}

\* Mutant: a cursor means that there is more.
MoreByCursor(page) ==
  CASE M.paging.style = "page" -> page.size = PageSize
    [] M.paging.style = "id" ->
         page.size > 0 /\ IF M.paging.flag THEN page.more ELSE page.size = PageSize
    [] M.paging.style = "cursor" -> page.token # 0

\* hasMore: the vendor's own word, or else a full page, or a cursor.
More(page) ==
  CASE M.paging.style = "page" -> page.size = PageSize
    [] M.paging.style = "id" ->
         page.size > 0 /\ IF M.paging.flag THEN page.more ELSE page.size = PageSize
    [] M.paging.style = "cursor" -> IF M.paging.flag THEN page.more ELSE page.token # 0

\* Mutant: no cursor counts as page 0.
NextCursorFromZero(page) ==
  CASE M.paging.style = "page" -> cursor + 1
    [] M.paging.style = "id" -> page.newest - page.size + 1
    [] M.paging.style = "cursor" -> page.token

\* nextCursor: the next number, the last raw item, or the vendor's token.
NextCursor(page) ==
  CASE M.paging.style = "page" -> (IF cursor = 0 THEN 1 ELSE cursor) + 1
    [] M.paging.style = "id" -> page.newest - page.size + 1
    [] M.paging.style = "cursor" -> page.token

ReadPage(page) ==
  [Success EXCEPT !.more = More(page), !.next = IF More(page) THEN NextCursor(page) ELSE 0]

DeliverPage ==
  /\ Fetched
  /\ T.paged
  /\ Heard >= 0
  /\ \E page \in Pages :
       /\ Answer(ReadPage(page))
       /\ seen' = [i \in Items |->
                     IF i \in page.newest - page.size + 1 .. page.newest
                     THEN Least(seen[i] + 1, 2) ELSE seen[i]]
  /\ cause' = "fine"
  /\ UNCHANGED <<task, cursor, performed, top, first, faults>>

-----------------------------------------------------------------------------
(* The agent and the vendor's list *)

Continue ==
  /\ pc = "answered"
  /\ result.more
  /\ cursor' = result.next
  /\ pc' = "ready"
  /\ UNCHANGED <<task, wire, result, cause, performed, list>>

Retry ==
  /\ pc = "answered"
  /\ result.code = "rate_limited"
  /\ pc' = "ready"
  /\ UNCHANGED <<task, cursor, wire, result, cause, performed, list>>

Finish ==
  /\ pc = "answered"
  /\ ~result.more
  /\ result.code # "rate_limited"
  /\ pc' = "ended"
  /\ UNCHANGED <<task, cursor, wire, result, cause, performed, list>>

\* Between calls: an item that arrives during one might as well have come before.
Arrive ==
  /\ pc = "ready"
  /\ T.paged
  /\ top < MaxItems
  /\ top' = top + 1
  /\ UNCHANGED <<task, pc, cursor, wire, result, cause, performed, first, seen, faults>>

Step ==
  \/ Send \/ RefuseArguments
  \/ \E origin \in BOOLEAN : Follow(origin)
  \/ TooManyRedirects \/ RedirectIsAnswer
  \/ \E meaning \in Causes \ {"none", "fine"} : Refused(meaning)
  \/ Lost \/ KeyTimeout
  \/ Deliver \/ TooBig \/ DeliverPage
  \/ Continue \/ Retry \/ Finish

Next == Step \/ Arrive

\* The executor runs on, and each fetch answers or rejects.
Fairness == WF_vars(Step)

Spec == Init /\ [][Next]_vars /\ Fairness

-----------------------------------------------------------------------------
(* Properties *)

\* The comment of followRedirects: a redirect to another origin does not carry
\* the credential there, on any chain of redirects, one back home included.
SecretStaysHome == Fetched /\ secret => home /\ ~strayed

\* A write is carried out once at most, and an agent told invalid_arguments or
\* rate_limited may call again: nothing was done.
WritesOnce ==
  T.write =>
    /\ performed <= 1
    /\ pc = "answered" /\ result.code \in {"invalid_arguments", "rate_limited"} => performed = 0

\* What the agent is told to do is right for what the vendor meant: wait when it
\* is limited, reconnect only when the credential or its scope is at fault.
VerdictRight ==
  pc = "answered" =>
    /\ cause = "limited" => result.code = "rate_limited" /\ result.wait > 0
    /\ cause = "dead" => result.code = CredentialCode
    /\ cause = "scope" => result.code \in {"reauth_required", "credential_scope_denied"}
    /\ cause \in {"off", "unpaid", "broken"} => result.code \in {"upstream_error", "upstream_timeout"}
    /\ result.code = "reauth_required" => cause \in {"dead", "scope"}

\* A walk that ends well has got every item there was when it began, and under
\* the id and cursor styles none twice, whatever arrives meanwhile.  A caller
\* that chose its own fields may have left the cursor out.
WalkExact ==
  T.paged /\ pc = "ended" /\ result.code = "ok" =>
    /\ T.selector \cap task.args = {} => \A i \in 1 .. first : seen[i] > 0
    /\ M.paging.style # "page" \/ top = first => \A i \in Items : seen[i] < 2

\* A walk ends: no vendor here leaves an agent asking for pages for ever.
WalkEnds == <>(pc = "ended")
=============================================================================
