----------------------- MODULE ManifestExecutorProofs -----------------------
(***************************************************************************)
(* Proofs about ManifestExecutor, for any manifests, any bound on the      *)
(* vendor's list and its faults.                                           *)
(***************************************************************************)
EXTENDS ManifestExecutor, WellFoundedInduction, TLAPS

\* What every answer makes of the wire.
LEMMA AnswerClears ==
  ASSUME NEW res, Answer(res)
  PROVE  pc' = "answered" /\ result' = res /\ home' = TRUE /\ secret' = FALSE /\ strayed' = FALSE
BY DEF Answer

-----------------------------------------------------------------------------
(* The credential stays with its origin *)

WireTyped == home \in BOOLEAN /\ secret \in BOOLEAN /\ strayed \in BOOLEAN
WireInv == WireTyped /\ (secret => home /\ ~strayed)

LEMMA WireStep == WireInv /\ [Next]_vars => WireInv'
<1> SUFFICES ASSUME WireInv, [Next]_vars PROVE WireInv'
  OBVIOUS
<1> USE DEF WireInv, WireTyped
<1>1. CASE Send
  BY <1>1 DEF Send
<1>2. ASSUME NEW origin \in BOOLEAN, Follow(origin) PROVE WireInv'
  BY <1>2 DEF Follow
<1>3. CASE \E res : Answer(res)
  BY <1>3, AnswerClears
<1>4. CASE UNCHANGED wire
  BY <1>4 DEF wire
<1>5. CASE DeliverPage
  BY <1>5, <1>3 DEF DeliverPage
<1>6. ASSUME NEW meaning, Refused(meaning) PROVE WireInv'
  BY <1>6, <1>3 DEF Refused
<1>7. CASE RefuseArguments \/ TooManyRedirects \/ RedirectIsAnswer \/ Lost \/ KeyTimeout
             \/ Deliver \/ TooBig
  BY <1>7, <1>3
     DEF RefuseArguments, TooManyRedirects, RedirectIsAnswer, Lost, KeyTimeout, Deliver, TooBig
<1>8. CASE Continue \/ Retry \/ Finish \/ Arrive \/ UNCHANGED vars
  BY <1>8, <1>4 DEF Continue, Retry, Finish, Arrive, vars
<1> QED
  BY <1>1, <1>2, <1>5, <1>6, <1>7, <1>8 DEF Next, Step

\* ManifestExecutor: under any manifests and along any chain of redirects, the
\* credential goes to no other origin, and does not come back from one.
THEOREM KeepsSecret == Spec => []SecretStaysHome
<1>1. Init => WireInv
  BY DEF Init, WireInv, WireTyped
<1>2. WireInv => SecretStaysHome
  BY DEF WireInv, SecretStaysHome
<1> QED
  BY <1>1, <1>2, WireStep, PTL DEF Spec

-----------------------------------------------------------------------------
(* A write is carried out once *)

\* Nothing is done before an answer, and an answer that something was done is
\* the last: it has no next page and asks for no repetition.
WriteInv ==
  T.write =>
    /\ performed \in {0, 1}
    /\ pc \in {"ready", "sending"} => performed = 0
    /\ pc = "answered" /\ performed = 1 =>
         ~result.more /\ result.code \notin {"invalid_arguments", "rate_limited"}

LEMMA ToolKept == [Next]_vars => UNCHANGED <<task, T>>
<1> SUFFICES ASSUME [Next]_vars PROVE task' = task
  BY DEF T
<1>1. CASE UNCHANGED vars
  BY <1>1 DEF vars
<1>2. CASE Arrive
  BY <1>2 DEF Arrive
<1>3. CASE Step
  BY <1>3 DEF Step, Send, RefuseArguments, Follow, TooManyRedirects, RedirectIsAnswer, Refused,
     Lost, KeyTimeout, Deliver, TooBig, DeliverPage, Continue, Retry, Finish
<1> QED
  BY <1>1, <1>2, <1>3 DEF Next

LEMMA WriteStep == WriteInv /\ [Next]_vars => WriteInv'
<1> SUFFICES ASSUME WriteInv, [Next]_vars, T.write PROVE WriteInv'
  BY ToolKept DEF WriteInv
<1>0. T' = T /\ performed \in {0, 1}
  BY ToolKept DEF WriteInv
<1>1. CASE Send \/ \E origin \in BOOLEAN : Follow(origin)
  BY <1>0, <1>1 DEF Send, Follow, WriteInv
<1>2. ASSUME performed' = performed, NEW res, Answer(res), pc \in {"ready", "sending"}
      PROVE  WriteInv'
  BY <1>0, <1>2, AnswerClears DEF WriteInv
<1>3. CASE RefuseArguments \/ TooManyRedirects \/ KeyTimeout \/ TooBig
  BY <1>2, <1>3 DEF RefuseArguments, TooManyRedirects, KeyTimeout, TooBig, Fetched
<1>4. ASSUME NEW meaning, Refused(meaning) PROVE WriteInv'
  BY <1>2, <1>4 DEF Refused, Fetched
<1>5. CASE DeliverPage
  BY <1>2, <1>5 DEF DeliverPage, Fetched
<1>6. ASSUME NEW done \in {0, 1}, NEW code \in {"ok", "upstream_error"}, NEW res,
             pc = "sending", performed' = performed + done,
             Answer(res), res.code = code, res.more = FALSE
      PROVE  WriteInv'
  <2>1. performed = 0
    BY <1>6 DEF WriteInv
  <2>2. pc' = "answered" /\ result' = res
    BY <1>6, AnswerClears
  <2>3. performed' \in {0, 1}
    BY <1>6, <2>1
  <2>4. ~result'.more /\ result'.code \notin {"invalid_arguments", "rate_limited"}
    BY <1>6, <2>2
  <2> QED
    BY <1>0, <2>2, <2>3, <2>4 DEF WriteInv
<1>7. CASE RedirectIsAnswer \/ Lost
  <2>1. Failed("upstream_error").code = "upstream_error" /\ Failed("upstream_error").more = FALSE
    BY DEF Failed, NoResult
  <2>2. PICK done \in {0, 1} : performed' = performed + done
    BY <1>7 DEF RedirectIsAnswer, Lost, Perform
  <2>3. Answer(Failed("upstream_error")) /\ pc = "sending"
    BY <1>7 DEF RedirectIsAnswer, Lost, Fetched
  <2> QED
    BY <1>6, <2>1, <2>2, <2>3
<1>8. CASE Deliver
  <2>1. Success.code = "ok" /\ Success.more = FALSE
    BY DEF Success, NoResult
  <2>2. performed' = performed + 1 /\ Answer(Success) /\ pc = "sending"
    BY <1>8 DEF Deliver, Perform, Fetched
  <2> QED
    BY <1>6, <2>1, <2>2
<1>9. CASE Continue \/ Retry
  BY <1>0, <1>9 DEF Continue, Retry, WriteInv
<1>10. CASE Finish \/ Arrive \/ UNCHANGED vars
  BY <1>0, <1>10 DEF Finish, Arrive, vars, WriteInv
<1> QED
  BY <1>1, <1>3, <1>4, <1>5, <1>7, <1>8, <1>9, <1>10 DEF Next, Step

\* ManifestExecutor: under any manifests a write is carried out once at most,
\* and not at all when its agent is told to call again.
THEOREM WritesAtMostOnce == Spec => []WritesOnce
<1>1. Init => WriteInv
  BY DEF Init, WriteInv
<1>2. WriteInv => WritesOnce
  BY DEF WriteInv, WritesOnce
<1> QED
  BY <1>1, <1>2, WriteStep, PTL DEF Spec

-----------------------------------------------------------------------------
(* Types *)

\* The task is one of Tasks, and what its tool and its manifest keep to.
LEMMA TaskIs ==
  ASSUME task \in Tasks
  PROVE  /\ task.prefix \in DOMAIN Known /\ T \in Offers(task.prefix)
         /\ task \in TasksOf(task.prefix, task.tool)
         /\ task.tool = KeyCheck => M.validate
<1>1. PICK p \in DOMAIN Known : \E name \in DOMAIN Known[p][2] \cup Checks(p) : task \in TasksOf(p, name)
  BY DEF Tasks
<1>2. PICK name \in DOMAIN Known[p][2] \cup Checks(p) : task \in TasksOf(p, name)
  BY <1>1
<1>3. task.prefix = p /\ task.tool = name
  BY <1>2 DEF TasksOf
<1>4. T = ToolOf(p, name) /\ M = Known[p][1]
  BY <1>3 DEF T, M
<1>5. name = KeyCheck => Known[p][1].validate
  BY <1>2, ToolAssumption DEF Checks
<1> QED
  BY <1>2, <1>3, <1>4, <1>5 DEF Offers

Result == [code : Codes \cup {"none"}, more : BOOLEAN, next : Nat, wait : Nat]

TypeInv == TypeOK /\ task \in Tasks /\ cursor >= -1

LEMMA FailedIs ==
  ASSUME NEW code
  PROVE  /\ Failed(code) = [code |-> code, more |-> FALSE, next |-> 0, wait |-> 0]
         /\ Success = [code |-> "ok", more |-> FALSE, next |-> 0, wait |-> 0]
<1>1. PICK n : n = [code |-> "none", more |-> FALSE, next |-> 0, wait |-> 0]
  OBVIOUS
<1>2. NoResult = n
  BY <1>1 DEF NoResult
<1>3. PICK f, g : f = [n EXCEPT !.code = code] /\ g = [n EXCEPT !.code = "ok"]
  OBVIOUS
<1>4. f = [code |-> code, more |-> FALSE, next |-> 0, wait |-> 0]
  BY <1>1, <1>3
<1>5. g = [code |-> "ok", more |-> FALSE, next |-> 0, wait |-> 0]
  BY <1>1, <1>3
<1>6. Failed(code) = f /\ Success = g
  BY <1>2, <1>3, Zenon DEF Failed, Success
<1> QED
  BY <1>4, <1>5, <1>6

LEMMA VerdictIs ==
  ASSUME NEW s
  PROVE  Verdict(s) = [code |-> Code(s), more |-> FALSE, next |-> 0,
                       wait |-> IF Code(s) = "rate_limited" THEN RetryAfter(s) ELSE 0]
<1>1. PICK c, w : c = Code(s) /\ w = IF Code(s) = "rate_limited" THEN RetryAfter(s) ELSE 0
  OBVIOUS
<1>2. PICK n : n = [code |-> "none", more |-> FALSE, next |-> 0, wait |-> 0]
  OBVIOUS
<1>3. PICK m : m = [n EXCEPT !.code = c]
  OBVIOUS
<1>4. m = [code |-> c, more |-> FALSE, next |-> 0, wait |-> 0]
  BY <1>2, <1>3
<1>9. PICK o : o = [m EXCEPT !.wait = w]
  OBVIOUS
<1>5. o = [code |-> c, more |-> FALSE, next |-> 0, wait |-> w]
  BY <1>4, <1>9
<1>6. [n EXCEPT !.code = c, !.wait = w] = o
  BY <1>3, <1>9, Zenon
<1>7. NoResult = n
  BY <1>2 DEF NoResult
<1>8. Verdict(s) = [n EXCEPT !.code = c, !.wait = w]
  BY <1>1, <1>7, Zenon DEF Verdict
<1> QED
  BY <1>1, <1>5, <1>6, <1>8, Zenon

LEMMA ReadPageIs ==
  ASSUME NEW page
  PROVE  ReadPage(page) = [code |-> "ok", more |-> More(page),
                           next |-> IF More(page) THEN NextCursor(page) ELSE 0, wait |-> 0]
<1>1. PICK more, next : more = More(page) /\ next = IF More(page) THEN NextCursor(page) ELSE 0
  OBVIOUS
<1>2. PICK n : n = [code |-> "ok", more |-> FALSE, next |-> 0, wait |-> 0]
  OBVIOUS
<1>3. PICK m : m = [n EXCEPT !.more = more]
  OBVIOUS
<1>4. m = [code |-> "ok", more |-> more, next |-> 0, wait |-> 0]
  BY <1>2, <1>3
<1>9. PICK o : o = [m EXCEPT !.next = next]
  OBVIOUS
<1>5. o = [code |-> "ok", more |-> more, next |-> next, wait |-> 0]
  BY <1>4, <1>9
<1>6. [n EXCEPT !.more = more, !.next = next] = o
  BY <1>3, <1>9, Zenon
<1>7. Success = n
  BY <1>2, FailedIs
<1>8. ReadPage(page) = [n EXCEPT !.more = more, !.next = next]
  BY <1>1, <1>7, Zenon DEF ReadPage
<1> QED
  BY <1>1, <1>5, <1>6, <1>8, Zenon

-----------------------------------------------------------------------------
(* What a refusal means *)

LEMMA LeastNat ==
  ASSUME NEW S \in SUBSET Nat, S # {}
  PROVE  \E n \in S : \A m \in S : n <= m
<1> DEFINE R == {pair \in Nat \X Nat : pair[1] < pair[2]}
<1>1. IsWellFoundedOn(R, Nat)
  BY NatLessThanWellFounded DEF OpToRel
<1>2. PICK n \in S : \A m \in S : ~(<<m, n>> \in R)
  <2> HIDE DEF R
  <2> QED
    BY <1>1, WFMin
<1>3. \A m \in S : ~(m < n)
  BY <1>2
<1> HIDE DEF R
<1> QED
  BY <1>3

LEMMA WaitIs ==
  ASSUME task \in Tasks, NEW s, s.after \in Waits \cup {<<>>}
  PROVE  RetryAfter(s) \in Nat /\ RetryAfter(s) > 0
<1>0. DOMAIN M.errors.after \subseteq Nat /\ Now \in Nat
  BY TaskIs, ErrorAssumption, BoundAssumption DEF M
<1>1. PICK telling : telling = {i \in DOMAIN s.after : s.after[i] > 0 /\ Seconds(s, i) > 0}
  OBVIOUS
<1>2. CASE telling = {}
  BY <1>1, <1>2 DEF RetryAfter, DEFAULT_RETRY_AFTER
<1>3. CASE telling # {}
  <2>1. s.after \in Waits
    BY <1>1, <1>3
  <2>2. DOMAIN s.after \subseteq Nat /\ \A i \in DOMAIN s.after : s.after[i] \in Nat
    BY <1>0, <2>1 DEF Waits
  <2>3. telling \in SUBSET Nat
    BY <1>1, <2>2
  <2>4. PICK i : i = CHOOSE j \in telling : \A k \in telling : j <= k
    OBVIOUS
  <2>5. i \in telling
    BY <1>3, <2>3, <2>4, LeastNat
  <2>6. RetryAfter(s) = Seconds(s, i)
    BY <1>1, <1>3, <2>4 DEF RetryAfter
  <2>7. Seconds(s, i) > 0 /\ s.after[i] \in Nat
    BY <1>1, <2>2, <2>5
  <2>8. Seconds(s, i) \in Nat
    BY <1>0, <2>7 DEF Seconds
  <2> QED
    BY <2>6, <2>7, <2>8
<1> QED
  BY <1>2, <1>3

LEMMA Codings ==
  ASSUME task \in Tasks, NEW s, NEW errors, errors = M.errors
  PROVE  /\ s.marked /\ s.reason \in DOMAIN errors.codes => Code(s) = errors.codes[s.reason]
         /\ s.marked /\ s.reason \notin DOMAIN errors.codes => Code(s) = "upstream_error"
         /\ ~s.marked /\ s.status \in errors.limited /\ s.exhausted => Code(s) = "rate_limited"
         /\ ~s.marked /\ ~s.exhausted =>
              /\ s.status = 401 => Code(s) = CredentialCode
              /\ s.status = 403 /\ errors.forbidden = {} => Code(s) = CredentialCode
              /\ s.status = 403 /\ errors.forbidden # {} =>
                   Code(s) \in {"upstream_error", "upstream_timeout"}
              /\ s.status = 429 => Code(s) = "rate_limited"
              /\ s.status \in {402, 404, 500} => Code(s) = "upstream_error"
<1>1. errors.forbidden # {} => The(errors.forbidden, CredentialCode) \in errors.forbidden
  BY DEF The
<1>2. errors.forbidden = {} => The(errors.forbidden, CredentialCode) = CredentialCode
  BY DEF The
<1>3. errors.forbidden \subseteq {"upstream_error", "upstream_timeout"}
  BY TaskIs, ErrorAssumption DEF M
<1> QED
  BY <1>1, <1>2, <1>3 DEF Code

\* What each meaning is signalled by.
LEMMA SignalsAre ==
  ASSUME task \in Tasks, NEW meaning, NEW s \in Signals(meaning), NEW errors, errors = M.errors
  PROVE  /\ meaning = "limited" =>
              /\ s.after \in Waits
              /\ \/ ~s.marked /\ ~s.exhausted /\ s.status = 429
                 \/ s.marked /\ s.reason \in DOMAIN errors.codes
                      /\ errors.codes[s.reason] = "rate_limited"
                 \/ ~s.marked /\ s.exhausted /\ s.status \in errors.limited
         /\ meaning = "dead" =>
              /\ s.after = <<>>
              /\ \/ ~s.marked /\ ~s.exhausted /\ s.status = 401
                 \/ ~s.marked /\ ~s.exhausted /\ s.status = 403 /\ errors.forbidden = {}
                 \/ 200 \in errors.failsOn /\ s.marked /\ s.reason \in DOMAIN errors.codes
                      /\ errors.codes[s.reason] = "reauth_required"
         /\ meaning = "scope" =>
              /\ s.after = <<>>
              /\ s.marked /\ s.reason \in DOMAIN errors.codes
              /\ errors.codes[s.reason] \in {"credential_scope_denied", "reauth_required"}
         /\ meaning \in {"off", "unpaid", "broken"} =>
              /\ s.after = <<>>
              /\ \/ ~s.marked /\ ~s.exhausted /\ s.status = 403 /\ errors.forbidden # {}
                 \/ ~s.marked /\ ~s.exhausted /\ s.status \in {402, 404, 500}
                 \/ s.marked /\ s.reason \notin DOMAIN errors.codes
<1>0. "unlisted" \notin DOMAIN errors.codes
  BY TaskIs, ErrorAssumption DEF M
<1>1. \A status : LET x == Plain(status)
                  IN  /\ x.status = status /\ ~x.marked /\ ~x.exhausted /\ x.after = <<>>
  BY DEF Plain, Signal
<1>2. ASSUME NEW code, NEW x \in Marked(code)
      PROVE  /\ x.marked /\ x.reason \in DOMAIN errors.codes /\ errors.codes[x.reason] = code
             /\ x.after = <<>>
  BY <1>2 DEF Marked, Signal, ReasonsFor
<1>3. ASSUME NEW x \in Unlisted
      PROVE  x.marked /\ x.reason \notin DOMAIN errors.codes /\ x.after = <<>>
  BY <1>0, <1>3 DEF Unlisted, Signal
<1>4. ASSUME meaning = "limited"
      PROVE  /\ s.after \in Waits
             /\ \/ ~s.marked /\ ~s.exhausted /\ s.status = 429
                \/ s.marked /\ s.reason \in DOMAIN errors.codes
                     /\ errors.codes[s.reason] = "rate_limited"
                \/ ~s.marked /\ s.exhausted /\ s.status \in errors.limited
  <2>1. PICK x \in {Plain(429)} \cup Marked("rate_limited")
                     \cup {Signal(y, FALSE, "none", TRUE) : y \in M.errors.limited}, w \in Waits :
          s = [x EXCEPT !.after = w]
    <3>1. PICK Z : Z = {Plain(429)} \cup Marked("rate_limited")
                     \cup {Signal(y, FALSE, "none", TRUE) : y \in M.errors.limited}
      OBVIOUS
    <3>2. Signals("limited") = {[x EXCEPT !.after = w] : x \in Z, w \in Waits}
      BY <3>1 DEF Signals
    <3>3. s \in Signals("limited")
      BY <1>4
    <3>4. \E x \in Z, w \in Waits : s = [x EXCEPT !.after = w]
      BY ONLY <3>2, <3>3
    <3> QED
      BY <3>1, <3>4, Zenon
  <2>2. PICK status, marked, reason, exhausted :
          x = [status |-> status, marked |-> marked, reason |-> reason, exhausted |-> exhausted,
               after |-> <<>>]
    BY <2>1 DEF Plain, Marked, Signal
  <2>3. /\ s.status = x.status /\ s.marked = x.marked /\ s.reason = x.reason
        /\ s.exhausted = x.exhausted /\ s.after = w
    BY <2>1, <2>2
  <2>4. \/ ~x.marked /\ ~x.exhausted /\ x.status = 429
        \/ x.marked /\ x.reason \in DOMAIN errors.codes /\ errors.codes[x.reason] = "rate_limited"
        \/ ~x.marked /\ x.exhausted /\ x.status \in errors.limited
    <3>1. CASE x = Plain(429)
      BY <1>1, <3>1
    <3>2. CASE x \in Marked("rate_limited")
      BY <1>2, <3>2
    <3>3. CASE x \in {Signal(y, FALSE, "none", TRUE) : y \in M.errors.limited}
      BY <3>3 DEF Signal
    <3> QED
      BY <2>1, <3>1, <3>2, <3>3
  <2> QED
    BY <2>1, <2>3, <2>4
<1>5. ASSUME meaning = "dead"
      PROVE  /\ s.after = <<>>
             /\ \/ ~s.marked /\ ~s.exhausted /\ s.status = 401
                \/ ~s.marked /\ ~s.exhausted /\ s.status = 403 /\ errors.forbidden = {}
                \/ 200 \in errors.failsOn /\ s.marked /\ s.reason \in DOMAIN errors.codes
                     /\ errors.codes[s.reason] = "reauth_required"
  <2>1. \/ s = Plain(401) \/ (s = Plain(403) /\ M.errors.forbidden = {})
        \/ (200 \in M.errors.failsOn /\ s \in Marked("reauth_required"))
    BY <1>5 DEF Signals
  <2> QED
    BY <1>1, <1>2, <2>1
<1>6. ASSUME meaning = "scope"
      PROVE  /\ s.after = <<>>
             /\ s.marked /\ s.reason \in DOMAIN errors.codes
             /\ errors.codes[s.reason] \in {"credential_scope_denied", "reauth_required"}
  <2>1. s \in Marked("credential_scope_denied") \cup Marked("reauth_required")
    BY <1>6 DEF Signals
  <2> QED
    BY <1>2, <2>1
<1>7. ASSUME meaning \in {"off", "unpaid", "broken"}
      PROVE  /\ s.after = <<>>
             /\ \/ ~s.marked /\ ~s.exhausted /\ s.status = 403 /\ errors.forbidden # {}
                \/ ~s.marked /\ ~s.exhausted /\ s.status \in {402, 404, 500}
                \/ s.marked /\ s.reason \notin DOMAIN errors.codes
  <2>1. CASE meaning = "off"
    <3>1. s \in Unlisted \/ (s = Plain(403) /\ M.errors.forbidden # {})
      BY <2>1 DEF Signals
    <3> QED
      BY <1>1, <1>3, <3>1
  <2>2. CASE meaning = "unpaid"
    BY <1>1, <2>2 DEF Signals
  <2>3. CASE meaning = "broken"
    <3>1. s \in Unlisted \/ s = Plain(404) \/ s = Plain(500)
      BY <2>3 DEF Signals
    <3> QED
      BY <1>1, <1>3, <3>1
  <2> QED
    BY <1>7, <2>1, <2>2, <2>3
<1> QED
  BY <1>4, <1>5, <1>6, <1>7

\* What a refusal is made of, by what the vendor meant.
LEMMA RefusalIs ==
  ASSUME task \in Tasks, NEW meaning \in Causes \ {"none", "fine"}, NEW s \in Signals(meaning)
  PROVE  /\ Verdict(s) \in Result
         /\ Verdict(s).code \notin {"ok", "none"} /\ Verdict(s).more = FALSE
         /\ meaning = "limited" => Verdict(s).code = "rate_limited" /\ Verdict(s).wait > 0
         /\ meaning = "dead" => Verdict(s).code = CredentialCode
         /\ meaning = "scope" => Verdict(s).code \in {"reauth_required", "credential_scope_denied"}
         /\ meaning \in {"off", "unpaid", "broken"} =>
              Verdict(s).code \in {"upstream_error", "upstream_timeout"}
         /\ Verdict(s).code = "reauth_required" => meaning \in {"dead", "scope"}
         /\ Verdict(s).code = "rate_limited" => meaning = "limited"
<1>1. PICK errors : errors = M.errors
  OBVIOUS
<1>2. s.after \in Waits \cup {<<>>}
  BY <1>1, SignalsAre DEF Causes
<1>3. RetryAfter(s) \in Nat /\ RetryAfter(s) > 0
  BY <1>2, WaitIs
<1>4. CredentialCode \in {"invalid_arguments", "reauth_required"}
  BY DEF CredentialCode
<1>5. meaning = "limited" => Code(s) = "rate_limited"
  BY <1>1, SignalsAre, Codings
<1>6. meaning = "dead" => Code(s) = CredentialCode
  <2> SUFFICES ASSUME meaning = "dead" PROVE Code(s) = CredentialCode
    OBVIOUS
  <2>1. CASE ~s.marked
    BY <1>1, <2>1, SignalsAre, Codings
  <2>2. CASE s.marked
    <3>1. 200 \in errors.failsOn /\ s.reason \in DOMAIN errors.codes
          /\ errors.codes[s.reason] = "reauth_required"
      BY <1>1, <2>2, SignalsAre
    <3>2. Code(s) = "reauth_required"
      BY <1>1, <2>2, <3>1, Codings
    <3>3. ~M.validate
      BY <1>1, <3>1, TaskIs, ErrorAssumption DEF M
    <3> QED
      BY <3>2, <3>3, TaskIs DEF CredentialCode
  <2> QED
    BY <2>1, <2>2
<1>7. meaning = "scope" => Code(s) \in {"reauth_required", "credential_scope_denied"}
  BY <1>1, SignalsAre, Codings
<1>8. meaning \in {"off", "unpaid", "broken"} => Code(s) \in {"upstream_error", "upstream_timeout"}
  BY <1>1, SignalsAre, Codings
<1>9. Verdict(s) = [code |-> Code(s), more |-> FALSE, next |-> 0,
                    wait |-> IF Code(s) = "rate_limited" THEN RetryAfter(s) ELSE 0]
  BY VerdictIs
<1>10. Code(s) \in Codes \ {"ok"}
  BY <1>4, <1>5, <1>6, <1>7, <1>8 DEF Causes, Codes
<1>11. Verdict(s) \in Result
  BY <1>3, <1>9, <1>10 DEF Result
<1>12. /\ Verdict(s).code = Code(s) /\ Verdict(s).more = FALSE
       /\ Code(s) = "rate_limited" => Verdict(s).wait = RetryAfter(s)
  BY <1>9
<1>13. Verdict(s).code \notin {"ok", "none"}
  BY <1>10, <1>12 DEF Codes
<1> QED
  BY <1>3, <1>4, <1>5, <1>6, <1>7, <1>8, <1>11, <1>12, <1>13 DEF Causes

-----------------------------------------------------------------------------
(* Pages *)

\* A page: how it lies in the list, and what its cursor may be.
LEMMA PagesAre ==
  ASSUME TypeInv, T.paged, Heard >= 0, NEW page \in Pages
  PROVE  /\ M.paging.style \in {"page", "id", "cursor"}
         /\ Newest \in Nat /\ page.newest = Newest
         /\ page.size \in 0 .. Newest /\ page.size <= PageSize
         /\ page.more \in BOOLEAN /\ (page.more <=> Newest > page.size)
         /\ M.paging.style # "cursor" => page.size = Least(PageSize, Newest)
         /\ page.token \in {0, Newest - page.size + 1}
         /\ (M.paging.flag \/ page.more) /\ ~(T.selector # {} /\ T.selector \subseteq task.args) =>
              page.token = Newest - page.size + 1
<1>0. PICK style, flag : style = M.paging.style /\ flag = M.paging.flag
  OBVIOUS
<1>1. style \in {"page", "id", "cursor"}
  BY <1>0, TaskIs, ToolAssumption DEF TypeInv, M
<1>2. Heard \in Nat /\ top \in Nat /\ PageSize \in Nat \ {0}
  BY BoundAssumption DEF Heard, TypeInv, TypeOK
<1>3. Newest \in Nat
  <2>1. CASE Heard = 0
    BY <1>2, <2>1 DEF Newest
  <2>2. CASE Heard > 0 /\ M.paging.style = "page"
    <3>1. PICK n \in Nat : n = (Heard - 1) * PageSize
      BY <1>2, <2>2
    <3>2. Newest = IF top >= n THEN top - n ELSE 0
      BY <2>2, <3>1 DEF Newest
    <3> QED
      BY <1>2, <3>1, <3>2
  <2>3. CASE Heard > 0 /\ M.paging.style # "page"
    BY <1>2, <2>3 DEF Newest
  <2> QED
    BY <1>2, <2>1, <2>2, <2>3
<1>4. Full = Least(PageSize, Newest) /\ Full \in 0 .. Newest /\ Full <= PageSize
  BY <1>2, <1>3 DEF Full, Least
<1>5. PICK chosen \in BOOLEAN : chosen <=> T.selector # {} /\ T.selector \subseteq task.args
  OBVIOUS
<1>6. PICK k : /\ k \in IF style = "cursor" /\ Full > 0 THEN 1 .. Full ELSE {Full}
               /\ page.newest = Newest /\ page.size = k /\ page.more = (Newest > k)
               /\ page.token \in
                    (IF Newest > k \/ flag THEN {Newest - k + 1}
                     ELSE IF k > 0 THEN {0, Newest - k + 1} ELSE {0})
                    \cup (IF chosen THEN {0} ELSE {})
  BY <1>0, <1>5 DEF Pages
<1>7. k \in 0 .. Full
  BY <1>4, <1>6
<1>8. style # "cursor" => k = Full
  BY <1>6
<1>9. page.token \in {0, Newest - k + 1}
  BY <1>6
<1>10. (flag \/ Newest > k) /\ ~chosen => page.token = Newest - k + 1
  BY <1>6
<1>11. page.more \in BOOLEAN /\ (page.more <=> Newest > page.size)
  <2>1. PICK more, n : more = page.more /\ n = Newest
    OBVIOUS
  <2>2. more = (n > k)
    BY <1>6, <2>1
  <2>3. n \in Nat /\ k \in Nat
    BY <1>3, <1>4, <1>7, <2>1
  <2>5. more \in BOOLEAN
    BY ONLY <2>2, <2>3
  <2>6. more <=> n > k
    BY ONLY <2>2, <2>3
  <2>4. more \in BOOLEAN /\ (more <=> Newest > k)
    BY <2>1, <2>5, <2>6
  <2> QED
    BY <1>6, <2>1, <2>4
<1>12. page.size \in 0 .. Newest /\ page.size <= PageSize
  BY <1>2, <1>3, <1>4, <1>6, <1>7
<1>13. /\ style # "cursor" => page.size = Least(PageSize, Newest)
       /\ page.token \in {0, Newest - page.size + 1}
  BY <1>4, <1>6, <1>8, <1>9
<1>14. (flag \/ page.more) /\ ~(T.selector # {} /\ T.selector \subseteq task.args) =>
         page.token = Newest - page.size + 1
  BY <1>5, <1>6, <1>10
<1> QED
  BY <1>0, <1>1, <1>3, <1>6, <1>11, <1>12, <1>13, <1>14

LEMMA ReadPageTyped ==
  ASSUME TypeInv, T.paged, Heard >= 0, NEW page \in Pages
  PROVE  ReadPage(page) \in Result
<1>1. More(page) \in BOOLEAN
  <2>1. CASE M.paging.style = "page"
    BY <2>1 DEF More
  <2>2. CASE M.paging.style = "id"
    <3>1. More(page) = (page.size > 0 /\ IF M.paging.flag THEN page.more ELSE page.size = PageSize)
      BY <2>2 DEF More
    <3> QED
      BY <3>1
  <2>3. CASE M.paging.style = "cursor"
    <3>1. More(page) = IF M.paging.flag THEN page.more ELSE page.token # 0
      BY <2>3 DEF More
    <3>2. page.more \in BOOLEAN
      BY PagesAre
    <3> QED
      BY <3>1, <3>2
  <2> QED
    BY <2>1, <2>2, <2>3, PagesAre
<1>2. NextCursor(page) \in Nat
  <2>1. cursor \in Int /\ cursor >= -1
    BY DEF TypeInv, TypeOK
  <2>2. CASE M.paging.style # "page"
    BY <2>2, PagesAre DEF NextCursor
  <2> QED
    BY <2>1, <2>2, PagesAre DEF NextCursor
<1> QED
  BY <1>1, <1>2, ReadPageIs DEF Result, Codes

LEMMA RequestTyped ==
  /\ BuildRequest \in Requests
  /\ NoRequest \in Requests
<1>1. PICK loose \in SUBSET (task.args \cup {"paging"}) :
        loose = (Resolved \ (T.path \cup (IF T.file = {} THEN {} ELSE Media)))
                  \cup (IF T.paged THEN {"paging"} ELSE {})
  <2>1. T.file = {} => Resolved \subseteq task.args
    BY DEF Resolved
  <2>2. Resolved \ Media \subseteq task.args
    BY DEF Resolved
  <2> QED
    BY <2>1, <2>2
<1>2. PICK media \in SUBSET Media : media = Resolved \cap (IF T.file = {} THEN {} ELSE Media)
  OBVIOUS
<1>3. BuildRequest = [query |-> {a \in loose : Where(a) = "query"},
                      body |-> {a \in loose : Where(a) = "body"}, media |-> media]
  BY <1>1, <1>2, Zenon DEF BuildRequest
<1>4. BuildRequest \in Requests
  BY <1>3 DEF Requests
<1> QED
  BY <1>4 DEF Requests, NoRequest

LEMMA AnswerTyped ==
  ASSUME TypeInv, NEW res \in Result, Answer(res), UNCHANGED <<task, cursor, top, first>>,
         cause' \in Causes, performed' \in Nat, seen' \in [Items -> 0 .. 2],
         faults' \in 0 .. MaxFaults
  PROVE  TypeInv'
<1>1. /\ pc' = "answered" /\ result' = res /\ hop' = 0 /\ request' = NoRequest
      /\ home' \in BOOLEAN /\ secret' \in BOOLEAN /\ strayed' \in BOOLEAN
  BY DEF Answer
<1>2. NoRequest \in Requests /\ Requests' = Requests
  BY RequestTyped DEF Requests
<1>3. task' \in TasksOf(task'.prefix, task'.tool)
  BY DEF TypeInv, TypeOK
<1>4. hop' \in 0 .. MAX_HOPS
  BY <1>1 DEF MAX_HOPS
<1> QED
  BY <1>1, <1>2, <1>3, <1>4 DEF TypeInv, TypeOK, Result

LEMMA TypeInit == Init => TypeInv
<1> SUFFICES ASSUME Init PROVE TypeInv
  OBVIOUS
<1> USE BoundAssumption DEF Init
<1>1. task \in TasksOf(task.prefix, task.tool)
  BY TaskIs
<1>2. /\ request \in Requests
      /\ result \in Result
  BY RequestTyped DEF NoResult, Result
<1>4. /\ pc = "ready" /\ hop \in 0 .. MAX_HOPS /\ cause \in Causes /\ performed \in Nat
      /\ home \in BOOLEAN /\ secret \in BOOLEAN /\ strayed \in BOOLEAN
      /\ seen \in [Items -> 0 .. 2] /\ faults \in 0 .. MaxFaults
  <2>1. hop \in 0 .. MAX_HOPS /\ cause \in Causes
    BY DEF MAX_HOPS, Causes
  <2>2. seen \in [Items -> 0 .. 2] /\ faults \in 0 .. MaxFaults /\ performed \in Nat
    OBVIOUS
  <2> QED
    BY <2>1, <2>2
<1>3. top \in 0 .. MaxItems /\ first \in 0 .. top /\ cursor \in Int /\ cursor >= -1
  OBVIOUS
<1> QED
  BY <1>1, <1>2, <1>3, <1>4 DEF TypeInv, TypeOK, Result

LEMMA TypeNext == TypeInv /\ [Next]_vars => TypeInv'
<1> SUFFICES ASSUME TypeInv, [Next]_vars PROVE TypeInv'
  OBVIOUS
<1> USE BoundAssumption
<1>0. /\ performed \in Nat /\ seen \in [Items -> 0 .. 2] /\ faults \in 0 .. MaxFaults
      /\ task \in Tasks /\ task \in TasksOf(task.prefix, task.tool)
  BY DEF TypeInv, TypeOK, Requests
<1>1. CASE Send
  <2>1. request' \in Requests'
    BY <1>0, <1>1, RequestTyped DEF Send, Requests
  <2>2. UNCHANGED <<task, cursor, result, performed, top, first, seen, faults>>
    BY <1>1 DEF Send, list
  <2>3. /\ hop' = 0 /\ home' = TRUE /\ secret' = TRUE /\ strayed' = FALSE
        /\ pc' = "sending" /\ cause' = "none"
    BY <1>1 DEF Send
  <2>5. hop' \in 0 .. MAX_HOPS /\ cause' \in Causes
    BY <2>3 DEF MAX_HOPS, Causes
  <2>4. task' \in TasksOf(task'.prefix, task'.tool)
    BY <1>0, <2>2
  <2> QED
    BY <2>1, <2>2, <2>3, <2>4, <2>5 DEF TypeInv, TypeOK, Requests
<1>2. ASSUME NEW code \in Codes, Answer(Failed(code)), UNCHANGED <<task, cursor, top, first, seen, faults>>,
             cause' \in Causes, performed' \in Nat
      PROVE  TypeInv'
  <2>1. Failed(code) \in Result
    <3>1. Failed(code) = [code |-> code, more |-> FALSE, next |-> 0, wait |-> 0]
      BY FailedIs
    <3> QED
      BY <3>1 DEF Result
  <2> QED
    BY <1>0, <1>2, <2>1, AnswerTyped
<1>3. CASE RefuseArguments
  BY <1>0, <1>2, <1>3 DEF RefuseArguments, list, Codes, Causes
<1>4. ASSUME NEW origin \in BOOLEAN, Follow(origin) PROVE TypeInv'
  <2>1. UNCHANGED <<task, pc, cursor, request, result, cause, performed, top, first, seen, faults>>
    BY <1>4 DEF Follow, list
  <2>2. hop' \in 0 .. MAX_HOPS
    BY <1>4 DEF Follow, TypeInv, TypeOK, MAX_HOPS
  <2>3. home' \in BOOLEAN /\ secret' \in BOOLEAN /\ strayed' \in BOOLEAN
    BY <1>4 DEF Follow
  <2>4. task' \in TasksOf(task'.prefix, task'.tool)
    BY <1>0, <2>1
  <2> QED
    BY <2>1, <2>2, <2>3, <2>4 DEF TypeInv, TypeOK, Requests
<1>5. CASE TooManyRedirects
  BY <1>0, <1>2, <1>5 DEF TooManyRedirects, list, Codes, Causes
<1>6. CASE RedirectIsAnswer
  BY <1>0, <1>2, <1>6 DEF RedirectIsAnswer, list, Codes, Causes, Perform
<1>7. ASSUME NEW meaning \in Causes \ {"none", "fine"}, Refused(meaning) PROVE TypeInv'
  <2>1. PICK s \in Signals(meaning) : Answer(Verdict(s))
    BY <1>7 DEF Refused
  <2>2. Verdict(s) \in Result
    BY <1>0, RefusalIs
  <2>3. faults' \in 0 .. MaxFaults
    BY <1>0, <1>7 DEF Refused
  <2>4. UNCHANGED <<task, cursor, top, first, performed, seen>> /\ cause' \in Causes
    BY <1>7 DEF Refused
  <2> QED
    BY <1>0, <2>1, <2>2, <2>3, <2>4, AnswerTyped
<1>8. CASE Lost
  BY <1>0, <1>2, <1>8 DEF Lost, list, Codes, Causes, Perform
<1>9. CASE KeyTimeout
  BY <1>0, <1>2, <1>9 DEF KeyTimeout, list, Codes, Causes
<1>10. CASE Deliver
  <2>1. Success \in Result
    <3>1. Success = [code |-> "ok", more |-> FALSE, next |-> 0, wait |-> 0]
      BY FailedIs
    <3> QED
      BY <3>1 DEF Result, Codes
  <2>2. UNCHANGED <<task, cursor, top, first, seen, faults>> /\ Answer(Success)
        /\ cause' \in Causes /\ performed' \in Nat
    BY <1>0, <1>10 DEF Deliver, list, Causes, Perform
  <2> QED
    BY <1>0, <2>1, <2>2, AnswerTyped
<1>11. CASE TooBig
  BY <1>0, <1>2, <1>11 DEF TooBig, list, Codes, Causes
<1>12. CASE DeliverPage
  <2>1. PICK page \in Pages :
          /\ Answer(ReadPage(page))
          /\ seen' = [i \in Items |->
                     IF i \in page.newest - page.size + 1 .. page.newest
                     THEN Least(seen[i] + 1, 2) ELSE seen[i]]
    BY <1>12 DEF DeliverPage
  <2>2. ReadPage(page) \in Result
    BY <1>12, ReadPageTyped DEF DeliverPage
  <2>3. seen' \in [Items -> 0 .. 2]
    BY <1>0, <2>1 DEF Least
  <2>4. UNCHANGED <<task, cursor, top, first, performed, faults>> /\ cause' \in Causes
    BY <1>12 DEF DeliverPage, Causes
  <2> QED
    BY <1>0, <2>1, <2>2, <2>3, <2>4, AnswerTyped
<1>13. CASE Continue
  <2>1. /\ UNCHANGED <<task, request, hop, home, secret, strayed, result, cause, performed,
                        top, first, seen, faults>>
        /\ cursor' = result.next /\ pc' = "ready"
    BY <1>13 DEF Continue, wire, list
  <2>2. task' \in TasksOf(task'.prefix, task'.tool) /\ result.next \in Nat
    BY <1>0, <2>1 DEF TypeInv, TypeOK
  <2> QED
    BY <2>1, <2>2 DEF TypeInv, TypeOK, Requests
<1>14. CASE Retry \/ Finish \/ UNCHANGED vars
  <2>1. /\ UNCHANGED <<task, cursor, request, hop, home, secret, strayed, result, cause, performed,
                        top, first, seen, faults>>
        /\ pc' \in {"ready", "ended", pc}
    BY <1>14 DEF Retry, Finish, vars, wire, list
  <2>2. task' \in TasksOf(task'.prefix, task'.tool)
    BY <1>0, <2>1
  <2> QED
    BY <2>1, <2>2 DEF TypeInv, TypeOK, Requests
<1>15. CASE Arrive
  <2>1. /\ UNCHANGED <<task, pc, cursor, request, hop, home, secret, strayed, result, cause, performed,
                        first, seen, faults>>
        /\ top' = top + 1 /\ top < MaxItems
    BY <1>15 DEF Arrive, wire
  <2>2. task' \in TasksOf(task'.prefix, task'.tool)
    BY <1>0, <2>1
  <2>3. top' \in 0 .. MaxItems /\ first' \in 0 .. top'
    BY <2>1 DEF TypeInv, TypeOK
  <2> QED
    BY <2>1, <2>2, <2>3 DEF TypeInv, TypeOK, Requests
<1> QED
  BY <1>1, <1>3, <1>4, <1>5, <1>6, <1>7, <1>8, <1>9, <1>10, <1>11, <1>12, <1>13, <1>14, <1>15
     DEF Next, Step

LEMMA Types == Spec => []TypeInv
BY TypeInit, TypeNext, PTL DEF Spec

\* TypeOK: every variable has its type in every reachable state, under any manifests.
THEOREM TypeCorrect == Spec => []TypeOK
<1>1. TypeInv => TypeOK
  BY DEF TypeInv
<1> QED
  BY <1>1, Types, PTL

-----------------------------------------------------------------------------
(* What is sent *)

RequestInv == Fetched => request = BuildRequest

LEMMA RequestStep == RequestInv /\ [Next]_vars => RequestInv'
<1> SUFFICES ASSUME RequestInv, [Next]_vars PROVE RequestInv'
  OBVIOUS
<1>0. BuildRequest' = BuildRequest
  <2>1. task' = task
    BY ToolKept
  <2> QED
    BY <2>1 DEF BuildRequest, Resolved, T, ByMethod, Where
<1>1. ASSUME pc' # "sending" PROVE RequestInv'
  BY <1>1 DEF RequestInv, Fetched
<1>2. ASSUME UNCHANGED <<pc, request>> PROVE RequestInv'
  BY <1>0, <1>2 DEF RequestInv, Fetched
<1>3. ASSUME NEW res, Answer(res) PROVE RequestInv'
  BY <1>1, <1>3, AnswerClears
<1>4. CASE Send
  BY <1>0, <1>4 DEF Send, RequestInv
<1>5. ASSUME NEW origin \in BOOLEAN, Follow(origin) PROVE RequestInv'
  BY <1>2, <1>5 DEF Follow
<1>6. CASE DeliverPage
  BY <1>3, <1>6 DEF DeliverPage
<1>7. ASSUME NEW meaning, Refused(meaning) PROVE RequestInv'
  BY <1>3, <1>7 DEF Refused
<1>8. CASE RefuseArguments \/ TooManyRedirects \/ RedirectIsAnswer \/ Lost \/ KeyTimeout
             \/ Deliver \/ TooBig
  BY <1>3, <1>8
     DEF RefuseArguments, TooManyRedirects, RedirectIsAnswer, Lost, KeyTimeout, Deliver, TooBig
<1>9. CASE Continue \/ Retry \/ Finish
  BY <1>1, <1>9 DEF Continue, Retry, Finish
<1>10. CASE Arrive \/ UNCHANGED vars
  BY <1>2, <1>10 DEF Arrive, vars, wire
<1> QED
  BY <1>4, <1>5, <1>6, <1>7, <1>8, <1>9, <1>10 DEF Next, Step

LEMMA RequestsBuilt == Spec => []RequestInv
<1>1. Init => RequestInv
  BY DEF Init, RequestInv, Fetched
<1> QED
  BY <1>1, RequestStep, PTL DEF Spec

-----------------------------------------------------------------------------
(* What the agent is told *)

LEMMA VerdictStep == TypeInv /\ VerdictRight /\ [Next]_vars => VerdictRight'
<1> SUFFICES ASSUME TypeInv, VerdictRight, [Next]_vars PROVE VerdictRight'
  OBVIOUS
<1>0. CredentialCode' = CredentialCode
  BY ToolKept DEF CredentialCode
<1>1. ASSUME pc' # "answered" PROVE VerdictRight'
  BY <1>1 DEF VerdictRight
<1>2. ASSUME UNCHANGED <<pc, result, cause>> PROVE VerdictRight'
  BY <1>0, <1>2 DEF VerdictRight
<1>3. ASSUME NEW code \in {"invalid_arguments", "ok"}, NEW res, Answer(res), res.code = code,
             cause' \in {"none", "fine"}
      PROVE  VerdictRight'
  BY <1>3, AnswerClears DEF VerdictRight
<1>4. ASSUME NEW code \in {"upstream_error", "upstream_timeout"}, Answer(Failed(code)), cause' = "broken"
      PROVE  VerdictRight'
  <2>1. Failed(code).code = code
    <3>1. Failed(code) = [code |-> code, more |-> FALSE, next |-> 0, wait |-> 0]
      BY FailedIs
    <3> QED
      BY <3>1
  <2> QED
    BY <1>4, <2>1, AnswerClears DEF VerdictRight
<1>5. CASE Send \/ Continue \/ Retry \/ Finish
  BY <1>1, <1>5 DEF Send, Continue, Retry, Finish
<1>6. CASE (\E origin \in BOOLEAN : Follow(origin)) \/ Arrive \/ UNCHANGED vars
  BY <1>2, <1>6 DEF Follow, Arrive, vars
<1>7. CASE RefuseArguments \/ TooBig
  <2>1. Failed("invalid_arguments").code = "invalid_arguments"
    <3>1. Failed("invalid_arguments") = [code |-> "invalid_arguments", more |-> FALSE, next |-> 0, wait |-> 0]
      BY FailedIs
    <3> QED
      BY <3>1
  <2> QED
    BY <1>3, <1>7, <2>1 DEF RefuseArguments, TooBig
<1>8. CASE Deliver
  <2>1. Success.code = "ok"
    BY FailedIs
  <2> QED
    BY <1>3, <1>8, <2>1 DEF Deliver
<1>9. CASE DeliverPage
  <2>1. PICK page \in Pages : Answer(ReadPage(page))
    BY <1>9 DEF DeliverPage
  <2>2. ReadPage(page).code = "ok"
    BY ReadPageIs
  <2> QED
    BY <1>3, <1>9, <2>1, <2>2 DEF DeliverPage
<1>10. CASE TooManyRedirects \/ RedirectIsAnswer \/ Lost \/ KeyTimeout
  BY <1>4, <1>10 DEF TooManyRedirects, RedirectIsAnswer, Lost, KeyTimeout
<1>11. ASSUME NEW meaning \in Causes \ {"none", "fine"}, Refused(meaning) PROVE VerdictRight'
  <2>1. PICK s \in Signals(meaning) : Answer(Verdict(s))
    BY <1>11 DEF Refused
  <2>2. task \in Tasks
    BY DEF TypeInv
  <2>3. /\ meaning = "limited" => Verdict(s).code = "rate_limited" /\ Verdict(s).wait > 0
        /\ meaning = "dead" => Verdict(s).code = CredentialCode
        /\ meaning = "scope" => Verdict(s).code \in {"reauth_required", "credential_scope_denied"}
        /\ meaning \in {"off", "unpaid", "broken"} =>
              Verdict(s).code \in {"upstream_error", "upstream_timeout"}
        /\ Verdict(s).code = "reauth_required" => meaning \in {"dead", "scope"}
    BY <2>2, RefusalIs
  <2>4. pc' = "answered" /\ result' = Verdict(s) /\ cause' = meaning
    BY <1>11, <2>1, AnswerClears DEF Refused
  <2> QED
    BY <1>0, <2>3, <2>4 DEF VerdictRight
<1> QED
  BY <1>5, <1>6, <1>7, <1>8, <1>9, <1>10, <1>11 DEF Next, Step

\* VerdictRight: whatever its manifest maps, an agent is told to wait when the
\* vendor limits it, and to reconnect only when its credential or scope is at fault.
THEOREM JudgesRightly == Spec => []VerdictRight
<1>1. Init => VerdictRight
  BY DEF Init, VerdictRight
<1> QED
  BY <1>1, VerdictStep, Types, PTL DEF Spec

-----------------------------------------------------------------------------
(* The walk *)

\* The newest item that a call with cursor c asks for, unless it is past the end.
From(c) ==
  CASE c = 0 -> top
    [] c > 0 /\ M.paging.style = "page" -> top - (c - 1) * PageSize
    [] OTHER -> c - 1

\* A page number names other items when the list has grown.
Exact == M.paging.style # "page" \/ top = first

\* With cursor c the agent has what lies before it, and nothing twice.
Walked(c) ==
  /\ From(c) <= top
  /\ \A i \in 1 .. first : i > From(c) => seen[i] > 0
  /\ Exact => \A i \in Items : seen[i] < 2 /\ (i <= From(c) => seen[i] = 0)

Done ==
  /\ T.selector \cap task.args = {} => \A i \in 1 .. first : seen[i] > 0
  /\ Exact => \A i \in Items : seen[i] < 2

\* The agent's cursor still says where it is.
Current == pc \in {"ready", "sending"} \/ (pc = "answered" /\ result.code = "rate_limited")

WalkInv ==
  T.paged =>
    /\ \A i \in Items : i > top => seen[i] = 0
    /\ Current /\ cursor >= 0 => Walked(cursor)
    /\ pc = "answered" /\ result.more =>
         result.code = "ok" /\ result.next > 0 /\ Walked(result.next)
    /\ pc \in {"answered", "ended"} /\ result.code = "ok" /\ ~result.more => Done
    /\ pc = "ended" => ~result.more

LEMMA WalkInit == Init => WalkInv
<1> SUFFICES ASSUME Init PROVE WalkInv
  OBVIOUS
<1>1. /\ pc = "ready" /\ top \in Nat /\ first = top /\ \A i \in Items : seen[i] = 0
      /\ cursor \in {0, -1}
  BY BoundAssumption DEF Init
<1>2. From(0) = top
  BY DEF From
<1>3. Walked(0)
  BY <1>1, <1>2 DEF Walked
<1> QED
  BY <1>1, <1>3 DEF WalkInv

\* A step that leaves the list and what was got of it alone.
LEMMA WalkKept ==
  ASSUME TypeInv, WalkInv, UNCHANGED <<task, top, first, seen>>,
         \/ UNCHANGED <<pc, cursor, result>>
         \/ UNCHANGED cursor /\ Current /\ pc' \in {"ready", "sending"}
         \/ /\ UNCHANGED cursor /\ Current /\ pc' = "answered"
            /\ result'.code # "ok" /\ result'.more = FALSE
         \/ UNCHANGED <<cursor, result>> /\ pc = "answered" /\ pc' = "ended" /\ ~result.more
         \/ pc = "answered" /\ result.more /\ cursor' = result.next /\ pc' = "ready"
  PROVE  WalkInv'
<1>1. M' = M /\ T' = T
  BY DEF M, T
<1>2. \A c : Walked(c)' <=> Walked(c)
  BY <1>1 DEF Walked, From, Exact
<1>3. Done' <=> Done
  BY <1>1 DEF Done, Exact
<1>5. result.next \in Nat /\ top \in Nat
  BY DEF TypeInv, TypeOK
<1> SUFFICES ASSUME T.paged PROVE WalkInv'
  BY <1>1 DEF WalkInv
<1>6. CASE UNCHANGED <<pc, cursor, result>>
  <2>1. Current' <=> Current
    BY <1>6 DEF Current
  <2> QED
    BY <1>1, <1>2, <1>3, <1>6, <2>1 DEF WalkInv
<1>7. CASE UNCHANGED cursor /\ Current /\ pc' \in {"ready", "sending"}
  BY <1>1, <1>2, <1>7 DEF WalkInv
<1>8. CASE UNCHANGED cursor /\ Current /\ pc' = "answered" /\ result'.code # "ok" /\ result'.more = FALSE
  BY <1>1, <1>2, <1>8 DEF WalkInv
<1>9. CASE UNCHANGED <<cursor, result>> /\ pc = "answered" /\ pc' = "ended" /\ ~result.more
  <2>1. ~Current'
    BY <1>9 DEF Current
  <2> QED
    BY <1>1, <1>2, <1>3, <1>9, <2>1 DEF WalkInv
<1>10. CASE pc = "answered" /\ result.more /\ cursor' = result.next /\ pc' = "ready"
  BY <1>1, <1>2, <1>3, <1>10 DEF WalkInv
<1> QED
  BY <1>6, <1>7, <1>8, <1>9, <1>10

LEMMA WalkArrive ==
  ASSUME TypeInv, WalkInv, Arrive
  PROVE  WalkInv'
<1>1. /\ UNCHANGED <<task, pc, cursor, result, first, seen>>
      /\ top' = top + 1 /\ pc = "ready" /\ T.paged /\ top \in Nat /\ first \in 0 .. top
      /\ cursor \in Int
  BY DEF Arrive, TypeInv, TypeOK
<1>2. M' = M /\ T' = T
  BY <1>1 DEF M, T
<1>3. \A i \in Items : i > top' => seen'[i] = 0
  BY <1>1 DEF WalkInv, Items
<1>4. ASSUME cursor >= 0 PROVE Walked(cursor)'
  <2>1. Walked(cursor)
    BY <1>1, <1>4 DEF WalkInv, Current
  <2>2. PICK old, new : old = From(cursor) /\ new = From(cursor)'
    OBVIOUS
  <2>6. old <= top
    BY <2>1, <2>2 DEF Walked
  <2>3. CASE M.paging.style = "page"
    <3>1. new = old + 1 /\ old \in Int
      <4>1. CASE cursor = 0
        BY <1>1, <2>2, <4>1 DEF From
      <4>2. CASE cursor > 0
        <5>1. PICK n \in Int : n = (cursor - 1) * PageSize
          BY <1>1, BoundAssumption
        <5>2. old = top - n /\ new = top' - n
          BY <1>1, <1>2, <2>2, <2>3, <4>2, <5>1 DEF From
        <5> QED
          BY <1>1, <5>1, <5>2
      <4> QED
        BY <1>1, <1>4, <4>1, <4>2
    <3>2. ~Exact'
      BY <1>1, <1>2, <2>3 DEF Exact
    <3>3. \A i \in 1 .. first : i > new => seen[i] > 0
      <4>1. \A i \in 1 .. first : i > old => seen[i] > 0
        BY <2>1, <2>2 DEF Walked
      <4>2. \A i \in 1 .. first : i > new => i > old
        BY <1>1, <3>1
      <4> QED
        BY <4>1, <4>2
    <3> QED
      BY <1>1, <2>2, <2>6, <3>1, <3>2, <3>3 DEF Walked
  <2>4. CASE M.paging.style # "page" /\ cursor = 0
    <3>1. old = top /\ new = top'
      BY <1>1, <2>2, <2>4 DEF From
    <3>2. \A i \in Items : seen[i] < 2 /\ (i <= top => seen[i] = 0)
      BY <2>1, <2>2, <2>4, <3>1 DEF Walked, Exact
    <3>3. \A i \in Items : seen[i] = 0
      BY <1>1, <3>2 DEF WalkInv, Items
    <3>4. \A i \in 1 .. first : ~(i > top')
      BY <1>1
    <3> QED
      BY <1>1, <2>2, <3>1, <3>3, <3>4 DEF Walked
  <2>5. CASE M.paging.style # "page" /\ cursor # 0
    <3>1. new = old
      BY <1>1, <1>2, <2>2, <2>5 DEF From
    <3>4. old \in Int
      BY <1>1, <2>2, <2>5 DEF From
    <3>2. Exact /\ Exact'
      BY <1>2, <2>5 DEF Exact
    <3> QED
      BY <1>1, <2>1, <2>2, <2>6, <3>1, <3>2, <3>4 DEF Walked
  <2> QED
    BY <2>3, <2>4, <2>5
<1> QED
  BY <1>1, <1>2, <1>3, <1>4 DEF WalkInv, Current

\* The vendor reads the agent's cursor.
LEMMA HeardIs ==
  ASSUME TypeInv, RequestInv, Fetched, T.paged
  PROVE  Heard = cursor
<1>1. "paging" \notin InQuery
  BY ToolAssumption
<1>2. Where("paging") = ByMethod /\ ByMethod \in {"query", "body"}
  BY <1>1 DEF Where, ByMethod
<1>3. PICK loose : loose = (Resolved \ (T.path \cup (IF T.file = {} THEN {} ELSE Media)))
                             \cup (IF T.paged THEN {"paging"} ELSE {})
  OBVIOUS
<1>4. /\ request.query = {a \in loose : Where(a) = "query"}
      /\ request.body = {a \in loose : Where(a) = "body"}
  BY <1>3 DEF RequestInv, BuildRequest
<1>5. "paging" \in loose
  BY <1>3
<1> QED
  BY <1>2, <1>4, <1>5 DEF Heard

\* Its page begins where the agent's walk has come to, or past the end.
LEMMA NewestIs ==
  ASSUME TypeInv, T.paged, Heard = cursor, cursor >= 0, NEW from, from = From(cursor)
  PROVE  from \in Int /\ Newest = IF from >= 0 THEN from ELSE 0
<1>1. top \in Nat /\ cursor \in Nat /\ PageSize \in Nat
  BY BoundAssumption DEF TypeInv, TypeOK
<1>2. CASE cursor = 0
  BY <1>1, <1>2 DEF From, Newest
<1>3. CASE cursor > 0 /\ M.paging.style = "page"
  <2>1. PICK n \in Int : n = (cursor - 1) * PageSize
    BY <1>1
  <2>2. from = top - n
    BY <1>3, <2>1 DEF From
  <2>3. Newest = IF top >= n THEN top - n ELSE 0
    BY <1>3, <2>1 DEF Newest
  <2> QED
    BY <1>1, <2>1, <2>2, <2>3
<1>4. CASE cursor > 0 /\ M.paging.style # "page"
  BY <1>1, <1>4 DEF From, Newest
<1> QED
  BY <1>1, <1>2, <1>3, <1>4

\* When there is more, the next call goes on below the page.
LEMMA NextIs ==
  ASSUME TypeInv, T.paged, Heard = cursor, cursor >= 0, NEW page \in Pages, More(page)
  PROVE  NextCursor(page) > 0 /\ From(NextCursor(page)) = page.newest - page.size
<1>1. /\ top \in Nat /\ cursor \in Nat /\ PageSize \in Nat \ {0}
  BY BoundAssumption DEF TypeInv, TypeOK
<1>2. PICK n, k : n = page.newest /\ k = page.size
  OBVIOUS
<1>3. n \in Nat /\ k \in 0 .. n /\ n = Newest
  BY <1>1, <1>2, PagesAre
<1>4. PICK from : from = From(cursor)
  OBVIOUS
<1>5. from \in Int /\ n = IF from >= 0 THEN from ELSE 0
  BY <1>3, <1>4, NewestIs
<1>6. CASE M.paging.style = "page"
  <2>1. k = PageSize
    BY <1>2, <1>6 DEF More
  <2>2. n >= PageSize
    BY <1>1, <1>3, <2>1
  <2>3. n = from
    BY <1>1, <1>5, <2>2
  <2>4. PICK d \in Nat \ {0} : d = IF cursor = 0 THEN 1 ELSE cursor
    BY <1>1
  <2>5. PICK m \in Int : m = (d - 1) * PageSize
    BY <1>1, <2>4
  <2>6. d * PageSize = m + PageSize
    BY <1>1, <2>4, <2>5
  <2>7. from = top - m
    <3>1. CASE cursor = 0
      <4>1. m = 0
        BY <1>1, <2>4, <2>5, <3>1
      <4>2. from = top
        BY <1>4, <3>1 DEF From
      <4> QED
        BY <1>1, <4>1, <4>2
    <3>2. CASE cursor > 0
      <4>1. d = cursor
        BY <1>1, <2>4, <3>2
      <4> QED
        BY <1>4, <1>6, <2>5, <3>2, <4>1 DEF From
    <3> QED
      BY <1>1, <3>1, <3>2
  <2>8. NextCursor(page) = d + 1
    BY <1>6, <2>4 DEF NextCursor
  <2>9. From(d + 1) = top - ((d + 1) - 1) * PageSize
    BY <1>6, <2>4 DEF From
  <2>10. ((d + 1) - 1) * PageSize = m + PageSize
    <3>1. (d + 1) - 1 = d
      BY <2>4
    <3> QED
      BY <2>6, <3>1
  <2>11. From(d + 1) = n - k
    BY <1>1, <2>1, <2>3, <2>5, <2>7, <2>9, <2>10
  <2> QED
    BY <1>2, <2>4, <2>8, <2>11
<1>7. ASSUME M.paging.style # "page", NextCursor(page) = n - k + 1
      PROVE  NextCursor(page) > 0 /\ From(NextCursor(page)) = n - k
  <2>1. PICK c \in Nat : c = n - k + 1 /\ c > 0 /\ c - 1 = n - k
    BY <1>3
  <2>2. From(c) = c - 1
    BY <1>7, <2>1 DEF From
  <2> QED
    BY <1>7, <2>1, <2>2
<1>8. CASE M.paging.style = "id"
  <2>1. NextCursor(page) = n - k + 1
    BY <1>2, <1>8 DEF NextCursor
  <2> QED
    BY <1>2, <1>7, <1>8, <2>1
<1>9. CASE M.paging.style = "cursor"
  <2>1. NextCursor(page) = page.token
    BY <1>9 DEF NextCursor
  <2>2. page.token = n - k + 1
    <3>1. CASE M.paging.flag
      <4>1. T.selector = {}
        BY <3>1, TaskIs, ToolAssumption DEF TypeInv, M
      <4> QED
        BY <1>1, <1>2, <1>3, <3>1, <4>1, PagesAre
    <3>2. CASE ~M.paging.flag
      <4>1. page.token # 0
        BY <1>9, <3>2 DEF More
      <4> QED
        BY <1>1, <1>2, <1>3, <4>1, PagesAre
    <3> QED
      BY <3>1, <3>2
  <2> QED
    BY <1>2, <1>7, <1>9, <2>1, <2>2
<1>10. M.paging.style \in {"page", "id", "cursor"}
  BY <1>1, PagesAre
<1> QED
  BY <1>2, <1>6, <1>8, <1>9, <1>10

\* When there is none, the page is the last, or the caller left the cursor out.
LEMMA LastIs ==
  ASSUME TypeInv, T.paged, Heard = cursor, cursor >= 0, NEW page \in Pages, ~More(page)
  PROVE  page.newest - page.size = 0 \/ T.selector \cap task.args # {}
<1>1. PageSize \in Nat \ {0} /\ cursor \in Nat
  BY BoundAssumption DEF TypeInv, TypeOK
<1>2. PICK n, k : n = page.newest /\ k = page.size
  OBVIOUS
<1>3. n \in Nat /\ k \in 0 .. n /\ n = Newest /\ (page.more <=> n > k)
  BY <1>1, <1>2, PagesAre
<1>4. M.paging.style # "cursor" => k = IF PageSize <= n THEN PageSize ELSE n
  BY <1>1, <1>2, <1>3, PagesAre DEF Least
<1>5. CASE M.paging.style = "page"
  <2>1. k # PageSize
    BY <1>2, <1>5 DEF More
  <2> QED
    BY <1>1, <1>2, <1>3, <1>4, <1>5, <2>1
<1>6. CASE M.paging.style = "id"
  <2>1. ~(k > 0 /\ IF M.paging.flag THEN page.more ELSE k = PageSize)
    BY <1>2, <1>6 DEF More
  <2>2. CASE k > 0 /\ M.paging.flag
    BY <1>2, <1>3, <2>1, <2>2
  <2>3. CASE k > 0 /\ ~M.paging.flag
    BY <1>1, <1>2, <1>3, <1>4, <1>6, <2>1, <2>3
  <2>4. CASE k = 0
    BY <1>1, <1>2, <1>3, <1>4, <1>6, <2>4
  <2> QED
    BY <1>3, <2>2, <2>3, <2>4
<1>7. CASE M.paging.style = "cursor"
  <2>1. ~(IF M.paging.flag THEN page.more ELSE page.token # 0)
    BY <1>7 DEF More
  <2>2. CASE ~page.more
    BY <1>2, <1>3, <2>2
  <2>3. CASE page.more
    <3>1. page.token = 0
      BY <2>1, <2>3
    <3>2. n - k + 1 # 0
      BY <1>3
    <3>3. T.selector # {} /\ T.selector \subseteq task.args
      BY <1>1, <1>2, <1>3, <2>3, <3>1, <3>2, PagesAre
    <3> QED
      BY <3>3
  <2> QED
    BY <2>2, <2>3
<1>8. M.paging.style \in {"page", "id", "cursor"}
  BY <1>1, PagesAre
<1> QED
  BY <1>5, <1>6, <1>7, <1>8

LEMMA WalkPage ==
  ASSUME TypeInv, RequestInv, WalkInv, DeliverPage
  PROVE  WalkInv'
<1>1. /\ T.paged /\ Fetched /\ pc = "sending" /\ Heard >= 0
      /\ UNCHANGED <<task, cursor, top, first>>
  BY DEF DeliverPage, Fetched
<1>2. PICK page \in Pages :
        /\ Answer(ReadPage(page))
        /\ seen' = [i \in Items |->
                     IF i \in page.newest - page.size + 1 .. page.newest
                     THEN Least(seen[i] + 1, 2) ELSE seen[i]]
  BY DEF DeliverPage
<1>3. M' = M /\ T' = T
  BY <1>1 DEF M, T
<1>4. /\ top \in Nat /\ first \in 0 .. top /\ MaxItems \in Nat /\ top <= MaxItems
      /\ seen \in [Items -> 0 .. 2] /\ Items = 1 .. MaxItems
  BY BoundAssumption DEF TypeInv, TypeOK, Items
<1>5. Heard = cursor /\ cursor >= 0
  BY <1>1, HeardIs
<1>6. PICK from, n, k : from = From(cursor) /\ n = page.newest /\ k = page.size
  OBVIOUS
<1>7. from \in Int /\ n \in Nat /\ k \in 0 .. n /\ n = IF from >= 0 THEN from ELSE 0
  BY <1>1, <1>5, <1>6, PagesAre, NewestIs
<1>8. Walked(cursor)
  BY <1>1, <1>5 DEF WalkInv, Current
<1>9. /\ from <= top
      /\ \A i \in 1 .. first : i > from => seen[i] > 0
      /\ Exact => \A i \in Items : seen[i] < 2 /\ (i <= from => seen[i] = 0)
  BY <1>6, <1>8 DEF Walked
<1>10. \A i \in Items : seen'[i] = IF n - k + 1 <= i /\ i <= n
                                   THEN Least(seen[i] + 1, 2) ELSE seen[i]
  BY <1>2, <1>4, <1>6, <1>7
<1>11. \A i \in 1 .. first : i > n - k => seen'[i] > 0
  BY <1>4, <1>7, <1>9, <1>10 DEF Least
<1>12. ASSUME Exact, NEW i \in Items PROVE seen'[i] < 2 /\ (i <= n - k => seen'[i] = 0)
  BY <1>4, <1>7, <1>9, <1>10, <1>12 DEF Least
<1>13. ASSUME NEW i \in Items, i > top PROVE seen'[i] = 0
  <2>1. seen[i] = 0
    BY <1>1, <1>13 DEF WalkInv
  <2>2. n <= top
    BY <1>4, <1>7, <1>9
  <2> QED
    BY <1>4, <1>7, <1>10, <1>13, <2>1, <2>2
<1>14. Exact' <=> Exact
  BY <1>1, <1>3 DEF Exact
<1>15. /\ pc' = "answered" /\ result'.code = "ok" /\ result'.more = More(page)
       /\ More(page) => result'.next = NextCursor(page)
  <2>1. PICK more, next : more = More(page) /\ next = IF More(page) THEN NextCursor(page) ELSE 0
    OBVIOUS
  <2>2. PICK r : r = [code |-> "ok", more |-> more, next |-> next, wait |-> 0]
    OBVIOUS
  <2>3. ReadPage(page) = r
    BY <2>1, <2>2, ReadPageIs
  <2>4. pc' = "answered" /\ result' = r
    BY <1>2, <2>3, AnswerClears
  <2>5. result'.code = "ok" /\ result'.more = more /\ result'.next = next
    BY <2>2, <2>4
  <2> QED
    BY <2>1, <2>4, <2>5
<1>16. ASSUME More(page) PROVE result'.next > 0 /\ Walked(result.next)'
  <2>1. PICK c : c = NextCursor(page) /\ c = result'.next
    BY <1>15, <1>16
  <2>2. c > 0 /\ From(c) = n - k
    BY <1>1, <1>5, <1>6, <1>16, <2>1, NextIs
  <2>3. From(result.next)' = From(c)
    BY <1>1, <1>3, <2>1 DEF From
  <2>4. PICK to : to = From(result.next)'
    OBVIOUS
  <2>5. to = n - k
    BY <2>2, <2>3, <2>4
  <2>6. n - k <= top
    BY <1>4, <1>7, <1>9
  <2> QED
    BY <1>1, <1>11, <1>12, <1>14, <2>1, <2>2, <2>4, <2>5, <2>6 DEF Walked, Items
<1>17. ASSUME ~More(page) PROVE Done'
  <2>1. n - k = 0 \/ T.selector \cap task.args # {}
    BY <1>1, <1>5, <1>6, <1>17, LastIs
  <2>2. \A i \in 1 .. first : i > 0
    BY <1>4
  <2> QED
    BY <1>1, <1>3, <1>11, <1>12, <1>14, <2>1, <2>2 DEF Done, Items
<1>18. ~Current'
  BY <1>15 DEF Current
<1> QED
  BY <1>1, <1>13, <1>15, <1>16, <1>17, <1>18 DEF WalkInv, Items

LEMMA WalkStep == TypeInv /\ RequestInv /\ WalkInv /\ [Next]_vars => WalkInv'
<1> SUFFICES ASSUME TypeInv, RequestInv, WalkInv, [Next]_vars PROVE WalkInv'
  OBVIOUS
<1>0. T' = T /\ task' = task
  BY ToolKept
<1>1. ASSUME ~T.paged PROVE WalkInv'
  BY <1>0, <1>1 DEF WalkInv
<1>2. CASE Send
  BY <1>2, WalkKept DEF Send, list, Current
<1>3. ASSUME NEW origin \in BOOLEAN, Follow(origin) PROVE WalkInv'
  BY <1>3, WalkKept DEF Follow, list
<1>4. ASSUME NEW code \in Codes \ {"ok"}, Answer(Failed(code)), pc \in {"ready", "sending"},
             UNCHANGED <<task, cursor, top, first, seen>>
      PROVE  WalkInv'
  <2>1. Failed(code).code = code /\ Failed(code).more = FALSE
    <3>1. Failed(code) = [code |-> code, more |-> FALSE, next |-> 0, wait |-> 0]
      BY FailedIs
    <3> QED
      BY <3>1
  <2>2. pc' = "answered" /\ result'.code # "ok" /\ result'.more = FALSE
    BY <1>4, <2>1, AnswerClears
  <2> QED
    BY <1>4, <2>2, WalkKept DEF Current
<1>5. CASE RefuseArguments
  BY <1>4, <1>5 DEF RefuseArguments, list, Codes
<1>6. CASE TooManyRedirects \/ RedirectIsAnswer \/ Lost
  BY <1>4, <1>6 DEF TooManyRedirects, RedirectIsAnswer, Lost, Fetched, list, Codes
<1>7. CASE KeyTimeout \/ TooBig
  BY <1>4, <1>7 DEF KeyTimeout, TooBig, Fetched, list, Codes
<1>8. ASSUME NEW meaning \in Causes \ {"none", "fine"}, Refused(meaning) PROVE WalkInv'
  <2>1. PICK s \in Signals(meaning) : Answer(Verdict(s))
    BY <1>8 DEF Refused
  <2>2. Verdict(s).code # "ok" /\ Verdict(s).more = FALSE
    BY RefusalIs DEF TypeInv
  <2>3. pc' = "answered" /\ result'.code # "ok" /\ result'.more = FALSE
    BY <2>1, <2>2, AnswerClears
  <2>4. pc = "sending" /\ UNCHANGED <<task, cursor, top, first, seen>>
    BY <1>8 DEF Refused, Fetched
  <2> QED
    BY <2>3, <2>4, WalkKept DEF Current
<1>9. CASE Deliver
  BY <1>1, <1>9 DEF Deliver
<1>10. CASE DeliverPage
  BY <1>10, WalkPage
<1>11. CASE Continue
  BY <1>11, WalkKept DEF Continue, list
<1>12. CASE Retry
  BY <1>12, WalkKept DEF Retry, list, Current
<1>13. CASE Finish
  BY <1>13, WalkKept DEF Finish, list
<1>14. CASE Arrive
  BY <1>14, WalkArrive
<1>15. CASE UNCHANGED vars
  BY <1>15, WalkKept DEF vars, list
<1> QED
  BY <1>2, <1>3, <1>5, <1>6, <1>7, <1>8, <1>9, <1>10, <1>11, <1>12, <1>13, <1>14, <1>15
     DEF Next, Step

\* WalkExact: a walk over any list, by pages of any size, that ends well has got
\* every item there was when it began, and none twice.
THEOREM WalksExactly == Spec => []WalkExact
<1>1. WalkInv => WalkExact
  BY DEF WalkInv, WalkExact, Done, Exact
<1> QED
  BY <1>1, WalkInit, WalkStep, RequestsBuilt, Types, PTL DEF Spec
=============================================================================
