----------------------------- MODULE Providers -----------------------------
(***************************************************************************)
(* The provider manifests (adapters/providers/*.ts) as data, and which of  *)
(* them a deployment boots (boot.ts, registry.ts).                         *)
(*                                                                         *)
(* A manifest keeps what the executor, the catalog and the connections     *)
(* branch on.  Of a tool that is its method, whether it writes, and its    *)
(* arguments by name: the placeholders of its path, the others it needs,   *)
(* and those it takes.  Types, enums, upstream names, projected fields and *)
(* prose are left out.                                                     *)
(***************************************************************************)
EXTENDS TLC

-----------------------------------------------------------------------------
(* The manifest language *)

Tool(method, write, path, needs, takes) ==
  [method |-> method, write |-> write, path |-> path, needs |-> needs, takes |-> takes,
   paged |-> FALSE, selector |-> {}, file |-> {}, binary |-> FALSE]
Reads(path, needs, takes) == Tool("GET", FALSE, path, needs, takes)
Writes(method, path, needs, takes) == Tool(method, TRUE, path, needs, takes)
Paged(tool) == [tool EXCEPT !.paged = TRUE]
Selected(tool, arg) == [tool EXCEPT !.selector = {arg}]
Bytes(tool) == [tool EXCEPT !.binary = TRUE]
\* The bytes of an upload: inline, or a file the gateway holds.
Upload(tool, fileId) == [tool EXCEPT !.file = {fileId}]

\* Required, but with a default (gcalendar.ts).
DefaultedArguments == {"calendar_id"}
\* Declared in: 'query' whatever the method (gdrive.ts).
QueryArguments == {"response_fields", "add_parents", "remove_parents", "upload_type"}

\* How a vendor pages.  flag: it says outright whether there is more.
ByPage == [style |-> "page", flag |-> FALSE]
ByCursor(flag) == [style |-> "cursor", flag |-> flag]
ById(flag) == [style |-> "id", flag |-> flag]
Unpaged == [style |-> "none", flag |-> FALSE]

\* How a vendor fails.  forbidden: the code of a 403, {} for the credential's;
\* limited: the statuses of its rateLimited rule; codes: its bodyFailure codes by reason;
\* failsOn: the statuses its body failures travel on; after: headers that say
\* how long to wait, in order.
NoErrors == [forbidden |-> {}, limited |-> {}, codes |-> <<>>, failsOn |-> {}, after |-> <<>>]
Header(name, as) == [header |-> name, as |-> as]

Manifest(id, grant, maturity, scopes) ==
  [id |-> id, grantId |-> grant, maturity |-> maturity, scopes |-> scopes, auth |-> "bearer",
   validate |-> FALSE, paging |-> Unpaged, errors |-> NoErrors]

-----------------------------------------------------------------------------
(* GitHub *)

Repo == {"owner", "repo"}
Numbered == {"owner", "repo", "number"}

Github ==
  [Manifest("github", "github", "beta", {"repo", "read:user"}) EXCEPT
     !.paging = ByPage,
     !.errors = [NoErrors EXCEPT !.limited = {403},
                                 !.after = <<Header("retry-after", "seconds"),
                                             Header("x-ratelimit-reset", "epoch")>>]]
GithubReads ==
  ("get_authenticated_user" :> Reads({}, {}, {})) @@
  ("search_repositories" :> Paged(Reads({}, {"query"}, {}))) @@
  ("list_issues" :> Paged(Reads(Repo, {}, {"state"}))) @@
  ("get_issue" :> Reads(Numbered, {}, {})) @@
  ("list_pull_requests" :> Paged(Reads(Repo, {}, {"state"}))) @@
  ("get_pull_request" :> Reads(Numbered, {}, {})) @@
  ("list_pull_request_comments" :> Paged(Reads(Numbered, {}, {}))) @@
  ("list_pull_request_reviews" :> Paged(Reads(Numbered, {}, {}))) @@
  ("list_check_runs" :> Paged(Reads(Repo \cup {"ref"}, {}, {})))
GithubWrites ==
  ("create_issue" :> Writes("POST", Repo, {"title"}, {"body", "labels", "assignees"})) @@
  ("update_issue" :>
     Writes("PATCH", Numbered, {}, {"title", "body", "state", "labels", "assignees"})) @@
  ("create_issue_comment" :> Writes("POST", Numbered, {"body"}, {})) @@
  ("create_pull_request" :> Writes("POST", Repo, {"title", "head", "base"}, {"body", "draft"})) @@
  ("create_pull_request_review" :> Writes("POST", Numbered, {"body"}, {"event", "comments"})) @@
  ("merge_pull_request" :> Writes("PUT", Numbered, {}, {"commit_title", "merge_method"}))

-----------------------------------------------------------------------------
(* Google: four prefixes on one grant *)

\* A 403 is upstream_error unless its body says that a scope is missing.
GoogleErrors ==
  [NoErrors EXCEPT !.forbidden = {"upstream_error"},
                   !.codes = [insufficientPermissions |-> "reauth_required"], !.failsOn = {403}]
Google(id, maturity, scopes) ==
  [Manifest(id, "google", maturity, scopes) EXCEPT !.errors = GoogleErrors]

Gdrive == [Google("gdrive", "beta", {"drive"}) EXCEPT !.paging = ByCursor(FALSE)]
Fields(tool) ==
  Selected([tool EXCEPT !.takes = @ \cup {"response_fields"}], "response_fields")
GdriveReads ==
  ("get_about" :> Fields(Reads({}, {}, {}))) @@
  ("list_files" :> Paged(Fields(Reads({}, {}, {"query", "order_by"})))) @@
  ("get_file" :> Fields(Reads({"file_id"}, {}, {})))
GdriveDownloads ==
  ("download_file" :> Bytes(Reads({"file_id"}, {}, {"alt"}))) @@
  ("export_file" :> Bytes(Reads({"file_id"}, {"mime_type"}, {})))
GdriveFolders ==
  ("create_folder" :> Fields(Writes("POST", {}, {"name"}, {"parents", "mime_type"}))) @@
  ("rename_file" :> Fields(Writes("PATCH", {"file_id"}, {"name"}, {}))) @@
  ("move_file" :> Fields(Writes("PATCH", {"file_id"}, {"add_parents"}, {"remove_parents"}))) @@
  ("copy_file" :> Fields(Writes("POST", {"file_id"}, {}, {"name", "parents"}))) @@
  ("trash_file" :> Fields(Writes("PATCH", {"file_id"}, {}, {"trashed"}))) @@
  ("delete_file" :> Writes("DELETE", {"file_id"}, {}, {})) @@
  ("share_file" :> Fields(Writes("POST", {"file_id"}, {"role"}, {"type", "email_address"})))
Content == {"content", "mime_type"}
GdriveUploads ==
  ("upload_file" :> Upload(Fields(Writes("POST", {}, {"name"},
     Content \cup {"file_id", "parents", "upload_type"})), "file_id")) @@
  ("replace_file_content" :> Upload(Fields(Writes("PATCH", {"file_id"}, {},
     Content \cup {"source_file_id", "upload_type"})), "source_file_id"))

Gcal ==
  [Google("gcalendar", "beta", {"calendar.calendarlist.readonly", "calendar.events"}) EXCEPT
     !.paging = ByCursor(FALSE)]
CalendarEvent == {"calendar_id", "event_id"}
GcalTools ==
  ("list_calendars" :> Paged(Reads({}, {}, {}))) @@
  ("list_events" :> Paged(Reads({"calendar_id"}, {},
     {"time_min", "time_max", "query", "single_events", "order_by"}))) @@
  ("get_event" :> Reads(CalendarEvent, {}, {})) @@
  ("create_event" :> Writes("POST", {"calendar_id"}, {"start_time", "end_time"},
     {"summary", "description", "location", "attendees"})) @@
  ("update_event" :> Writes("PATCH", CalendarEvent, {},
     {"summary", "description", "location", "start_time", "end_time"})) @@
  ("delete_event" :> Writes("DELETE", CalendarEvent, {}, {}))

Gslides == Google("gslides", "experimental", {"drive"})
GslidesTools ==
  ("get_presentation" :> Fields(Reads({"presentation_id"}, {}, {}))) @@
  ("create_slide" :> Writes("POST", {"presentation_id"}, {"slides"}, {})) @@
  ("insert_text" :> Writes("POST", {"presentation_id"}, {"insertions"}, {})) @@
  ("replace_all_text" :> Writes("POST", {"presentation_id"}, {"replacements"}, {}))

Gmail == [Google("gmail", "beta", {"gmail.modify"}) EXCEPT !.paging = ByCursor(FALSE)]
GmailTools ==
  ("get_profile" :> Reads({}, {}, {})) @@
  ("list_messages" :> Paged(Reads({}, {}, {"query"}))) @@
  ("get_message" :> Selected(Reads({"id"}, {}, {"format"}), "format")) @@
  ("get_label" :> Reads({"id"}, {}, {})) @@
  ("send_message" :> Writes("POST", {}, {"raw"}, {})) @@
  ("modify_message" :> Writes("POST", {"id"}, {}, {"add_label_ids", "remove_label_ids"})) @@
  ("trash_message" :> Writes("POST", {"id"}, {}, {}))

-----------------------------------------------------------------------------
(* The others *)

X ==
  [Manifest("twitter", "twitter", "experimental",
            {"tweet.read", "tweet.write", "users.read", "offline.access"}) EXCEPT
     !.paging = ByCursor(FALSE),
     !.errors = [NoErrors EXCEPT !.forbidden = {"upstream_error"},
                                 !.after = <<Header("x-rate-limit-reset", "epoch")>>]]
XTools ==
  ("get_me" :> Reads({}, {}, {"user_fields"})) @@
  ("get_user" :> Reads({"username"}, {}, {"user_fields"})) @@
  ("list_user_posts" :> Paged(Reads({"user_id"}, {}, {"tweet_fields"}))) @@
  ("search_recent_posts" :> Paged(Reads({}, {"query"}, {"tweet_fields"}))) @@
  ("create_post" :> Writes("POST", {}, {"text"}, {"reply_to"})) @@
  ("get_post" :> Reads({"tweet_id"}, {}, {"tweet_fields"}))

Stripe ==
  [Manifest("stripe", "stripe", "experimental", {}) EXCEPT
     !.auth = "api_key", !.paging = ById(TRUE),
     !.errors = [NoErrors EXCEPT !.forbidden = {"upstream_error"}]]
CreatedRange == {"created_after", "created_before"}
StripeTools ==
  ("list_customers" :> Paged(Reads({}, {}, {"email"} \cup CreatedRange))) @@
  ("get_customer" :> Reads({"customer_id"}, {}, {})) @@
  ("list_charges" :> Paged(Reads({}, {},
     {"customer", "payment_intent", "transfer_group"} \cup CreatedRange))) @@
  ("get_charge" :> Reads({"charge_id"}, {}, {}))

Threads ==
  \* Meta leaves a cursor on the last page; paging.next says whether there is more.
  [Manifest("threads", "threads", "experimental", {"threads_basic", "threads_read_replies"})
   EXCEPT !.paging = ByCursor(TRUE)]
ThreadsTools ==
  ("get_profile" :> Reads({}, {}, {"response_fields"})) @@
  ("list_posts" :> Paged(Reads({}, {}, {"since", "until", "response_fields"}))) @@
  ("get_post" :> Reads({"post_id"}, {}, {"response_fields"})) @@
  ("list_replies" :> Paged(Reads({"post_id"}, {}, {"response_fields"})))

Discord ==
  [Manifest("discord", "discord", "beta", {}) EXCEPT
     !.auth = "api_key", !.validate = TRUE, !.paging = ById(FALSE)]
DiscordTools ==
  ("get_bot_user" :> Reads({}, {}, {})) @@
  ("list_guilds" :> Paged(Reads({}, {}, {}))) @@
  ("list_channels" :> Paged(Reads({"guild_id"}, {}, {}))) @@
  ("list_messages" :> Paged(Reads({"channel_id"}, {}, {}))) @@
  ("post_message" :> Writes("POST", {"channel_id"}, {"content"}, {}))

\* Slack fails with 200 and says why in the body.
Slack ==
  [Manifest("slack", "slack", "experimental", {"channels:read", "chat:write", "users:read"})
   EXCEPT
     !.paging = ByCursor(FALSE),
     !.errors = [NoErrors EXCEPT
       !.codes = [ratelimited |-> "rate_limited", invalid_auth |-> "reauth_required",
                  not_authed |-> "reauth_required", token_revoked |-> "reauth_required",
                  account_inactive |-> "reauth_required",
                  missing_scope |-> "credential_scope_denied"],
       !.failsOn = {200},
       !.after = <<Header("retry-after", "seconds")>>]]
SlackTools ==
  ("list_channels" :> Paged(Reads({}, {}, {"types"}))) @@
  ("post_message" :> Writes("POST", {}, {"channel", "text"}, {"thread_ts"})) @@
  ("list_users" :> Paged(Reads({}, {}, {})))

Notion == [Manifest("notion", "notion", "experimental", {}) EXCEPT !.paging = ByCursor(TRUE)]
NotionTools ==
  ("search" :> Paged(Tool("POST", FALSE, {}, {"query"}, {}))) @@
  ("get_page" :> Reads({"page_id"}, {}, {})) @@
  ("list_users" :> Paged(Reads({}, {}, {})))

Facebook == Manifest("facebook", "facebook", "beta", {"public_profile", "user_link"})
FacebookTools == "get_me" :> Reads({}, {}, {"response_fields"})

\* No vendor behind it and no request: it answers from memory (fake.ts).
Fake == [Manifest("fake", "fake", "experimental", {}) EXCEPT !.auth = "none"]
FakeTools ==
  ("echo" :> Reads({}, {"message"}, {})) @@
  ("list_items" :> Reads({}, {}, {"cursor"})) @@
  ("write_note" :> Tool("none", TRUE, {}, {"text"}, {}))

-----------------------------------------------------------------------------
(* The registry *)

\* Every manifest under its prefix, with its tools.
Vendors ==
  ("github" :> <<Github, GithubReads @@ GithubWrites>>) @@
  ("gdrive" :> <<Gdrive, GdriveReads @@ GdriveDownloads @@ GdriveFolders @@ GdriveUploads>>) @@
  ("gcal" :> <<Gcal, GcalTools>>) @@ ("gslides" :> <<Gslides, GslidesTools>>) @@
  ("gmail" :> <<Gmail, GmailTools>>) @@ ("x" :> <<X, XTools>>) @@
  ("stripe" :> <<Stripe, StripeTools>>) @@ ("threads" :> <<Threads, ThreadsTools>>) @@
  ("discord" :> <<Discord, DiscordTools>>) @@ ("slack" :> <<Slack, SlackTools>>) @@
  ("notion" :> <<Notion, NotionTools>>) @@ ("facebook" :> <<Facebook, FacebookTools>>)
KnownProviders == Vendors @@ ("fake" :> <<Fake, FakeTools>>)

ManifestOf(prefix) == KnownProviders[prefix][1]
ToolsOf(prefix) == KnownProviders[prefix][2]

\* What a deployment boots: everything that needs no OAuth application, and the
\* providers of the grants that have one.
Registry(applications) ==
  {p \in DOMAIN KnownProviders : ManifestOf(p).auth # "bearer" \/ ManifestOf(p).grantId \in applications}
=============================================================================
