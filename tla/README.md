# A TLA+ verification of Siduri-X

Siduri-X is a local streaming assistant. An operator works with a web console; a
Python orchestrator (`apps/orchestrator`) serves it over HTTP with one thread per
request (`ThreadingHTTPServer`), keeps its state in dictionaries and in SQLite or
Supabase tables, and talks to language models, to OBS, to the VOICEVOX speech
engine and to YouTube and Twitch. This directory holds TLA+ models of the parts
that keep state, TLC configurations that check them on small instances, and proofs
that TLAPS checks.

## 1. The system

### Components, their state and their operations

| Component | Source | State | Operations that change it | Status |
|---|---|---|---|---|
| Outbound action queue | `packages/platforms/contracts.py`, `/platforms/actions*` | `_actions`, `_audit` and their SQLite tables; one `RLock` | propose, approve (with edit), reject, send | modelled |
| Memory proposals and claims | `packages/memory/service.py`, `postgres.py`, `/memory/proposals*` | `_items`, `_proposals`, `_claims`, `_source_events`, audit events, and a table for each; **no lock** | propose, update, approve, reject; create, update, delete, reset | partly |
| Response approval, speech, overlay | `server.py`, `packages/voice`, `overlay-client.tsx` | `PENDING_RESPONSES`, `SpeechQueue._items` and `_cancelled`, worker threads, the overlay's state | stage, approve, publish, enqueue, `run_next`, `speak`, cancel | modelled |
| Behavioral directives, Active Self | `service.py` 687-775, `packages/persona/behavior.py` | `_behavioral_directives` and its table; `_claims`, shared with the memory | propose, approve, reject, disable, revoke, reset, compile | partly |
| Platform ingress | `contracts.py` 93-152, `sessions.py`, `adapters.py` | `_events`, `_seen`, the guard's windows, the page token, the EventSub session, `reconnect_url`; no lock | ingest, poll, handle_message, run_once | modelled |
| OAuth flows and tokens | `packages/platforms/auth.py` | one-time states, `_pending`, the token file, `PLATFORM_SENDERS`; no lock | begin, complete, refresh, revoke | modelled |
| Model router | `packages/model_router/router.py`, `zai.py` | one circuit per provider, shared by all threads; no lock | generate | modelled |
| Observation and capture | `packages/observation`, `packages/obs` | `_seen`, `_observations`, one OBS socket and request counter; no lock | ingest, expire, capture_once, status; set_enabled | partly |
| Platform adapters | `packages/platforms/adapters.py` | none | read, normalize, subscribe, send | partly |
| Persona, prompts, response contract | `packages/persona`, `contracts.py` of the orchestrator | the profile | compile, from_dict, PUT /me | partly |
| Teaching and private chat | `teaching.py`, `private_chat_response` | none | propose what a chat teaches | partly |
| Vision and knowledge, consoles, scripts and configuration | | none of their own | | not modelled |

### Interactions

* Handler threads call every component directly; they meet in its dictionaries.
  Only the outbound queue (`RLock`), the WebSocket clients (`CLIENTS_LOCK`) and the
  `_cancelled` flag of the speech service have a lock.
* A response is generated by the router from memory, directives and observations,
  staged, approved, broadcast to the overlay, and voiced by a thread of its own.
* Chat yields memory proposals and directives, which the operator reviews.
* OAuth callbacks install the *senders* that the outbound queue posts with.
* Platform workers feed the hub, from which a reply can be suggested: a proposal in
  the outbound queue.

### What is hard about it

* Memory is changed *before* the row is committed, and an operation commits several
  rows, each in its own transaction: any of them can fail, the process can die
  between two of them, and a restart reads back what was committed.
* `MemoryService` has no lock: a thread that waits for a commit later writes what it
  read before.
* A platform may take a message and its answer may be lost.
* `SpeechQueue.run_next` calls `empty()`, then `get()`, which blocks, and then looks
  whether the job was cancelled, while other workers do the same.
* The approval of a directive iterates over the live dictionary of claims, which
  another thread's insertion makes raise, after the directive was confirmed.
* Events of overlapping speech jobs reach one overlay.
* The platform workers and the handlers share the hub's lists; each list is read,
  copied and assigned without a lock. A poll that fails begins the page anew, Twitch
  repeats itself, and some exceptions end a worker for good.
* Two token requests write one file through one temporary file, and a refresh that
  waits for its answer may end after a revocation.
* A circuit's count is changed by threads that overlap, and its expiry is tested by
  others that then call late.
* Threads read each other's answers from one OBS socket, and a timeout leaves an
  answer behind, or half of one. The number of a request is read, written and read
  again while other threads do the same.

`PROJECT.json` lists each hazard at its line, with the properties that watch over it
or the reason why none does.

### What makes each component correct

* *Outbound queue*: only approved texts are posted; a closed action stays closed; the
  row never runs ahead of memory, nor the audit trail ahead of the row.
* *Memory*: an approval is never shown without what it remembers; what is remembered
  is what was approved; a review is final; a correction replaces and, while nothing
  fails, never just loses a value.
* *Speech*: what was released is voiced, once, unless it fails or is cancelled; no job
  is forgotten; when everything is over the overlay is idle, or shows a job that ended
  without an event.
* *Directives*: only an approved directive shapes a prompt; a rejected, revoked,
  disabled or superseded one never does again; at rest the rows agree with memory, and
  an answered approval has its claim.
* *Ingress*: a message is accepted once while it is remembered, no author passes the
  limit, the history is complete; the chat is followed and a lost session returns.
* *OAuth*: a state buys one token, of the provider it was issued for; the file stays
  readable; what was answered is what is stored, and what the sender uses.
* *Router*: an open circuit is not called but by those already under way; a failing
  provider is taken out of use in time; the first one that works again is used again.
* *Observation*: an answer of OBS reaches the thread that asked; a prompt gets nothing
  that has expired and all that has not.

## 2. Modules

| Module | Role |
|---|---|
| `OutboundApproval` | abstract specification: what the queue promises the operator |
| `OutboundActions` | the queue; implements `OutboundApproval` (`ImplementsApproval`) |
| `MemoryReview` | proposals, their review, and the claims it leaves |
| `SpeechPipeline` | from an approved response to the voice and the overlay |
| `BehavioralDirectives` | directives, their review, and the one in force in a prompt |
| `PlatformIngress` | YouTube poller, Twitch session and endpoint, and the hub they fill |
| `OAuthTokens` | flows, tokens, the token file, and the senders made of them |
| `ModelRouter` | requests for a plan, and the providers' circuits |
| `ObservationCapture` | from OBS to the observations a prompt may use |
| `...Proofs`, one for each of the eight | the inductive invariant, the theorems and their proofs |
| `MC...`, one for each of the eight | instances for TLC: symmetry, priorities, candidates, items, the order of providers |

In each module the operators named after a mutation (`RejectUnchecked`,
`CommitClaimNot`, ...) stand in front of the definition they vary. `Next` does not use
them: they are plausible bugs, with which each property is shown to fail
(`PROJECT.json`, "mutants").

### OutboundActions

`mem` and `db` are an action's copy in `_actions` and its row; `audit` and `auditDb`
its audit entries in memory and in the table. `pc[h]`, `op[h]`, `act[h]` say what
handler thread h is doing. A request that holds the lock is at `post`, `persist` or
`audit`; as long as one is, the others wait (`Unlocked`). Every operation is the
change of the copy (`Propose`, `Approve`, `Reject`, or `SendPosted`), the commit of the
row (`Persist`) and the commit of the entry (`RecordAudit`). `PersistFails` and
`RecordAuditFails` are SQLite raising. `SendLookup` is the endpoint's look at the
action before the lock is taken again in `SendStart` or `SendRefused`. `SendUnknown`
is a post whose answer is lost or unusable, `SendFailed` one that did not happen.
`Crash` restarts from the rows. `posted` is what the platform received. `approvals`
is a history variable.

Abstracted: a text is a model value, which the adapter takes or refuses (`Overlong`).
The sender is there or not, as all actions of an instance are for one platform.
Requests that are refused without having done anything are stutters. A failing
`commit()` leaves its statement in SQLite's open transaction, where the next commit
may still write it; the model drops it. This only concerns the row or the entry of
an operation that has already been reported as failed.

### MemoryReview

For each table there is the dictionary and the rows (`proposals`/`proposalRows`,
`items`/`itemRows`, `claims`/`claimRows`). A handler's `job` holds the locals of its
request, above all the *copy* of the proposal it read. The stages are the commits the
code waits for: `item`, (`select`, `link`,) `previous`, `claim`, and the two of a
proposal, `proposal` and `details`: its text and status are in `memory_proposals`, its
predicate and value in `memory_proposal_claims` (postgres.py:186-196), and a restart
joins them, giving a "note" without a value where the second row is missing.
`CommitFails` covers each: the transaction was rolled back, or it was committed and
the answer was lost (`Landing`). `ReferenceHolds` is the foreign key of
`versioned_claims.supersedes` (migrations/002_memory.sql:79): a claim whose predecessor
has no row is refused (`CommitRefused`). The refused claim stays in memory, where a
later approval may find and supersede it, and so write its row after all; `refused`, a
history variable, names these claims, and `OneClaimPerApproval` sets them aside.
`raced` names the proposals that two requests worked on at once. `OneClaimPerApproval`
sets them aside as well; `ReviewIsFinal` says of them only that no request undoes an
approval in memory. `ProposeInChat` is the part of `private_chat_response`
that skips a candidate whose value is confirmed already and proposes the others.

Abstracted: the proposals of an instance share one subject and one single-valued
predicate, since claims at different addresses never meet. An item is its content. The
item's revision, the source event and the audit rows are committed with the item or
not looked at. Claims are numbered in the order of `asserted_at`.

### SpeechPipeline

`pc[h]` is a handler that publishes a response (`publish`, `enqueue`, `spawn`), `worker[w]`
a speech thread, named by the job it was started for; `doing` is the job it got, maybe
another one. `SeeJobs`, `Get` and `Accept` or `Discard` are the steps of run_next's
loop: the look at the queue, `get()`, and the test of the cancelled ids. A worker at
`get` with an empty queue waits. `overlay` is the state the last event put the
overlay in, `shown` the response the event was about. A response whose emotion is
"idle" is in `Calm`. `ended`, `released`, `dropped`, `died` and `unwanted` are history
variables. `Raise` is an exception other than `VoicevoxError`, which kills the worker
without an event. `cancelled` and `silence` are the two `_cancelled` fields, of the
queue and of the service. `CancelJob` may name any job at any time, one that is not in
the queue yet included: job ids are addresses (server.py:317), and an id that was
cancelled too late may return. The
orchestrator does not call either `cancel()` yet, although docs/voice/VOICE_SPEC.md:3
calls the voice cancellable; with `MaxCancels = 0` the model is today's orchestrator,
with more it is what the package offers.

The model settles what the loop makes one suspect. As long as nothing is cancelled a
worker never waits in `get()` in vain (`NobodyWaitsInVain`): its job is put in the queue
before it is started, and it takes one job only. A worker that drops a cancelled job
takes another one instead, which leaves a worker too many; it ends, or waits in `get()`
and takes a later job: there is one such worker at most for each dropped job, and no
job is forgotten either way (`ReleasedIsVoiced`). No event tells of a dropped job, nor
of a worker that died: `QuietIsIdle` says that the overlay then still thinks, or speaks,
of just that response, and that nothing else keeps it from idle. `EnoughWorkers`, that there are never fewer
workers to come than jobs, is what these rest on. No run checks it; it is proved
(`WorkersSuffice`).

Abstracted: the voice is enabled (otherwise `queue_voice` does nothing); responses
have a priority and no text; drawing the sequence number and putting the job are one
step; broadcasts reach the overlay in the order of `CLIENTS_LOCK`.

### BehavioralDirectives

`directives` and `rows` are the dictionary and the table, `claims` and `claimRows` the
confirmed claims in the store and in its table, each as the search for a duplicate
compares it: a source event and a value. A handler's `job` holds the directive of its
request (`of`), the copy it is about to commit (`row`, `copy`) and the claim it writes.
A chat may propose several directives, one after the other, which share its source
event (`Event`, server.py:468-475). An approval passes the stages `confirm`, `link`,
`previous` (if there is a predecessor), `scan` and `claim`; the other requests have one
commit (`row`). At `scan` the thread iterates over the live `_claims` (service.py:718-725):
it ends with `FindDuplicate`, with `AssertClaim`, or with `LookRaises` when another
thread has inserted a claim since it began (`torn`). `ApproveMemory` is the approval
of a claim that the same chat proposed for the memory, as far as it matters here: it
inserts a claim, which may be the duplicate. `Active` is the filter of `compile`,
`InForce` the directive it projects for an audience. `approved`, `answered`, `lost`,
`withdrawn` and `raced` are history variables: a directive is withdrawn when the
request that rejected, disabled, revoked or superseded it was *answered*, raced when a
request changed it while another one was working on it, and a claim is lost when its
commit failed or a restart cut it off.

`InForceHasClaim` speaks of approvals that were answered. One that raised, in a commit
or in the iteration, leaves a directive that is confirmed, shapes prompts, has no claim
and cannot be approved again; the code does nothing about it.

The model shows what `supersedes_id` from proposal time does: two candidates proposed
against one predecessor may both be approved, and both stay confirmed; the compiler
takes the newer proposal, whichever was approved last. And a restart between the
commits of a directive and of its predecessor leaves both confirmed, which
`superseded_ids` hides until the new one is disabled.

Abstracted: the directives of an instance share one address (domain, subject,
predicate), as others never meet; the unsafe-instruction filter is a property of the
value (`Unsafe`); validity dates, which nothing sets, and the audit row are left out. The
reset of the whole memory is not an action.

### PlatformIngress

The hub is `seen` and `events`, the guard `times` and `recent`. A thread in `ingest()`
passes `Enter` and `Refuse` or `Allow`, `Remember`, `Keep` and `Accepted`; between them
it keeps the copy of the list it is about to assign (`job`), so that a late assignment
undoes what another thread did. `PurgeRaises` is the dictionary that changes while the
guard goes through it. The YouTube worker polls (`Poll`, `PollAnew` without its token
after a failure, `PollDies`), and hands over one item after the other (`NextItem`); the
page is where the items of one answer stand. A page with an item that raises
`ValueError` is asked for again and again (`Poisoned`); an item of an unexpected shape
ends the worker (`dead`). The Twitch worker is the state of its connection (`link`):
`Connect`, `Welcome` (the subscription), `SubscribeFails`, `Reconnect`, `Notice`,
`Drop`. `AfterMessage` is the line that leaves the loop once `reconnect_url` is set,
which nothing clears. An entry of `times` is the time of a message and its number
among those counted (`Time`), so that two messages of one tick are two entries and a
platform's list can be a set. `log`, `counted`, `overlapped`, `brought` and `skipped`
are history: an item of the chat is brought when it is handed to the hub, and skipped
when an exception in `ingest()` ends its page. `poll_once` has kept the token of the
next page by then (sessions.py:25, 28), so nothing asks for these items again.

Abstracted: one author per platform, a text is a value, ids are numbers, time is a
clock of `MaxTime` ticks. `clear()`, which nothing calls, and the stop at exit
are left out; so is the callback, which only writes to the log.

### OAuthTokens

`states` and `old` are the issued states and those past their time, `pending` the
provider of each, `store` the tokens in the file (`encrypted`) or in memory, `tmp` the
temporary file. A callback passes `consume`, `exchange`, the save and `install`;
refresh and revoke enter behind them. The save is `SaveInMemory`, or `ReadFile`,
`Open`, `Fill` and `Rename`, each of which may raise; two writers share `tmp`
(`Shared`). `CopyRaises` is `_purge()` meeting a change, and its copy may bring a state
back. `torn` is a file that cannot be read. A crash restarts from the file: unreadable,
the process does not come up.

Abstracted: tokens are numbers in the order of their issue; whether a stored token has
expired at a restart is a choice. Access tokens preset in the environment are left out.

`told` is the token after the last answered request on a provider. A refresh that
fails (`ProviderFails`) is not answered and changes nothing: the token stays in the
store and the sender goes on using it. docs/security/OAUTH_AND_SECRETS.md:8 has it
that a failed refresh "disables that platform", docs/operations/DEGRADED_MODES.md:3
that the sender of a failing platform is disabled; the code does neither. The
difference is a single missing assignment, and no run is spent on it:
`TokensAreAsAnswered` accepts a sender or none after such a failure, and takes no side.

### ModelRouter

`failures` and `cooling` are a circuit: its count (up to the threshold) and the ticks
left until it closes. A thread chooses (`Skip`, `Ask`), calls, waits (`Answer`,
`FailTransiently`, `FailForGood`), and when it gives a provider up reads, writes and tests the
count in three steps. An answer that `ResponsePlan.from_dict` does not accept, refused
credentials and other HTTP errors are not retried (`FailForGood`). `late`, `spent` and
`raced` are history: a provider is in `raced` from when two threads changed its count
at once until it answers, or its circuit opens, with no other thread in a change.

Abstracted: a plan is valid or not; the telemetry and the 10 ms between retries are
left out. No bound limits the number of requests or of failures: the state space is
finite without one.

### ObservationCapture

`socket` holds the session, the requests under way and the messages in the inbox, each
read in two parts (`ReadHeader`, then the payload by one of the `Take` and `Drop`
actions). The shared counter is read and written (`Number`, `Count`) and read once more
for the id (`Format`), which `Send` sends; `Mine` is the test whether an answer is the
thread's own. `TimeOut` leaves the answer for the next reader, `Torn` a half-read one.
`seen` and `kept` are the pipeline's lists, read and assigned in two steps (`Look`,
`Remember`, `StoreSeen`; `Keep`, `StoreKept`; `Expire`, `StoreAlive`), and `View`, `Use`
what `current_observations` hands to a prompt. `seen` is cut by `Last`, `kept` by
`Newest`: as observations are numbered by age and every copy keeps their order, the
list and its copies are sets of numbers. `clashed`, `foreign` and `overlapped`
are history; `clashed` says that a thread wrote over another's number, or read
another's for its id.

Abstracted: frames and readings are values; an observation is numbered by its age, and
its life is the ticks left. Left out: `FrameTrigger` and `set_enabled()`, which the
orchestrator never calls (`Enabled` is the configured gate), and
`/dev/mock-observe-response`, which differs from the mock only in its always new frame.
A request that asks OBS has no bound on what it sends; `MaxAsked` keeps further ones from
beginning.

## 3. Runs

| Run | Instance | Result |
|---|---|---|
| `outbound_actions` | 2 actions, 2 texts (one too long for the platform), 2 threads, 2 posts per action, 2 failing commits, 1 restart; about 1.2 million states | `TypeOK`, `PostedTextWasApproved`, `RowNeverAhead`, `SentRowWasPosted`, `AuditMatchesRow`, `ClosedStaysClosed`, `ImplementsApproval` hold |
| `outbound_audit` | 1 action, 1 thread, 1 restart | `PostedIsDurablyAudited` is **violated** |
| `memory_review` | 2 proposals (a content without a value, which may be edited, or one with another value), 2 threads, 3 claims, 1 failing commit or restart; about 2.9 million states | `TypeOK`, `ApprovedIsDurable`, `OnlyApprovedIsRemembered`, `OneClaimPerApproval`, `SupersededHasSuccessor`, `ReviewIsFinal` hold |
| `memory_reject` | 1 proposal, 1 thread, 1 failing commit or restart | `RejectedLeavesNothing` is **violated** |
| `memory_single_value` | 3 proposals, 1 thread, no failures | `SingleValue` is **violated** |
| `speech_pipeline` | 3 responses, two of one priority, of which one is calm, and a more urgent one, 2 threads, 3 jobs, 1 exception, 1 cancellation; about 413,000 states | `TypeOK`, `NobodyWaitsInVain`, `CancelIsHonoured`, `VoicedOnce`, `QuietIsIdle`, `ReleasedIsVoiced` hold |
| `speech_overlap` | 2 jobs, 1 thread | `OneVoice` is **violated** |
| `directive_review` | 2 directives of 2 candidates (a safe value for one audience, an unsafe one for all), 2 threads, 1 of the directives disabled, 1 failing commit, restart or claim approved for the memory; about 3.0 million states | `TypeOK`, `InForceWasApproved`, `WithdrawnStaysOut`, `RowsMatchAtRest`, `InForceHasClaim` hold |
| `platform_ingress` | both workers, 1 handler, 3 possible chats, 2 possible notices, 1 posted message, lists of one, 2 ticks, 1 arrival, 1 failure; about 399,000 states | `TypeOK`, `AcceptedOnce`, `RateIsKept`, `HistoryIsComplete`, `WorkersGoOn` hold |
| `oauth_tokens` | 2 providers, 2 states, 2 threads, 2 tokens, 1 restart, with and without the file; about 2.8 million states | `TypeOK`, `ExchangedOnceAsBegun`, `FileStaysReadable`, `TokensAreAsAnswered` hold |
| `model_router` | 3 providers, one without the capabilities, 2 threads, 1 retry, threshold 2, cooldown 2; about 364,000 states | `TypeOK`, `OpenShields`, `FailingIsContained`, `FirstComesBack` hold |
| `observation_capture` | 2 threads, 2 frames, 1 fault, 3 HTTP requests, lists of one, a life of one tick; about 2.1 million states | `TypeOK`, `AnswerIsOwn`, `EvidenceIsCurrent` hold |

### The violations

Each states a sentence of the repository's documents, and TLC's counterexample is a
run of the code:

* `PostedIsDurablyAudited` (docs/adr/005-public-action-approval.md:9, "durably
  audited"): approve; the row is committed; the process dies before the entry is;
  after the restart the action is sent. The table has no approval of it.
* `RejectedLeavesNothing` (docs/memory/MEMORY_MODEL.md:18, "rejection or an unreviewed
  candidate never changes canonical memory"): approve; the item is committed; the
  next transaction fails; the proposal, still pending, is rejected. The item stays.
* `SingleValue` (docs/memory/IMPLEMENTED_MEMORY_AND_BEHAVIOR.md:128): one value is
  approved twice, then corrected; only the newer claim is superseded.
* `OneVoice` (docs/voice/VOICE_SPEC.md:3, "queued by priority"): two responses, two
  workers, both playing.

### The bounds and why they are enough

Two threads make every race of two requests; a third would only wait for the lock
(`OutboundActions`) or repeat a race on the same datum. Two actions show that one
does not disturb another; two posts per action show a retry after a lost answer.
Two failing commits and one restart meet in one operation (the row of an approval
fails, the operation is repeated, the process dies). In `MemoryReview` and
`BehavioralDirectives` failing commits and restarts share one bound (`MaxTrouble`): one
of either, at every commit of two overlapping requests. Three claims are a value, its
duplicate and its correction, or three attempts to approve one proposal; and only with
three can a claim supersede one whose own predecessor has no row, which the database
refuses. Three jobs let a worker drop a job, take another's, and leave a third worker
without one; the cancellation may come before, in and after each of their stages. Two
directives are a predecessor and its successor, or two candidates of one chat; the
two scopes, one audience and all, overlap and differ. In `BehavioralDirectives` the
bound `MaxTrouble` also counts the claims approved for the memory, so that the other
thread's insertion is an approved directive's or one of these. `MaxDisabled` lets one
directive be disabled, again and again, while the other one is reviewed, superseded or
revoked; with both disabled none is in force, whatever follows.

`PlatformIngress` keeps lists of one: the second message already pushes the first out,
which is what `MaxSeen`, `MaxEvents` and the limits of the guard are about, and two ticks
are a whole window. A chat of two items has one for a failure in the hub to skip. One
message arrives from outside and one failure happens while the chat shows two items; the
same message can come by the chat and by the endpoint.
In `OAuthTokens` two tokens are a token and the one that replaces it, or those of two
providers in one file, and two states are two flows, or one that is left over from
before the restart. In `ModelRouter` a threshold of two lets a count be read before and after
another thread's, and a cooldown of two ticks lets a call come late in it. In
`ObservationCapture` three HTTP requests, each of which asks OBS two or three times, are
one that times out, a next that meets its answer, and one of the other thread that
meets both; two threads numbering at once need one each. A request of the console that
asks OBS begins while fewer than `MaxAsked` = 3 requests were sent to it: a full
observation may overlap another, follow one that was cut short, or be followed by a
fixture and a reader of the list.

Symmetry is used for threads (and for proposals in `MCMemoryReview`, for
providers and states in `MCOAuthTokens`) where all properties of the run are
invariants or action properties that name none of them; it is not used with liveness.

`CHECK_DEADLOCK FALSE` is used where all bounds may be used up (`MemoryReview`,
`BehavioralDirectives`, `PlatformIngress`, `OAuthTokens`, `ObservationCapture`) and in
`SpeechPipeline`, which is idle when every response was voiced. `OutboundActions` and
`ModelRouter` are checked for deadlock.

### Fairness

The interpreter lets every runnable thread run, so each step of a thread that only
computes is weakly fair. Beyond that:

* `SpeechPipeline`: each handler and worker. The request to VOICEVOX has a 5 s timeout
  and the player one of 120 s; the WebSocket clients are taken to read what they are
  sent, as `broadcast` has no timeout. A worker that waits in `get()` is not enabled,
  so nothing is assumed of it.
* `PlatformIngress`: each thread in `ingest()`; the poll (which succeeds or ends its
  worker), the next item, finding the chat, connecting, and the welcome. The runners
  try again after seconds, without end; failures are bounded, so a request succeeds
  in the end.
* `ModelRouter`: each thread in a request, as a call ends by its timeout, and the clock.

No fairness is assumed of operators, of new messages, nor of failures. `FirstComesBack`
takes it as a premise that the provider stops failing.

What the liveness properties except is what the code does not recover from, and each
exception is a hazard in `PROJECT.json`: a page that raises `ValueError`, the rest of a
page in which `ingest()` raised, a worker that ended, a session that was once asked to
reconnect (`WorkersGoOn`).

### What the properties except

Several safety properties speak of runs, or of data, that no race has touched, because
the code makes no promise about the others and no document does. Each exception is part
of the formula and is named in the comment before it:

| Property | Says nothing about |
|---|---|
| `OneClaimPerApproval` | a proposal two requests worked on at once, a claim the database refused |
| `ReviewIsFinal` | a proposal two requests worked on at once, but that a request does not undo its approval in memory |
| `SupersededHasSuccessor`, `RowsMatchAtRest` | runs in which a commit failed (the first: or was refused, or the process restarted; the second: directives two requests worked on at once) |
| `WithdrawnStaysOut` | a directive two requests worked on at once, and one whose withdrawal was not answered, as the predecessor of an approval that a restart cut off |
| `InForceHasClaim` | approvals that raised, and claims whose own commit failed or was cut off |
| `QuietIsIdle` | nothing: it names the responses that the overlay may be left with |
| `AcceptedOnce`, `RateIsKept`, `HistoryIsComplete` | runs from the first moment at which two threads were in `ingest()` |
| `FileStaysReadable` | runs from the first moment at which two threads were in the token file |
| `TokensAreAsAnswered` | the same, and providers on which two requests met or one was cut off half-way |
| `FailingIsContained` | a provider from when two threads changed its count at once until it answers, or its circuit opens, with no other thread in a change |
| `AnswerIsOwn` | runs in which two threads met in numbering their requests |
| `EvidenceIsCurrent` | runs in which two threads changed the list of observations at once |

## 4. Proofs

Every invariant and every action property that a passing run checks is also a
theorem, proved with TLAPS for all values of the constants that the module's
assumption allows. Each proof module has an inductive invariant (`IInv`), a lemma for
`Init`, lemmas for the actions and for the operators they use, `NextIInv`, which
combines them, and `Invariance`, which says `Spec => []IInv`; the theorems follow from
it. TLC has checked each `IInv` on the instance of the run before it was proved.

| Module | Theorem | Property it states |
|---|---|---|
| `OutboundActionsProofs` | `TypeCorrect` | `TypeOK` |
| | `OnlyApprovedTextsArePosted` | `PostedTextWasApproved` |
| | `RowsNeverRunAhead` | `RowNeverAhead` |
| | `SentRowsWerePosted` | `SentRowWasPosted` |
| | `AuditNeverContradicts` | `AuditMatchesRow` |
| | `ClosedActionsStayClosed` | `ClosedStaysClosed` (action property) |
| | `Implementation` | `ImplementsApproval` (refinement) |
| `MemoryReviewProofs` | `TypeCorrect` | `TypeOK` |
| | `Durability` | `ApprovedIsDurable` |
| | `OnlyApproved` | `OnlyApprovedIsRemembered` |
| | `Succession` | `SupersededHasSuccessor` |
| | `OneClaim` | `OneClaimPerApproval` |
| | `ReviewsAreFinal` | `ReviewIsFinal` (action property) |
| `SpeechPipelineProofs` | `TypeCorrect` | `TypeOK` |
| | `OneVoicing` | `VoicedOnce` |
| | `WorkersSuffice` | `EnoughWorkers` (checked by no run) |
| | `NoVainWait` | `NobodyWaitsInVain` |
| | `CancellationIsHonoured` | `CancelIsHonoured` |
| | `IdleAtTheEnd` | `QuietIsIdle` |
| `BehavioralDirectivesProofs` | `TypeCorrect` | `TypeOK` |
| | `OnlyApprovedIsInForce` | `InForceWasApproved` |
| | `WithdrawalLasts` | `WithdrawnStaysOut` |
| | `RowsSettle` | `RowsMatchAtRest` |
| | `ClaimsSettle` | `InForceHasClaim` |
| `OAuthTokensProofs` | `TypeCorrect` | `TypeOK` |
| | `CodesAreExchangedOnce` | `ExchangedOnceAsBegun` |
| | `FileIsReadable` | `FileStaysReadable` |
| | `AnswersLast` | `TokensAreAsAnswered` |
| `ModelRouterProofs` | `TypeCorrect` | `TypeOK` |
| | `CircuitShields` | `OpenShields` |
| | `FailuresAreContained` | `FailingIsContained` |
| `PlatformIngressProofs` | `TypeCorrect` | `TypeOK` |
| | `RepeatsAreRefused` | `AcceptedOnce` |
| | `RateIsLimited` | `RateIsKept` |
| | `HistoryShowsTheLast` | `HistoryIsComplete` |
| `ObservationCaptureProofs` | `TypeCorrect` | `TypeOK` |
| | `AnswersAreOwn` | `AnswerIsOwn` |
| | `EvidenceStaysCurrent` | `EvidenceIsCurrent` |

### The inductive invariants

Hardly any of the properties is inductive: what a step does depends on what its
thread read, wrote or drew some steps before, and the invariants say what that is.
`Engaged` and `Undrawn`, which most have, tie a thread's locals to its stage and say
that what was not drawn yet is nowhere.

* *OutboundActions.* A post keeps `PostedTextWasApproved` only if the text in memory was
  approved, which holds of an approved action only; after a restart it must hold of the
  rows; and as long as a request waits for its commits no other one may change the
  action: one thread at most holds the lock (`Serial`). `Mid` says what the request at
  each stage has done. `Implementation` maps the outcome of an action to the status of
  its row (`OutcomeBar`) and shows that every step is one of `OutboundApproval` or
  stutters.
* *MemoryReview.* `Mid` says what an approval has committed at each stage: the item, the
  predecessor, the claim, which is why an approved proposal is durable. `Reserved`: no
  two approvals drew one claim, although nothing locks the service. Items and claims
  have the content of an approved copy (`ItemsWereApproved`, `ClaimsWereApproved`), and a
  row has its copy in memory (`RowsHaveCopies`). `OneClaim` and `ReviewsAreFinal` need a
  second invariant (`JInv`) about proposals that were not raced: one thread has it
  (`Alone`), as it is in memory (`Mirrored`), and the claims that are not refused are one
  and one more for each failed commit and restart (`Budget`). `DetailsAgree`, which holds of
  raced proposals too, says that a row has the predicate and value memory has, or none.
* *SpeechPipeline.* A response is in one place: not drawn, under review, held by one
  thread, or in one job (`Placed`); a worker's job has left the queue (`Taken`).
  `EnoughWorkers` compares two cardinalities, which differ by the dropped jobs at most
  (`JustEnoughWorkers`), so that no more workers than these wait in vain. `Unwanted`: a
  job cancelled in time is still among the cancelled ids, or was dropped. `WillBeIdle`
  names the job that will take the overlay out of its state, or that died or was dropped
  before it did.
* *BehavioralDirectives.* `OnlyApproved` covers memory, rows and what a thread is about to
  write. For directives that were not raced: one thread (`Alone`), which writes what
  memory says (`Mirrored`) and has yet to do so where the row differs (`Settling`).
  `GoneForGood` keeps what was withdrawn gone, in both places. `ClaimsSettle` needs a second
  invariant (`JInv`): a row, and what is about to be written, has the event and value of
  its directive (`Kept`); an approval writes the claim of its own directive (`Asserting`);
  every claim in memory has its row, or a thread that will write it, or was lost
  (`Pending`); and the claim of an answered approval is somewhere (`Claimed`).
* *OAuthTokens.* The right to exchange a code is in one place, the entry (`EntryIsUnused`)
  or the thread that took it (`TakenOnce`). `OneInFile`: what a lone writer will rename is
  what it read with its own token put in. `Settled`: what is stored was answered, or is
  about to be.
* *ModelRouter.* The late calls made and those to come (`Tickets`, counted as thread and
  retry) are no more than `Calls` (`Shielded`); the requests that a failing provider
  used up are counted by its circuit or in hand (`Counted`), as long as one thread at a time
  changes the count and finds what it read (`Alone`).
* *PlatformIngress.* The list of ids and the history show the end of what was accepted,
  and so do the copies about to be assigned (`SeenIsPast`, `EventsArePast`); the guard's
  lists, and the one a thread works with, miss no message that counts (`Guarded`). All of
  it is about runs in which no two threads were in `ingest()` at once.
* *ObservationCapture.* `NumbersAreOwn`: until two threads meet in numbering, whoever has
  written a number has it alone (`Own`), and requests and answers under way carry the
  number of the one who sent them (`Fits`). `NothingIsLost`: what is
  alive and among the newest is in the list and in every copy about to be assigned;
  `ExpiredStayOut`: what had expired when a reader came is in neither.

### What is assumed

Each module's assumption names what its constants are, and TLC evaluates it on every
run of the module: `ConstantsOK`, `ReviewConstants`, `SpeechConstants`,
`DirectiveConstants`, `TokenConstants`, `RouterConstants`, `IngressConstants` and
`CaptureConstants`. Bounds are natural numbers, a placeholder is not a member of the
set it stands beside, and limits which the code sets to a positive number are positive.
`RouterConstants` and `CaptureConstants` also say that the threads are finitely many, and
the former that `Order` names no provider twice (`registry.ordered` is called with distinct
ids, and the router has one circuit for each).

### What the proofs found

Where a proof did not go through the model was looked at again, and changed where it
was wrong:

* `OneClaimPerApproval` was false for more threads than the run has. A claim that the database refused
  stays in memory, a later approval supersedes it and writes its row, and the proposal
  then has two. The foreign key was checked at one of the two commits only; it is now
  checked at both, and the property sets such claims aside by name.
* The guard's lists were sets of times: two messages accepted in one tick were one
  entry, and one message too few was counted. An entry now has its number.
* A reviewed row may still lack its predicate and value, where the second transaction of
  every earlier commit failed. `ReviewIsFinal` therefore allows one change of such a row:
  that it is completed, and just as memory has it (`DetailsAgree`).
* The reader's view in `ObservationCapture` was stated of lists whose order nothing in
  the code changes. As sets of numbers the same can be proved with cardinalities.

### What is not proved

Liveness (`ReleasedIsVoiced`, `WorkersGoOn`, `FirstComesBack`) is checked by TLC only: it
needs fairness and ENABLED, which the provers do not handle. So are the four
violations, which are counterexamples. No theorem speaks of what a recursive
definition computes, and no module has RECURSIVE operators.

## 5. Not modelled

* Vision, OCR, aggregation and knowledge: pure functions of a frame, and read-only
  requests to a service. Their result is a reading or a failure in
  `ObservationCapture`.
* The wording of prompts and the profile (`PUT /me`), the regular expressions of
  `teaching.py`: text without state. What they lead to (a plan, a candidate) is chosen
  freely.
* `reset()` of the memory, items created, edited and deleted directly, source events
  and audit rows of the memory: the reset voids every promise to a request that runs
  meanwhile, and the others are single rows that no reviewed proposal reads.
* `FrameTrigger`, `set_enabled()`, `PlatformEventHub.clear()`,
  `verify_twitch_eventsub_signature()`: nothing in the orchestrator calls them.
* Access tokens preset in the environment, which end in the same senders.
* The web pages but the overlay; start-up scripts, migrations and configuration, but the
  foreign key of `versioned_claims`.
* Clients that stall: `broadcast` would wait for them without end.
* That the platform workers keep the sender and the live chat they started with
  (server.py:268, sessions.py:21), whatever is refreshed or begun later: nothing in the
  repository says otherwise, and the model would only restate it.

## 6. Plan

The model is complete as far as this document says, and every safety property of the
runs is proved. What may still be added:

1. abstract specifications of further components, and the refinement shown step by
   step: of `MemoryReview` (a proposal is open, approved with what it leaves, or
   rejected) and of `OAuthTokens` (a flow buys one token);
2. action properties beyond `ClosedStaysClosed` and `ReviewIsFinal`: of a circuit, which
   opens at the threshold only, and of a withdrawn directive;
3. the safety half of the liveness properties, by which a fair step leads closer to the
   goal, as invariants that can be proved.
