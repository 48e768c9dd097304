# Formal models of run-api

run-api is the backend of a political campaign manager: FastAPI endpoints over
PostgreSQL, a Procrastinate worker for background tasks, MinIO for files,
Twilio and Mailgun for messages, and a web client that keeps working offline.
This directory holds TLA+ models of the parts whose correctness depends on the
order in which several actors do things, the TLC runs that check them and the
TLAPS proofs about them. Paths below are relative to the repository.

## Inventory

| Part | State it keeps | Operations | What is hard | What makes it correct |
|---|---|---|---|---|
| Chunked voter import (`app/tasks/import_task.py`, `app/services/import_service.py`) | `import_jobs` and `import_chunks` rows, the task queue, one ORM session per task | split, run a chunk, promote the next chunk, phone and geometry tasks, complete a chunk, finalize the parent, cancel | several workers on snapshots of shared rows; tasks deferred before rows commit; failures at every await; a try-lock | each chunk's work done once, parent's result and totals agree with the chunks, somebody always finalizes |
| Import recovery (`app/services/import_recovery.py`, `recover_import`, `scripts/worker.py`) | `last_committed_row`, `last_progress_at`, session advisory locks | scan at worker start, resume or finalize | crash between two commits, recovery next to a live worker, an import confirmed again while it runs, pooled lock sessions | no row imported twice, no import lost |
| Import API (`app/api/v1/imports.py`) | `import_jobs` | upload, detect columns, confirm, cancel, delete | checks on a status read earlier; commit and defer are two steps | a status only moves forward; a QUEUED job has a task |
| Phone banking (`app/services/call_list.py`, `phone_bank.py`) | call lists, entries and their claims, sessions, callers | claim, record a call, reassign, release, check in and out | stale claims, concurrent callers, JSON columns grown in place | one caller per entry, finished entries stay finished, counters add up |
| Shifts (`app/services/shift.py`) | shifts, signups, waitlist positions | sign up, cancel and promote, assign, check in and out | check-then-insert, promotion under row locks | capacity kept, no free place while someone waits |
| Offline field sync (`web/src/stores/offlineQueueStore.ts`, `hooks/useSyncEngine.ts`, `app/services/canvass.py`) | persisted queue, dead letter, door-knock rows | push, drain, back off, retry, discard | lost answers, reloads, duplicate replays | every knock recorded once |
| SMS and webhooks (`app/services/sms.py`, `twilio_webhook.py`, `communication_budget.py`, `app/api/v1/webhooks.py`) | messages, conversations, opt-outs, webhook events, ledger | send, inbound, status callbacks, budget gate | duplicate and reordered callbacks, check-then-send | no event lost or applied twice, opt-out respected |
| Joining a campaign (`app/services/volunteer_application.py`, `invite.py`, `app/tasks/invite_tasks.py`, `email_delivery.py`, `mailgun_webhook.py`) | applications, invites, users, members and volunteers rows, e-mail attempts | apply, approve, reject, invite, revoke, accept, e-mail, provider events | nothing is locked; an approval commits half-way; an e-mail is submitted before its attempt is committed | one account per address, a decision is what the applicant meets, the status shown is the worst reported |
| Campaigns and members (`app/services/campaign.py`, `zitadel.py`, `join.py`, `app/api/v1/members.py`, `app/api/deps.py`) | campaigns, campaign and organization members, grants in ZITADEL | create, suspend, delete, register, add, change a role, remove, transfer ownership, sync a token | a remote step before every commit; compensations; decisions on rows read before the remote step | owners are members, no grant without a membership, the organization lives as long as its campaigns |
| Volunteer records, voters, surveys, turfs, lists, dashboards, auth, RLS, voice, phone validation, DNC, storage, web UI | rows and queries | CRUD, queries, per-request checks | little concurrency of their own | see *Not modelled* |

The parts meet in three places: the PostgreSQL rows, the Procrastinate queue
(a task is stored over a connection of its own the moment it is deferred,
whether or not the deferring session commits), and provider callbacks.
`PROJECT.json` lists the hazards of the code line by line.

## Modules

| Module | What it is |
|---|---|
| `ImportOutcome` | the abstract promise of a chunked import: chunks settle once, the parent's result comes after the last and is what they add up to |
| `ChunkedImport` | the import as the code does it, and its properties |
| `ChunkedImportMC` | small instances for TLC, used by every `ChunkedImport_*.cfg` |
| `ChunkedImportProofs` | its invariants, a theorem for each of its safety properties, and the proof that it implements `ImportOutcome` |
| `ImportRecovery` | one import from upload to result across worker crashes: endpoints, serial engine, advisory lock, startup scan, `recover_import`; `ImportRecoveryMC` is its instance |
| `ImportRecoveryProofs` | its inductive invariant and a theorem for each of its safety properties |
| `CallClaims` | a call list's entries between callers, supervisors and timeouts; `CallClaimsMC` |
| `CallClaimsProofs` | its inductive invariant and a theorem for each of its properties |
| `ShiftSignup` | one shift's signups, waitlist, promotion and check-ins; `ShiftSignupMC` |
| `ShiftSignupProofs` | its inductive invariant and a theorem for each of its properties |
| `SmsDelivery` | texts to one voter, replies, delivery callbacks and the cost ledger; `SmsDeliveryMC` |
| `SmsDeliveryProofs` | its inductive invariant and a theorem for each of its properties |
| `Onboarding` | how one e-mail address joins one campaign: application, invites, their e-mails, acceptance; `OnboardingMC` |
| `OnboardingProofs` | its inductive invariant and a theorem for each of its properties |
| `Membership` | the campaigns of one organization, their members and what ZITADEL is told; `MembershipMC` |
| `MembershipProofs` | its inductive invariants and a theorem for each of its properties |
| `OfflineSync` | a door knock from the tap to its row on the server, over a network that loses requests and answers |
| `OfflineSyncMC` | a small phone for TLC, used by every `OfflineSync_*.cfg` |
| `OfflineSyncProofs` | that no saved knock is lost, and that the drain's snapshot is never stale |

### ChunkedImport and the code

`job`, `total` and `chunk` are the committed rows; `queue` is what Procrastinate
would still hand out; `jobView` and `chunkView` are a task's ORM session.
The session semantics carry most of the subtlety:

* the session factory sets `expire_on_commit=False`, so a task works on the
  snapshot it loaded until it calls `refresh`; a commit writes only the
  attributes the session changed, so `CommitChunk` takes the row written and the
  view kept separately;
* a rollback expires everything. Reading an expired attribute outside an awaited
  call raises `MissingGreenlet`; a modified row is read again by its flush.
  `jobView = Expired` is that state, and it is why a failed task cannot finalize
  (`FinalizeGiveUp`) and why `BatchFail` fails the whole chunk instead of
  writing an error file and going on;
* a plain JSONB attribute that is assigned the list object it already holds is
  not changed as far as SQLAlchemy can tell. `BatchCommit` therefore writes the
  manifest only for a chunk's first batch; `owed` remembers what the batches
  really found.

One action is one transaction, one deferral or one read on which a later write
depends. Three places merge commits with nothing observable in between:
`ChunkBegin` (PROCESSING, then the reset of the counters), `FailChunk` (the
status, committed in the error path and again on the way out) and `Finalize` (the
summary query and the commit, under the advisory lock). `FinalizeLock` is the try-lock and
the refresh. The row lock of a promotion is `Unlocked`, the row lock
that the flush of `process_import` holds on the parent is `JobRowFree`.

| Code | Actions |
|---|---|
| `process_import` | `ImportLoad`, `ImportSkipCancelled`, `ImportBegin`, `SplitDefer`, `SplitCommit`, `SplitFail`, `ImportFailed` |
| `process_import_chunk` | `LoadChunk`, `LoadJob`, `ChunkSkip`, `ChunkBegin`, `SecondaryDefer`, `SecondaryPublish`, `DeferFail` |
| `process_import_range`, `_process_single_batch` | `BatchCommit`, `RefreshJob`, `RangeCancelled`, `BatchFail`, `DecodeFail` |
| `_promote_next_pending_chunk` | `PromoteDefer`, `PromoteCommit`, `PromoteNone` |
| the phone and geometry tasks | `LoadChunk`, `LoadJob`, `SecondaryBegin`, `SecondaryApply`, `SecondaryFail` |
| `maybe_complete_chunk_after_secondary_tasks` | `NotComplete`, `AlreadyEnded`, `CompleteChunk` |
| `maybe_finalize_chunked_import` | `FinalizeGiveUp`, `FinalizeLock`, `Finalize`, `FinalizeTooEarly`, `MergeFail`, `FinalizeClose` |
| `cancel_import` | `CancelCheck`, `CancelCommit` |

Abstracted: file contents are numbered batches, each finding any subset of
phones and geometry; `imported` counts committed batches in place of rows, so a
batch counted twice shows; skipped rows, phone counts, error texts and
timestamps are left out. The import advisory lock always succeeds, because only
one import task exists here. The queue is a set from which any task may come
next, which includes Procrastinate's order. Tasks are not retried, as in the
code. Database commits do not fail and workers do not crash in this module:
crashes, recovery and the serial path (imports too small to split) are
`ImportRecovery`'s.

### ImportRecovery and the code

`job` is the committed row, `view` what a task's session holds, `pending` a
flushed row that is not committed and keeps others waiting. A worker process
runs one task at a time over one pooled connection, so the session advisory lock
is the process's: a crash leaves it `"dead"` until the server notices
(`ServerNotices`). `last_progress_at` is only compared with the orphan
threshold (`Aging`, `IsStale`).

| Code | Actions |
|---|---|
| `scripts/worker.py`, `scan_for_orphaned_imports` | `Start`; a recovery deferred by hand is `DeferRecovery`, external |
| `process_import` | `Load`, `Claim`, `ClaimRefused`, `ImportStart`, `ImportResume`, `ImportCancelled`, `ImportSerial`, `ImportSplit`, `TaskFail`, `TaskGone` |
| `recover_import` | the same claim, `RecoverSkip`, `RecoverStart`, `ResultCommit` |
| `process_import_range`, `_process_single_batch` | `EngineBegin`, `BatchCommit`, `EngineRefresh`, `EngineFinish`, `ResultRefresh` |
| `process_import_chunk`, its completion | `ChunkLoad`, `ChunkCancelled`, `ChunkBatch`, `ChunkEnd`, `ChunkFail`, `ChunkSettle`, `ChunkGone` |
| `detect_columns`, `confirm_mapping`, `cancel_import`, `delete_import` | `Ask`, `DetectColumns`, `ConfirmCommit`, `ConfirmDefer`, `ConfirmRefused`, `CancelImport`, `DeleteImport`, `AskGone` |
| the process and the server | `Fetch`, `Crash`, `ServerNotices` |

**No orphan is ever found.** The scan asks in SQL for `status = :processing` with
`ImportStatus.PROCESSING.value` (`app/services/import_recovery.py:88`,
`:106`). The column is `Enum(ImportStatus,
native_enum=False)` without `values_callable` (`app/models/import_job.py:61-63`), which
stores the names of the members: it holds `PROCESSING`, and `'processing'` matches no
row. `ScanFinds` says so, hence `Start` queues nothing in any behaviour, although
`.planning/milestones/v1.10-ROADMAP.md:40` has the worker find stale imports at its
start. `recover_import` itself compares members, in Python, and works: the
module runs it as deferred by hand (`DeferRecovery`), which is the only way it
can run. So the model promises nothing about an orphan being recovered; what it checks of
recovery is that one does no harm.

This is where the two import modules meet: a large file is split, and of its
chunk tasks this module keeps what settles the parent (a chunk is one
batch, is loaded or skipped by its status, ends COMPLETED, CANCELLED or FAILED, and
the last one may give the parent its result), so that a recovery of a split
import, or another split of it, can run beside them. `detect_columns` writes
UPLOADED whatever the import is doing, and `confirm_mapping` reads the status only
once, so a running import of any size can be confirmed again: the engine then
resumes by `last_committed_row`, but a large file is split again beside the rows of its first
split. `ImportedOnce` counts this instead of forbidding it: a batch once in
each split, once in the engine. Error files and storage are left out; requests are
a bag, because two equal ones may be in flight.

### ShiftSignup and the code

A request is one transaction. Requests that lock the shift row
(`_get_shift_raw(..., for_update=True)`) decide in `SignupVolunteer`,
`ManagerAssign` or `CancelSignup` and write in `Commit`; `check_in` and `check_out`
read the signup first (`CheckRead`) and lock and write later (`CheckWrite`). A
cancelled signup keeps its row and its unique key, so signing up again ends in
`InsertRefused`. `Rollback` is any request that does not commit, the deadlock of a
check-in (row, then shift) with a cancellation (shift, then row) included.
`UpdateShift`, `UpdateStatus` and `DeleteShift` are the manager's. Only SIGNED_UP counts
as a place taken: somebody checked in makes room for another signup, so
`max_volunteers` bounds the places promised and not the people present; `allowed`
counts what the code grants. Hours, eligibility checks, the emergency contact and
listings are left out, and so are the `session_callers` and `walk_list_canvassers` rows that a
check-in and check-out write as well. The phone bank writes the first too
(`remove_caller`, `check_in`, `check_out`, `app/services/phone_bank.py:302-405`), walk lists
the second, and `update_shift` may point a shift with people checked in at another session:
they agree with the signup only for a moment, and no decision here reads them. Their
insert may fail and the check-in with it (`Rollback`). Of the fields that `update_shift`
may set, the maximum is the only one on which a signup depends.

### CallClaims and the code

`claim_entries` is `ClaimSelect` (release the stale, take one with SKIP LOCKED) and
`ClaimCommit`; its rows stay locked in between (`RowFree`). `record_call`,
`self_release_entry`, `force_release_entry` and `reassign_entry` read the entry, check
what they read and write only the attributes that changed (`Write`, `Set`), so
they are a `...Read` and a `...Write`. `ReleaseAll` is the bulk update of a check-out,
of a removed caller and of a completed session. `screen` is the calling page,
which keeps its voter in memory: `Reload` loses it, the claim stays. As in the code,
a claim does not look at the session, so pausing changes nothing for it.
`TriedWritten` keeps a dictionary that is grown in place as SQLAlchemy does: only a
first number reaches the row. One list and one session; session counters,
`cooldown_minutes` (stored, never enforced), appending to a list and deleting one
are left out.

### SmsDelivery and the code

A send is the check (`SendSms`; for a batch `BulkSend`, which asks for the budget once,
`BulkQueue` for each recipient and the task's `TaskCheck`), the row
lock that `get_or_create_conversation`'s flush takes (`LockConversation`), the call of
Twilio (`Submit`) and the commit (`SendCommit`). A webhook is refused (`Refuse`: 404 for a
number nobody has, 403 for credentials or a signature that do not fit, 429) or is two transactions:
`Receive` records the event (`check_idempotency`), and `ReplyRead`, `ReplyCommit` or
`StatusRead`, `StatusCommit` apply it; a crash or a unique index in between loses it,
since a redelivery is a `Duplicate`. Twilio takes texts, posts their states in any
order and posts again what was not answered.

**Most delivery states are refused.** Before anything else a webhook looks up the
organization by `To` (`app/api/v1/webhooks.py:164`, `app/services/twilio_webhook.py:72-79`).
In a reply that is the organization's number; in the status callback of a text we sent it is the
voter's, so the answer is 404 and no event is recorded, although the tests post
statuses with the organization's number there (`tests/unit/test_sms_webhooks.py:43`, `:76`).
`Resolved` and `owned` say so: a status passes only where the text went to a number
that is in `org_phone_numbers` as well. In that case `SettledStays` and `AppliedOnce` speak of
statuses; in the other they speak of replies only, and costs stay pending. TLC explores both.
That a row ends up at the provider's state is therefore not a property, and `provider_status`,
which no decision reads, is left out.

One voter and one number; `Reported` are the texts whose states are posted at all,
because `messages.create` passes no `status_callback` and that is set up outside the
code. Voice webhooks have the same two transactions and are not modelled, nor are read
cursors and templates.

### Onboarding and the code

Requests of admins and invitees share the slots of `req`, which hold what a
request has read. `create_invite` inserts and commits (`CreateInvite`, or
`ApproveInvite` inside an approval), `enqueue_invite_email` commits QUEUED and then
defers (`QueueMail`, `DeferMail`, `DeferRaises`, `MarkFailed`); an approval decides
afterwards, in a transaction of its own (`ApproveCommit`). `Inserts` is the
unique index on open invites, which does not ask whether they have expired, and
`AcceptCommit`'s guard the one on memberships; `users.email` has none. The e-mail
task is `MailLoad`, `MailSubmit`, `MailCommit` with its skips, refusals and death; an
event meets the attempt row only after `MailCommit` (`Receive`) and is applied in a
second transaction (`HookCommit`).

`Promotes` is `should_promote_status` with its two defaults
(`app/services/email_delivery.py:27-31`): a status without a rank always takes over and
afterwards ranks below everything. The webhook makes such statuses: an event
type it does not know, *opened* or *clicked* say, is passed through as it is
(`app/services/mailgun_webhook.py:130`). A click thus makes the e-mail forget that it
bounced, and the next *delivered* is shown, where the docstring promises a status "at least
as authoritative" (`email_delivery.py:28`). `MailShowsWorst` therefore says that the
status is the worst since the last event without a rank; `reported` keeps these.

| Code | Actions |
|---|---|
| `create_invite`, `enqueue_invite_email` | `CreateInvite`, `QueueMail`, `DeferMail`, `DeferRaises`, `MarkFailed` |
| `approve_application` | `ApproveRead`, `ApproveInvite`, the four above, `ApproveCommit` |
| `reject_application`, `revoke_invite` | `RejectRead`, `RejectCommit`, `RevokeInvite` |
| `accept_invite_native` | `AcceptRead`, `AcceptCommit` |
| `send_campaign_invite_email` | `MailSkip`, `MailLoad`, `MailRefused`, `MailSubmit`, `MailCommit`, `MailDies` |
| `mailgun_events` | `Receive`, `HookCommit`, `HookDies` |

One address, one campaign of an organisation, one application made without a
login. E-mails do not depend on one another, so one is followed only while the address
has a single invite, and a second one is created only before that (`OnlyOne`,
`Unworked`). An applicant with an account is looked up among all accounts of the
address at every approval, also where the code has kept the first one found.
Left out: `accept_invite` (no endpoint calls it), organisation membership,
campaigns without an organisation (their duplicates are recognised otherwise),
applications of logged-in users, signup links, join links, volunteer tags and
hours. Row-level security is left out too: the API of `docker-compose.yml` connects
as a superuser, to whom it does not apply.

### Membership and the code

`member` and `seat` are `campaign_members` and `organization_members`, `grant` what ZITADEL
has granted to a user in the organization, `token` what the user's token says of it
until it is renewed. A request reads (`...Read`), calls ZITADEL (`...Assign`,
`RemoveRevoke`) and commits (`...Commit`); the calls of one request are one step, any
of them may fail. Creation and transfer take back what they asked for when
their commit fails (`CommitFails`, `Undo`); role changes and removals do not. A
registration means to: "attempt to remove the orphaned role" (`join.py:190`). But its
handler reads `campaign.zitadel_org_id` after the rollback has expired the campaign (`:209-217`), which
raises under an `AsyncSession` and is swallowed by the handler's own `except`, so
ZITADEL is never called: `Dies`, and the user is `astray`. In the same way a transfer whose
new owner's row has gone fails in its flush, and the log call that reads `campaign.id`
(`members.py:358-363`) raises before any of the four compensations: `TransferMisses`. `gone` is a
row that was deleted after a request had read it: an update of it fails, a second
deletion does nothing. A deletion flushes the status before it counts the siblings,
so its campaign is locked until it commits (`RowFree`); a registration holds its unique
key (`KeyFree`). `EnsureUserSynced` is what every request does first: it makes anyone
whose token names the organization a member of all its campaigns, so that somebody
who was removed is back with the next request until the token is renewed.

| Code | Actions |
|---|---|
| `ensure_user_synced`, `get_current_user` | `EnsureUserSynced`, `RenewToken` |
| `create_campaign` | `CreateRead`, `CreateAssign`, `CreateCommit`, `CreateCollides` |
| `register_volunteer`, `add_member_to_campaign` | `JoinFlush`, `JoinAssign`, `JoinCommit`, `AddMember` |
| `update_member_role`, `remove_member` | `RoleRead`, `RoleAssign`, `RoleCommit`, `RemoveRead`, `RemoveRevoke`, `RemoveCommit` |
| `transfer_ownership` | `TransferRead`, `TransferAssign`, `TransferCommit`, `TransferAborts`, `TransferMisses` |
| `update_campaign`, `delete_campaign` | `StatusRead`, `StatusCommit`, `DeleteFlush`, `DeleteCommit`, `Deactivate` |

One organization; its project grant exists; the role manager is left out, members
without a role (older rows) too. ZITADEL may refuse a second grant as existing, which
`assign_project_role` takes for success, so `Assign` has two outcomes.

### OfflineSync and the code

One browser tab, one page at a time. `items`, `dead` and `pushed` are what
`partialize` keeps in localStorage; `syncing`, `todo` and `sending` are the lock,
the snapshot and the awaited request of one `drainQueue`; `call`, `last` and `toast`
are the POSTs, the payload ref and the retry toast of the wizard; `rows` are the
client_uuids the unique index holds. A knock is its own call-site client_uuid; a
queue id stands for the `crypto.randomUUID()` of a push. `stray` holds requests whose
caller has stopped waiting (timeout, broken connection, reload) and that the
server may still handle, so a request or an answer can be lost or late.
A 5xx is a lost answer, because a proxy may send it after the commit; so is a 401
or 403, which `api/client.ts` throws without a response. `saved` and `discarded` are
history: what the volunteer was told, and what the volunteer dropped.

| Code | Actions |
|---|---|
| `submitDoorKnock`, its retry toast | `SubmitOnline`, `SubmitOffline`, `PostSaved`, `PostFailed`, `PostBroken` |
| `push` | `Push`, part of `SubmitOffline` and `PostBroken` |
| `drainQueue` | `DrainStart`, `DrainSend`, `DrainRemove`, `MoveToDeadLetter`, `DrainBackoff`, `DrainEnd`, `BackoffOver` |
| `retryDeadLetter`, `discardDeadLetter` | `RetryDeadLetter`, `DiscardDeadLetter` |
| `record_door_knock`, endpoint and service | `HandlePost`, `HandleReplay`, `HandleStray` |
| the browser | `Connectivity`, `Reload`, `Settle` (from here on nothing fails) |

Abstracted: payload contents but the triple the double-tap guard compares, retry
counts and times (an item is in backoff or it is not), queries to refresh, toasts
but the one with a Retry action, the server's walk-list counters. Left out: call
records, which carry no client_uuid; a localStorage that refuses a write, where `push`
keeps the item in memory only; several tabs; the migration of old queues.

### Runs

Each run uses the `...MC` module of its configuration's name. `CHECK_DEADLOCK FALSE`
throughout: every one of these systems may come to rest, an import with an empty
queue and idle workers, a shift when it is deleted, a list when it is completed.

| Run | Instance | Shows |
|---|---|---|
| `tasks` | 3 chunks of 1 batch, cap 2, the first with phones and addresses, 2 workers, 1 cancel request, every fault; about 450,000 states | `TypeOK`; `ParentReflectsChunks`; `CompletedIsApplied`; `NoDoubleDispatch`; `WithinCap`; `Implements` (refinement of `ImportOutcome`) |
| `liveness` | 3 chunks of 2 batches, cap 2, both kinds, 1 worker, 1 cancel request, no fault; about 28,000 states | `CancelStopsSoon`, `ImportEnds` |
| `recovery` | 2 batches, serial or split up to twice, 2 workers, 1 crash, 1 failing step, 1 recovery by hand, 2 API requests (3 where nothing of that happens); about 1,920,000 states | `TypeOK`, `ImportedOnce`, `NothingSkipped`, `QueuedHasTask` |
| `calls` | 2 callers, 1 voter with 2 numbers, 2 attempts, 2 requests, 2 results, 1 intervention; about 849,000 states | `TypeOK`, `OneCallerPerVoter`, `ReachedStaysDone`, `TriesRunOut`, `ClaimHasOwner` |
| `waitlist` | 3 volunteers, capacity 0 to 2, 3 requests, 1 change of capacity, 3 checks; about 1,270,000 states | `TypeOK`, `CapacityHeld`, `NoPlaceIdle`, `PositionsDistinct`, `FirstComeFirstPromoted`, `CancellationStands` |
| `texts` | 1 single and 1 bulk text, the voter's number the organization's as well or not, 2 replies, 2 webhook requests, 1 crash; about 1,620,000 states | `TypeOK`, `KeywordDecides`, `AppliedOnce`, `OptOutHeld`, `SettledStays` |
| `joins` | 2 invites, 2 requests, 2 webhook requests, events *delivered*, *bounced* and *opened*; about 1,122,000 states | `TypeOK`, `OneAccountPerAddress`, `DecisionReachesApplicant`, `MailShowsWorst` |
| `members` | 2 users, one of another organization, 2 campaigns, 3 requests of which 2 overlap, 2 failures; about 2,700,000 states | `TypeOK`, `CreatorIsMember`, `GrantHasMember`, `OrgFollowsCampaigns` |
| `offline` | 2 knocks, 2 ids to push under, 1 POST at a time, every fault until the connection settles; about 610,000 states | `TypeOK`, `NothingLost`, `KnockArrives` |
| `cancel` | 2 chunks, cap 1, 1 worker | violated: `CancelEndsEveryChunk` |
| `fanin` | 2 chunks, 2 workers, no fault, no cancellation | violated: `EndedChunksFinalize` |
| `offline_once` | 1 knock | violated: `AtMostOnce` |

Why the bounds are enough: every hazard concerns a pair of actors, two
workers, two requests, or a worker and an admin, and every run has such a pair.
Two chunks are enough for a fan-in and three for a promotion to compete with
another under a cap of two. Two batches separate "between batches" and "after the
last batch"; one crash with two workers lets a recovery run beside a live task. Confirming
an import a second time takes three requests (detect, confirm, confirm) and two splits; the
constraint `ThirdAlone` keeps that case apart from a crash, a failing step and a
recovery, each of which it meets only with two requests. Three volunteers make a line of
two behind one place, or of three behind none. Two callers meet on one voter; two
numbers are as many as the code retires (`TriesRunOut` names it). Two
replies can carry STOP and START, one reported text has three states
to reorder, and two invites are an address invited, revoked and invited
again. Three requests create a second campaign and delete both. Interchangeable values
are identified by symmetry in safety runs; the temporal runs of the imports and the
phone use none.

Where the code leaves a gap, the property names it with a history variable, so that it
says exactly when the promise may break and that nothing else breaks it:
`outdated` (a task resumed on a row it had read before it held the import's lock),
`stranded`, `taken` and `late` in `CallClaims` (a claim ended by somebody else, a
write on an outdated read), `vacated` in `ShiftSignup`, `late` and `mixed` in
`SmsDelivery`, `overtaken`, `crossed`, `halfway`, `unseen` and `astray` in
`Onboarding`, `raced`, `astray` and `lapsed` in `Membership`. `owed` in `ChunkedImport` is
of this kind: what a chunk's later batches find is never applied, because the
manifests are saved once, and `CompletedIsApplied` promises the first batch's only. Each gap was put in because
TLC found its counterexample without it.

In `offline` two knocks make a snapshot of two and a push during a drain; two ids
bound the pushes (a push with no id left waits); one POST at a time still meets the
drain and stray requests, and a Retry of the toast can resubmit a knock that is queued.

The violated properties are statements of the repository's planning documents
and comments that the code does not meet; `PROJECT.json` quotes each one under
`findings`. A parent also stays PROCESSING when chunks fail in their
primary work, because the statuses of their secondary tasks stay PENDING; `fanin`
shows the same outcome without any failure. `offline_once` ends in a knock with two rows: the server commits the
POST, its answer is lost, `push` stamps a new client_uuid over the one just used, and
the replay is not recognised. The import's counterexamples do not depend on the unordered queue: each is
possible when tasks are fetched first in, first out.

### Fairness

`FairSpec` gives weak fairness to each worker slot: the worker process runs
Procrastinate's loop, which fetches as long as tasks exist and awaits each
task to its end. Nothing is assumed of admins, and a weakly fair worker may
still choose the failing step, where faults are allowed. With two workers the
positive liveness properties do not hold (run `fanin`, and the status QUEUED
that overwrites a secondary task's COMPLETED), so `liveness` states them for
one worker: `k8s/apps/run-api-prod/worker-deployment.yaml` asks for one replica and
`scripts/worker.py` runs it with Procrastinate's default concurrency of one. Two workers run
during a rolling update or when the deployment is scaled out.

`ImportRecovery` states no liveness: an orphan has no task, and nothing the code does gives it
one. Nor do `CallClaims`, `ShiftSignup`, `SmsDelivery`, `Onboarding` and `Membership`: their
actors are people and providers, who owe the system no step.

`OfflineSync!FairSpec` gives weak fairness to the drain (a timer calls it every 30
seconds while online, and each of its awaits ends), to the server's answer to a
replay and to the passing of a backoff. `KnockArrives` is conditional on `healthy`: no
fairness is asked of the network, of the volunteer or of the page.

## Proofs

`ChunkedImportProofs` is checked by TLAPS for every number of chunks and
batches, every cap, any set of workers and requests, and any set of faults,
from `ParametersAssumption` alone.

* `TypeCorrect`: `Spec => []TypeOK`. Types are inductive only together with
  `PlaceInv` (where a worker is and which kind of task it runs agree), since a commit
  writes to the chunk of the worker's task.
* `DispatchedOnce`: `Spec => []NoDoubleDispatch`: no task is run by two workers or
  queued while it runs, and no worker is about to defer a task that is live. A deferral is safe only if the
  task it stores is not live. The invariant `DispatchInv` says why, for the three
  places that defer: before the split commits there are no rows and only the chunks deferred
  so far have tasks (`SplitInv`); a committed pending row has a task only while
  its promoter still holds the row's lock (`PromoteInv`); a chunk's secondary tasks
  exist only after its worker has deferred them, and that worker saw them
  PENDING in its own view (`SecondaryInv`), which rests on a worker's chunk having a
  row nobody promotes (`RowInv`).
* `DispatchCorrect`: `Spec => []DispatchInv`, the inductive invariant itself.
* `CapIsKept` and `CancelIsSeen`, from `PaceInv` over `DispatchInv`: `WithinCap` and
  `CancelStopsSoon`. A promotion stores a task while its own chunk leaves the promoter's
  primary work, so the set `InFlight` loses one and gains one; a chunk that may still commit a batch
  before its worker looks at the parent (`BeforeBatch`) has committed none late.
* `SettleCorrect`: `Spec => []SettleInv`, the heart of the fan-in. Whoever ends a task
  decides on a view nobody refreshes whether the chunk is complete. A view may lag behind
  the row and the row behind a view (the published statuses overwrite what a task has
  committed), so neither order holds between them. What holds is that neither shows a task
  ended that is still `Ahead`; that the chunk's own worker, while a
  task is not deferred, works on a chunk that has not ended (`RunInv`); and that at
  most one worker is about to complete a chunk (`CompleterInv`), because the second would
  have to have seen the first one's task ended while that task was ahead.
* `JobCorrect`: `Spec => []JobInv`: who finalizes holds the lock alone and the parent
  has no result yet; what a session knows of a cancellation is so.
* `ParentAddsUp`: `Spec => []ParentReflectsChunks`. The summary is read with no lock on
  the chunks; it stays true because an ended chunk keeps its status and its count in every step
  (`EndedKept`, from `SettleInv`) and a second result needs `JobInv`.
* `ImportKeepsPromise`: `Spec => Promise!Spec`, the refinement, step by step: a step
  shows nothing of the chunks, one more batch of an open one or the end of an open one
  (`Shows`), and what it writes to the parent is one of the abstract import's actions (`JobWrite`).
* `CompletedMeansApplied`: `Spec => []CompletedIsApplied`, from `WorkInv` over the three invariants
  above. A chunk is called COMPLETED on a view that shows both tasks completed, which may have been
  loaded before either of them ran. `RowGood` and `ViewGood` say what rows and such
  views may be trusted with: a task they call completed has nothing left in the row's manifest;
  a cancelled one is explained by the cancellation the session has seen; a task's view
  has at least its kind's work in the row, so that what it applies is all of it.

TLC finds all five invariants true on the instance of `tasks`, and `WorkInv` also with two
batches.

`ImportRecoveryProofs` is checked for any workers and any number of batches, requests,
splits, recoveries, failures and crashes, from `RecoveryAssumption` alone.

* `TypeCorrect`, `ProgressIsImported`, `QueuedNotLost` and `ImportedOnceOnly` come from one
  inductive invariant, `IInv`. Tasks work on rows they have read long ago, so `NothingSkipped`
  is stated of every row a session holds (`RowsSound`): voters imported stay, a
  cancellation stays and a deletion stays, so what an old row says of them is still true.
  `Flushed` and `Engines` carry it through the engine's steps.
  `QueuedHasTask` must say that a running task will take the import out of QUEUED
  (`Takes`), by what its view shows. `ImportedOnce` needs an
  account of each batch (`Times`): once if the progress counts it, once if its chunk is completed,
  once for each claim on an outdated view; a worker in the middle of the
  engine owes the same for its own position (`TimesAt`). An import may be split
  any number of times: that the rows of a split are there once it is made, and none of a later one, is
  `ChunksSay`; that each chunk has one task, which commits its batch once, is `ChunkTasksApart`.

`CallClaimsProofs` is checked for any callers, voters and requests, any finite non-empty
set of numbers, any `MaxAttempts` and any number of results and interventions, from `CallAssumption`
alone. That each voter has a number is the code's: voters without one are not listed.

* `TypeCorrect`, `VotersNotShared`, `DoneStaysDone`, `TriesAreBounded` and `ClaimsCanTimeOut`
  come from one inductive invariant, `IInv`. Requests write over rows they have read before. A
  claim's rows stay locked, so they are as it found them (`ClaimsHold`) and no other claim
  has them (`ClaimsApart`); any other write that finds its row as it was read finds it in
  progress, and one that does not is `late`. `RowsGood` says what an entry that is not late shows: of its
  tries, of two numbers (only the first wrong one is saved), of a voter who was
  reached and of who holds the claim.

`OnboardingProofs` is checked for any number of invites, any requests and webhook requests and
any set of events, with or without a rank, but for the three statuses only the program
itself writes, from `OnboardingAssumption` alone.

* `TypeCorrect`, `OneAccount`, `DecisionIsTrue` and `MailStatusIsWorst` come from one
  inductive invariant with three parts that hardly meet. `People`: an acceptance that found no account when
  there was one will be counted as overlapping. `Decision`: an approval commits
  its invite before itself, so what it has found or done is stated while it is in flight
  (`ApprovalsSay`), and nothing is left of one that did not commit (`StillUntouched`).
  `Mailing`: an invite has one request until its task is stored, an attempt is
  committed once, each event is in one handler's hands, and the status is the worst of the
  events applied since the last one without a rank (`WorstSoFar`), for any set of event types.

`OfflineSyncProofs` is checked for any knocks, triples, ids and calls, from
`IdsAssumption` alone.

* `SyncTypeCorrect`, `SavedIsNeverLost` and `SnapshotNeverStale` come from one
  inductive invariant, `IInv`. `NothingLost` is not inductive: the drain drops an item
  on a 201 or 409 and must know that the row exists then (`ReplayTrue`), as must a
  call that reports success (`PostsTrue`); and a dead letter is made only of an item that is
  still queued, which needs the lock and the snapshot (`ReplayTrue` again). Every
  action owes three things (`Owed`): those parts, that `Places` only grows and ids keep
  their knock, and a place for each knock it newly reports saved.

`ShiftSignupProofs` is checked for any finite set of volunteers, any requests, any
capacities and any number of changes and checks, from `ShiftAssumption` alone.

* `TypeCorrect`, `CapacityNeverExceeded`, `NoPromotionLost`, `LineHasAnOrder` and
  the action properties `PromotionsInOrder` and `CancelledStayOut` come from one
  inductive invariant, `IInv`. None of them is inductive: a request decides in one step
  and writes in another. What carries them is that at most one request holds the shift
  row (`OneHolder`) and that what it has decided stays true until it commits
  (`HolderDecided`): the place it found is free, the position it computed is behind the
  line, the one it promotes is first in line. `LineBounded` is why `EndOfLine` exists,
  and `RowsInv` and `ChecksSomebody` say what requests and rows can be.
  The steps that write are proved through the sets they change, `SignedUp` and
  `Waiting`, with `FiniteSetTheorems` for the cardinalities. `CancelledStayOut` needs besides that
  a check has read a signup that was active (`ReadActive`).

`SmsDeliveryProofs` is checked for any finite set of texts, any replies, webhook
requests, budget and number of crashes, from `SmsAssumption` alone.

* `TypeCorrect`, `LastKeywordDecides`, `EventsOnce` and the action properties
  `OptOutRespected` and `CostsStaySettled` come from one inductive invariant, `IInv`.
  Whether a text may be handed over is decided two steps before it is, so `OptOutHeld`
  needs `GapInv`: a text that is checked or locked was checked before the voter opted
  out, or is `late`; and `SendInv`: what Twilio has is never handed over again, and only a
  text that is done has rows. `HookInv` carries `EventsOnce`: what a handler works on is
  recorded and not applied yet, and what was applied is recorded, so that a request which records
  an event is the only one to have it. `CostsStaySettled` needs that a pending cost can only be written by the
  commit that inserts it.

`MembershipProofs` is checked for any users, any finite set of campaigns, any requests
and any number of failures, from `MembershipAssumption` alone.

* `TypeCorrect`, `CreatorStaysMember` and `OrgLivesWithCampaigns` come from one
  inductive invariant, `IInv`. A request reads, calls ZITADEL and commits, and others
  commit in between; so `IInv` says what a request that has read may still rely on.
  The row a removal deletes is not the owner's unless the campaign is `raced`
  (`RemovalsSpareOwner`); the row a role change, removal or transfer read is there until it is marked as gone
  (`RequestsSeeRow`); a campaign being created is nobody else's business
  (`CampaignsKnown`); and unless `lapsed`, no campaign lives where a deletion is
  about to end the organization, and where none is, the organization is active as long as one lives (`DeletesKnow`). `Kept` shows once that steps which only add members and
  let requests go on disturb none of this; the reads owe `Admitted`, and the six
  commits that do disturb something are a lemma each.
* `GrantsHaveMembers` takes more, `GInv`: each grant is accounted for, by a membership nobody is about to
  delete or by a request that has asked for it and will commit or take it back
  (`GrantsAccounted`), and a registration's unique key is free until it commits (`JoinsHold`). The
  attempt to prove it corrected the model: a creation whose slug collides asks ZITADEL again, and one that
  dies there, like a transfer that aborts because both rows are gone, leaves a grant
  nobody accounts for; both now set the user `astray`. What a registration leaves behind
  when its commit fails is `astray` as well, because the code takes nothing back there.

Only model-checked: the liveness properties `ImportEnds` and `KnockArrives`, and the three violations. Liveness under fairness and `ENABLED` are beyond the prover. So is
what a sum over all chunks computes (induction over data): `ParentAddsUp` says that the
total is `SumFunction` of the counts, never what that sums to. Every other property of a run is
a theorem.

## Plan

1. Abstract promises for the components that have none yet, with proofs that the models implement
   them: a waitlist for `ShiftSignup`, a claim register for `CallClaims`.
2. `Membership` with invitations: `Onboarding`'s acceptance makes members and a grant too.
3. `OfflineSync`: two tabs over one localStorage, a full localStorage, an expired
   session (401 and 403 are retried for ever), queued call records.
4. `ChunkPlan`: `plan_chunk_ranges` and `calculate_effective_rows_per_write` as
   operators, checked against their definition over bounded inputs.
5. Voice webhooks, which repeat `SmsDelivery`'s two transactions, and campaigns without
   an organisation in `Onboarding`.

## Not modelled

Voters, contacts, lists, search, surveys, turfs, walk lists and dashboards are
CRUD and queries whose substance is SQL or PostGIS. Authentication, but for the role a
token carries, and row-level security are decided per request by the identity
provider and PostgreSQL. Voice,
phone validation, DNC and number management wrap single provider calls. Object
storage is I/O, present as failing steps. The web client is presentation except
for the offline queue and the calling page. Most of the repository's lines are of these kinds (presentation,
queries, seed and setup scripts), so the map covers a small share of them and
most of the code that coordinates several actors.
