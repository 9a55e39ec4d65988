# Verification of the job-search backend

The program is a local, single-user backend (FastAPI, SQLite) that mirrors the
metadata of a Gmail mailbox, keeps the bodies of messages that look like job
mail, classifies them with a language model, rebuilds job applications and their
timelines, and answers questions about them. This directory holds TLA+
models of its stateful parts, the TLC runs that check them and the proofs about
them. Paths below are relative to `src/backend/app` unless they start with `src/`.

## 1. Inventory

| Component | State it keeps | Operations | Hard behaviour | What makes it correct |
|---|---|---|---|---|
| Email sync (`services/sync_service.py`, `api/sync.py`, `db/repositories/sync_state.py`, `backfill_state.py`) | tables `raw_emails`, `email_sync_state`, `email_backfill_state`; in memory the run lock and the run status | start a run, list / persist / record a page, stop at a limit, finish, fail | two callers, awaits between commits, crashes, expiring history, resuming a listing while mail arrives | no message below the promoted cursor is missing; every stored resume point can be resumed; runs end; everything is stored in the end |
| Gmail adapter (`providers/email/gmail.py`) | none (tokens carry the state) | full listing, history listing, bodies, profile | cursor read before a listing that lasts many runs | the wrapped token keeps the first page's cursor |
| Candidate filter and body retention (`pipeline/filter.py`, `providers/email/provider.py`, `db/repositories/email.py`, `filter_decision.py`) | filter decisions, body retention state | decide, retain, promote by thread, retry | order of pages, partial body failures | the outcome does not depend on page order or crashes; a retained body is never lost |
| Connections, OAuth, secrets (`api/auth.py`, `services/gmail_auth.py`, `connection.py`, `db/repositories/oauth_state.py`, `connection.py`, `security/`) | `email_connections`, `oauth_authorization_states`, secret store | start / complete authorisation, use, refresh, reject, disconnect | callback races, a request that still uses old credentials, a crash between a credential and its row | a nonce is used once; credentials and rows belong together; a connection is rejected only for a reason |
| Settings, readiness, scheduler (`services/provider_config.py`, `readiness.py`, `setup_status.py`, `sync_service.py`, `main.py`) | `provider_configuration`, the settings of the process, the registered job | update, restore, reconfigure, report | four writes in a row that may fail, restarts | process, job and database agree; what is reported ready can run |
| Local data wipe (`services/wipe_data.py`, `api/wipe_data.py`) | files and secrets | wipe | partial failure, requests in progress | a failed wipe can be tried again; a successful one leaves no credential |
| Processing (`api/processing.py`, `api/classification.py`, `services/processing.py`, `structured_extraction.py`) | `email_classifications`, `classification_runs`, run lock, status | run, unlocked batch, classify, store, aggregate, reconcile | locked and unlocked callers, awaits, malformed answers, two commits per batch, a database locked by the index | timelines follow the verdicts; each message is tried once per run; all readable mail is classified in the end |
| Aggregation, ghosts, corrections (`services/aggregation.py`, `ghost_inference.py`, `manual_edit.py`, `manual_merge.py`, `application_corrections.py`) | `applications`, `application_events`, corrections, conflicts, completed interviews | aggregate, infer and retract ghosts, merge, split, edit, reset | sequences of automatic and manual writers; mail that is read again as something else | what the user decided holds; every other timeline follows its mail; no evidence is lost silently |
| Metrics, attention, diagnostics (`db/repositories/metrics.py`, `attention.py`, `services/metrics.py`, `diagnostics.py`) | none: queries over the tables above | count, segment, compare | the same notion in SQL, in Python and in the chat's tool | the numbers agree and add up |
| Chat turns (`services/chat_service.py`, `db/repositories/chat.py`, `agent/`) | `chat_messages`, turn locks | plan, query, search, answer, store, replay | retried turns, waits for the model, another writer's transaction | a turn is answered once; an answer cites what it found |
| Chat index (`services/chat_index.py`, `db/repositories/email_chunk.py`) | `email_chunks`, `email_chunk_index_state`, reconciliation lock | reconcile | embeddings awaited between a read, a page and the commit | the index ends up as the mail that may be searched, and loses none of it |
| Insight cache (`services/insights_service.py`, `db/repositories/insight.py`, the triggers of migration 0183) | cached insights and stale marks | generate, mark stale, list | data that change while an insight is generated | an insight listed as fresh tells what the tables say |

Not modelled: the database migrations (a schema applied once at start-up; the triggers
they install are modelled), the evaluation scripts (not part of the running program)
and the frontend (a client; the state of the system is in the backend). The language
model and web-search clients have no state: the models take any answer they may return.

Components meet in the database and in the run lock of `EmailSyncStatusStore`,
which sync runs and the wipe share. The scheduler and `POST /sync` both enter
`ConfiguredEmailSyncRuntime.run_manual_sync`. Sync calls the provider adapter and
the candidate filter; processing reads what sync retained, aggregates its verdicts into
applications, and reconciles the index that chat turns search. A chat turn reconciles
it as well, under a lock of its own (`_RECONCILE_LOCK`); the processing run lock only
keeps two processing runs apart. Metrics, chat queries and insights read the
applications; insights are marked stale by triggers on what they were made from.

## 2. Modules

| Module | Models |
|---|---|
| `EmailSync` | the runtime, both page loops, durable progress and the adapter's paging contract |
| `MailboxMirror` | what sync promises: a mirror and a watermark below which it is complete |
| `MCEmailSync` | instances of `EmailSync` for TLC |
| `EmailSyncProofs` | its type correctness, its inductive invariant, its safety properties, and that it implements `MailboxMirror`, proved |
| `CandidateRetention` | what a run does with a page: filter decisions, bodies, thread promotion, retry |
| `MCCandidateRetention` | instances of `CandidateRetention` for TLC |
| `CandidateRetentionProofs` | its type correctness, inductive invariant and safety properties, proved |
| `ChatIndex` | a reconciliation of the search index against mail that changes meanwhile |
| `ChatIndexProofs` | its invariant and both action properties, proved |
| `Processing` | runs, unlocked batches, chat turns and settings changes, composed with `ChatIndex` |
| `MCProcessing` | instances of `Processing` for TLC |
| `ProcessingProofs` | its invariant, its safety properties, and that it implements `ChatIndex`, proved |
| `ApplicationTimeline` | aggregation, ghost inference and the user's corrections over one set of tables |
| `Metrics` | the queries of dashboard, diagnostics, attention list and chat over these tables |
| `MCApplicationTimeline` | an instance of both for TLC |
| `ApplicationTimelineProofs` | the type correctness, inductive invariant and properties of both, proved |
| `Accounts` | authorisation, credentials, disconnection, wipe, settings, scheduler, restarts |
| `MCAccounts` | an instance of `Accounts` for TLC |
| `AccountsProofs` | its type correctness and its safety properties, proved |
| `Insights` | the cache of insights and the triggers that mark them stale |
| `InsightsProofs` | that a fresh insight is current, proved |
| `Chat` | chat turns, composed with `ChatIndex` and `Insights` |
| `MCChat` | an instance of `Chat` for TLC |
| `ChatProofs` | that it implements both, and its own safety properties, proved |

### EmailSync

Messages are numbered by the history id at which they arrived, so a cursor is a
number and "all mail up to the cursor" is `1 .. cursor`. A page token is a record:
a full listing runs from the newest message down and carries the anchor the
adapter wraps into it; a history listing runs up from its start cursor.

| Model | Code |
|---|---|
| `stored`, `sync`, `backfill`, `connected` | tables `raw_emails`, `email_sync_state`, `email_backfill_state`, `email_connections` |
| `lock`, `status` | `EmailSyncStatusStore` |
| `pc[c]`, `run[c]` | the coroutine of caller `c` and its local variables |
| `arrived`, `horizon` | the mailbox and the oldest history id the provider still serves |
| `AcquireRun`, `StartBackfill`, `StartPages` | `ConfiguredEmailSyncRuntime.run_manual_sync` and the heads of the two loops |
| `FetchProfile`, `ListFullPage`, `ListHistoryPage`, `CursorExpired` | one provider call each |
| `PersistPage` | `upsert_metadata_only` and its commit |
| `ResumeBackfill`, `RecordPage`, `TallyPage`, `FinishBackfill` | `run_full_backfill` |
| `AdvancePage`, `StopAtLimit`, `LastPage`, `Finalize` | `_run_metadata_pages` |
| `Fail`, `FailInHandler`, `Crash` | the exception handlers, and the end of the process |

Each action ends at a commit or an `await`, which is where another task, a crash or
an arrival can come in. Filter decisions and bodies are left to a module of their
own: they do not feed back into paging, except that an error in them fails the run,
which `Fail` covers at every step. The lock is taken and the status set to running
without an `await` in between, so that is one action.

### CandidateRetention

A message is a member of a set; `mail` says what it is: its thread (or none), whether
its sender domain or subject signals a job mail (`direct`), whether it carries an
excluded label, and whether the provider can serve its body. These do not change while
the model runs. Each signal alone reaches the filter's threshold, so the score is
reduced to whether there is a signal.

| Model | Code |
|---|---|
| `raw`, `decision` | `raw_emails.body_retention_state`, `email_filter_decisions` |
| `handled` | messages of pages whose progress was stored |
| `page`, `refs`, `bodies` | locals of the run: the page, bodies to fetch, bodies fetched |
| `Evaluate`, `PageThreads`, `Selected` | `EmailCandidateQuery` and the selection of `fetch_retained_bodies` |
| `CandidateThreads`, `PendingCandidates`, `PendingThreadCandidates` | the queries of `EmailRepository` |
| `RetryPending` | `_retry_pending_candidate_bodies`, at the start of every run |
| `ListPage`, `Relist`, `LastPageEmpty` | a page arrives and its metadata is stored |
| `DecidePage`, `FetchChunk`, `StoreBodies` | decisions, one provider call per chunk, `upsert_retained_bodies` |
| `PromoteThreads` | `_promote_pending_candidate_thread_bodies` |
| `Advance`, `Abort` | progress is stored; an exception or the end of the process |

Paging is `EmailSync`'s. Here a page is any set of at most `PageSize` messages that the
listing has not passed, or, in a windowed run, that it has.

### ChatIndex

Mail is numbered by sending time, which is the order of the listing, so the page of a
message is its rank divided by the page size.

| Model | Code |
|---|---|
| `eligible`, `index` | what `eligible_email_ids` returns; the mail of `email_chunks` and `email_chunk_index_state` |
| `lock` | `_RECONCILE_LOCK` |
| `work` | the locals of `_reconcile` and its open transaction (`draft`, and `dirty` once it has written) |
| `Begin` | deletion of what may not be searched, and the pages up to the first with something to embed |
| `StorePage` | the embeddings of a page arrive, its chunks are replaced, and the loop goes on |
| `Continue`, `Missing` | the loop over offsets, with `list_chunkable_retained_emails` and `needs_indexing` |
| `Abandon` | the connection is closed without a commit |
| `ChangeEligible` | any other writer of classifications or bodies |

A page's embeddings are one await, although the code splits them into requests of 100
chunks: nothing is read or written between these. The chunks of a message are one unit,
a body does not change, and the embedding model stays the same, so a message needs
indexing exactly when it is not in the index.

### Processing

| Model | Code |
|---|---|
| `retained`, `classified` | bodies; `email_classifications` (the settings a verdict was given under, and whether it says job mail) |
| `aggregated` | the verdict that the timeline of a message was last brought in line with |
| `target` | the configured model and prompt version |
| `runLock`, `status` | `ProcessingStatusStore` |
| `pc[t]`, `job[t]` | the coroutine of task `t` and its locals |
| `loop` | the task that runs from one commit to the next without an `await` |
| `StartRun`, `StartLocked`, `StartBatch`, `Ask` | `POST /processing/run`, `POST /classification/run`, a chat turn that searches |
| `Candidates`, `Batch`, `Offered`, `SendBatch` | `list_classification_candidates` and the head of `run_batch` |
| `StoreBatch`, `Locked` | the end of `run_batch`: verdicts committed, or the write refused |
| `Aggregate`, `NextBatch`, `AfterBatch`, `LimitReached` | the loop of `ProcessingOrchestrationService.run` |
| `InferGhosts`, `Reconcile` | the rest of `run` |
| `Leave`, `Raise`, `Fail`, `Crash` | return, the handler of `processing_run`, the end of the process |
| `Reconfigure` | `apply_provider_config_update` |
| `Index` | `ChatIndex` with the retained job mail as `eligible` |

An action ends where the event loop may switch: at an `await`, or, since a fault can
come between them, at a commit. Between the two commits of a batch there is no await,
which `loop` says. A write of one connection while a reconciliation has its transaction
open waits on the event loop that the reconciliation needs in order to go on, so it
fails with "database is locked" (`Locked`, `StartLocked`, `CanWrite`). An aggregation
is one step here, whatever it does to applications; ghost inference changes nothing
this module knows of. Left out are requests that write from a thread of their own (manual
edits), the accounting row of an empty unlocked batch, and the order of waiters for the
reconciliation lock (any of them may get it). The batch's calls to the model run
concurrently in the code, and their outcomes meet only when all have arrived, so they
are one await.

### ApplicationTimeline and Metrics

A message is the number of the time it was sent at, and one number also stands for the
time of an event, so that the tie-breaks of a timeline (event time, sending time) are
comparisons of numbers. An event's id is made of the application it was made under, its
message, type and time, as the hash in the code is; an application's id is made of its
thread, identity (normalised company and role) and attempt (`"key"`), or of the application
and the events it was split from (`"split"`).

| Model | Code |
|---|---|
| `apps`, `events` | `applications`, `application_events` |
| `corrections`, `conflicts`, `tasks` | `application_corrections`, `application_correction_conflicts`, `interview_task_completions` |
| `reading` | the category each message was last read as |
| `Anchored`, `Inherited`, `Attempts`, `Assign`, `Partition`, `Proposed` | from accepted extractions to events: anchoring of responses, identities taken from the thread, splitting of a thread into attempts |
| `Stale`, `Blocked`, `Deleted`, `Upserted`, `Reconciled`, `Aggregated` | the transaction of `AggregationService.aggregate` and its stages |
| `Unfounded`, `GhostCandidate`, `Haunting` | `GhostInferenceService.run`: retraction, then inference |
| `EditStatus`, `EditEvent`, `Merge`, `Split`, `ResetLock`, `CompleteInterview` | the services of the user's corrections |
| `Emptied`, `Persisted` | applications that lost their last event, and what a transaction of aggregation leaves |
| `Cascade` | the foreign keys, where a connection enforces them |

SQLite enforces foreign keys per connection, and the connections do not agree:
`PRAGMA foreign_keys=ON` is issued for ghost inference, corrections and merges
(`api/dependencies.py:404`, `579`, `612`) and not for aggregation, manual edits and the
interview list (`330-344`, `590-603`, `474-483`). So only `Merge` cascades; when
aggregation deletes events and applications, the corrections, conflicts and completed
interviews that refer to them stay.

Each action is one transaction without an await. `Metrics` has no variables: its
operators are the queries of the dashboard, the diagnostics, the interview list and the
chat's structured query, over the same tables. A count is kept as the set it counts,
so that two queries can be compared by what they count and not only by how much. Left
out are histogram bounds, medians and calendar arithmetic, the order of rows, edits of
notes, tie-breaks by hash, and fields of a summary that no property reads.

### Accounts

| Model | Code |
|---|---|
| `issued` | `oauth_authorization_states` |
| `rows`, `secrets`, `keys` | `email_connections`; the OAuth credentials and the other secrets of the secret store |
| `settings`, `stored`, `job` | `AppSettings` of the process, `provider_configuration`, the scheduler's job |
| `task[r]`, `lock` | what a request waits for; `EmailSyncStatusStore` |
| `grants`, `revoked` | what Google has granted and withdrawn |
| `StartAuthorization`, `Callback`, `ExchangeSucceeds`, `ExchangeFails` | `GET /auth/gmail` and its callback |
| `StartSync`, `OpenMessage`, `ReadMessage`, `Refreshed`, `Answered`, ... | a credential read, refreshed and used by a sync run or by the message reader |
| `Rejected` | `mark_reauth_required`, for sync runs only |
| `Disconnect` | `DELETE /auth/connections` |
| `StartWipe`, `WipeSecrets`, `WipeFiles` | `POST /local-data/wipe`: the dependency that takes the run lock and lists the credentials, their deletion, the deletion of the files |
| `UpdateSettings`, `Restart`, `CutOff` | `apply_provider_config_update`; the end of the process, also between a credential and its row |
| `Valid`, `Updated` | `validate_settings` of the registry, `_updated_settings` |
| `ReadyToSync`, `ReadyToClassify`, `SetupComplete` | readiness and setup status |

The settings are the provider, the mode, whether to sync on open, and for each provider
whether what the registry requires of the settings for it is given: endpoint and
deployment for Azure, which the defaults do not give; models and a URL of this machine
for Ollama. Secret stores and SQLite answer without yielding, so a handler is cut only
where it waits for Google or for a thread. Either of two writes in a row may fail
though: the row after its credential was stored or deleted ("database is locked"), the
deletion of a credential in the middle of a wipe. `history` and `redeemed` record what
kind of accident has happened and to which mailboxes, for the properties only: `lost`
are the mailboxes whose credential was stored without a row, `parted` those whose
credential was deleted and not the row, until they are connected again or
disconnected. A credential is the number of the grant it holds.

### Insights

| Model | Code |
|---|---|
| `status`, `timeline`, `bodies` | the columns of applications, events and mail that prompts are made of |
| `insight` | the row of one type: `inputs_hash` (`inputs`), stale mark, whether it cites |
| `generating[g]` | a regeneration that waits for the model |
| `Evidence`, `Scoped`, `Clipped`, `Facts`, `Inputs` | `InsightInputBuilder` and its queries |
| `Regenerate`, `Generated`, `GenerationFails` | `InsightGenerationService.generate_insight`, up to and after the wait |
| `ChangeApplication`, `ChangeEvent`, `ChangeBody` with `MarkStale` | any writer of the tables, with the triggers that it fires |

`inputs_hash` is the package itself: two packages have the same hash only if they are
equal. A behaviour follows one type of insight.

### Chat

A request moves through `waiting` (for its turn lock), `planning`, `retrieving`,
`reconciling`, `embedding`, `browsing` and `answering`, each of which ends at an await.

| Model | Code |
|---|---|
| `requests[r]` | a `POST /chat` and its locals; `Over` is what its client is told |
| `history[t]` | the turn stored under a turn id |
| `Enter`, `TurnFree`, `SameTurn` | the turn locks, replay and conflict of `ChatService` |
| `RouteOf`, `Corrected`, `Plan` | `route_question`, the corrections of the model's plan, the tools that do not wait |
| `BeginSearch`, `StoreSearch`, `Search`, `Found` | the semantic search with its reconciliation and its four modes |
| `Reading` | the cached-insight tool: missing, stale, with or without citations |
| `Browse` | the web search |
| `MailCited`, `Mentioned`, `Filtered`, `KindOf`, `Response` | the answer, its citations and their filter |
| `Answer`, `Stores`, `Taken` | the transaction at the end of a turn |
| `ModelFails`, `BrowseFails`, `Disconnect` | failures at every await |
| `Process`, `Change`, `Narrate` | processing runs, classification, insights |

The language model is any plan its schema allows, any citations of what it was given, and
a failure at any time. `Chat` EXTENDS `ChatIndex` and `Insights` and adds their steps to its
own, so that mail is reclassified and insights go stale while a turn waits. Left out are
the wording of answers, the history given to the model, follow-up prompts, the pieces of an
answer that are streamed before its turn is stored (a client may have read an answer that
then fails to be stored), and the rows of a structured query, of which only matters whether
there are any, and for the live list whether one waits for the employer (the rest is in
`Metrics`).

## 3. Runs

| Run | Question | Result |
|---|---|---|
| `sync_undated` | page limits, newest-n runs, expiry, two faults: is anything below the cursor ever missing, is every resume point sound? | holds |
| `sync_live` | do runs end, and is every message stored in the end? | yes, under the fairness below |
| `sync_window_gap` | does `NoGap` survive date windows? | no, see section 6 |
| `sync_recovery_restart` | does every ordinary run resume the stored listing? | no, see section 6 |
| `retention` | does the filter's outcome depend on page order, repetition or cut-off runs; are bodies kept of candidates only, and is every one retained in the end? | it does not; they are; it is, under the fairness below |
| `processing_safety` | locked runs, unlocked batches, chat and settings interleaved: do timelines follow verdicts, is mail sent once per run, does the status tell, does the index keep `ChatIndex`? | they do |
| `processing_live` | do tasks end, is all readable mail classified and the index exact in the end? | yes, under the fairness below |
| `processing_stalled` | does a pipeline without candidates have its job mail in the timelines? | not after a fault, see section 6 |
| `processing_blank` | is readable mail classified in the end when blank mail fills a batch? | no, see section 6 |
| `timeline_safety` | mail read and read again, ghosts as time passes, any two corrections: does what the user decided hold, do other timelines follow their mail, do the numbers agree and add up? | they do |
| `accounts` | two mailboxes, two requests that wait for Google, disconnection, wipe, revocation, settings, restarts, one failing write or crash: do credentials and rows part only where an accident explains it, and do nonces, readiness and settings tell the truth? | they do |
| `chat` | two requests of a turn, any plan, mail and insights that change at every wait: is a turn answered once, do answers hold, is the index exact and a fresh insight current? | yes |

Bounds: `MaxArrivals` 3 messages with `PageSize` 1 give listings of up to three
pages with mail arriving between any two of them, which is what a resumed listing
needs to go wrong; a fourth message only lengthens listings. Two callers are the job
and a request; one holds the lock, so a third would wait like the second. `MaxFaults`
2 allows a fault inside the recovery from a fault. Pages may be shorter than
`PageSize`, so larger pages are covered by the same choices.

Fairness: a run that has started takes its next step while the process lives (the
event loop runs ready tasks); the user reconnects an account that asks for it; and
the interval job, which fires again and again, finds the lock free in the end
(strong fairness, since other callers may hold the lock at any one firing). Nothing
is assumed about requests, faults or arrivals.

`retention` has three messages of four sorts: in one thread, with or without a signal of
their own and with or without a body to serve; a job mail outside the thread; and
an excluded message although everything else speaks for it. Pages of two are
the smallest in which a page of two is followed by a message that makes both of them
candidates, or in which an earlier message has to be promoted through a page that was cut
off. Bodies come one per call, and two faults lose a body and the run that would have
fetched it again. Its fairness: the job starts runs and a run takes its steps; no run
lists for ever (strong, on ending a listing, since the last page is known only when it
arrives); and an ordinary run goes on with what was not listed yet (strong, since it may
be cut off while it does).

`processing_safety` has two callers that compete for the run lock, one unlocked batch and
one chat turn over two messages sent one at a time, so a run has a second batch, a locked
and an unlocked batch can hold the same message, and two tasks can wait for the index.
The two settings let a batch arrive under old ones. The callers are a symmetry set.
`processing_live` puts a blank message and a message that never parses before the one that
can be classified, with batches of two and runs of three, one fault and two settings; the
next message in the queue is always reachable because fewer messages are blank than a
batch holds and fewer are unreadable than a run may try. `processing_blank` takes away the
first of these two conditions. There `AllMailClassified` and `IndexSettles` ask for nothing
as long as the user keeps changing the settings.

Its fairness: the event loop runs a task that can go on. That is weak fairness for steps
nobody can interrupt, and strong fairness for those that other tasks disable again and
again by holding the event loop, the reconciliation lock or the database. The model does
not refuse a message it can read for ever, the user runs processing again without a limit of
their own, and keeps asking. Nothing is assumed about unlocked batches, settings or faults.

`timeline_safety` has two messages of one thread and four sets of extractions that may be
accepted together, so that each message is read as several things, alone and with the other,
before or after it: an application and its interview, a response that needs an anchor, an
application that turns out to be nothing next to an offer. The ghost threshold is two and
the stale-attempt threshold one, and the clock is looked at before and after an application
goes silent. The user makes two corrections of any kind anywhere, which is what it takes to
undo one by another (split and reset, edit and merge, lock and complete). One filter
of the metrics keeps every application, the other is cut by status, identity and date. The state space is closed: nothing
else is bounded.

`accounts` has two mailboxes, so that the newest connection and the one in use can
differ; two requests, so that one can wait for Google while the other removes what it waits
with; two nonces, grants and settings updates; and one failing write or crash at any place
where the code can be cut. The updates are one of each field, changes of the provider with
and without what it requires, and refused combinations. Accounts, requests and nonces are symmetry sets.

`chat` has two requests of one turn, a processing run, two messages of which one was sent
by the user, an application with two events, and one generator. Pages hold one message.
`MCChat`'s `Bounded` keeps the product of its parts small: two requests meet only
while mail and insights have not changed and are answered from the mail alone; mail changes
with one request at work, in other behaviours than the insights; and insights change
between generations while a request that asks for one is under way. What is not met this
way is two requests of one turn answered from different tools while data change; the
proofs in section 4 have no such bound.

What `Processing` assumes of its constants is in section 4. No run but the two `_live`
runs and `retention` needs fairness.

## 4. Proofs

TLAPS checks every theorem for all values of the constants: any finite or infinite set
of callers, any number of messages and faults, any page size, any set of options.
For `EmailSync` the only assumptions are the three named ones: the scheduler is a
caller and `Free` is not, the bounds are numbers and pages are not empty, and the
options are `EmailSyncOptions` in which a run that is not windowed lists the whole
mailbox without a message limit (`should_run_full_backfill` and `is_windowed`
guarantee that).

| Theorem | Says |
|---|---|
| `TypeCorrect` | `Spec => []TypeOK` |
| `BackfillNeverOverclaims` | `Spec => []BackfillCovers` |
| `ResumeTokensSound` | `Spec => []ResumeTokenSound` |
| `PagesRecordable` | `Spec => []BackfillRecordsItsPage` |
| `BackfillOnlyContinues` | `Spec => BackfillResumes` |
| `NoGapUndated` | `Undated => (Spec => []NoGap)` |
| `InductiveInvariant` | `Spec => []IInv` |
| `SyncImplementsMirror` | `Undated => (Spec => ImplementsMirror)` |

None of the properties is inductive by itself: they speak of the tables, and the
tables are written from the local variables of a run that started many steps before.
The invariant `IInv` has four parts. `RunShape` says where a run can be in which loop,
that only the holder of the lock is anywhere, and that a backfill run and its row hold
the same token. `RunCovered` says, of a run that lists the whole mailbox, that what its
token has passed is stored, and that its current page continues its listing without a
hole. `SeenInv` says that nothing is ahead of the mailbox. `CursorInv`, which needs
`Undated`, says that every cursor anywhere, in the table or in a run, is one up to
which all is stored: a cursor read at the start of a run may be written back many
pages later. `Undated` is needed: with date windows `NoGap` is false (section 6).

The proofs go action by action. `OneRun`, `OneCursor` and `OneSeen` reduce a step to
the run that takes it; `FullPageCovered` and `HistoryPageCovered` show that a page the
provider answers with continues the listing; `PageRecordable` shows that a backfill
page is accepted. `NextSync`, `NextCursor` and `NextSeen` combine them, and
`StepMirror` maps every step to the abstract one.

For `CandidateRetention` the assumptions are `MessagesAssumption` (the mailbox is
finite, `NoThread` is not a thread) and `SizesAssumption`; threads, kinds, page and
chunk sizes and the number of faults are arbitrary.

| Theorem | Says |
|---|---|
| `RetentionInvariant` | `Spec => []RetentionInv` |
| `TypeCorrect` | `Spec => []TypeOK` |
| `CandidatesJustified` | `Spec => []DecisionsJustified` |
| `NobodyOverlooked` | `Spec => []DecisionsComplete` |
| `PrivateBodies` | `Spec => []BodiesOnlyOfCandidates` |
| `PageOrderIrrelevant` | `Spec => []OrderIndependent` |
| `RetentionOnlyGrows` | `Spec => NothingRetracted` |

`DecisionsComplete` speaks of pages that were handled to the end; while a page is on its
way it can be false for the page. `RetentionInv` therefore says what each step of the run
has already established: the page is stored before it is decided, decided before bodies
are fetched, and from `PromoteThreads` on no rejected message is left in a candidate
thread (`ThreadsClosed`). With `DecisionSound` (a stored rejection has a reason in the
message itself) that makes it inductive. `PageOrderIrrelevant` follows from justified and
complete decisions once everything was handled.

For `ChatIndex` the assumption is `IndexConstants`: mail is a finite set of numbers, pages
are not empty, `Free` is not a task.

| Theorem | Says |
|---|---|
| `IndexInvariant` | `Spec => []IndexInv` |
| `IndexTypeCorrect` | `Spec => []TypeOK` |
| `ReconciliationsExact` | `Spec => ReconcileIsExact` |
| `EligibleMailKept` | `Spec => KeepsEligibleMail` |

`ReconcileIsExact` compares the end of a reconciliation with its beginning, although the mail
may have changed at every await in between. What makes it inductive are two facts about the
transaction. `PagesRead`: while nothing is written, or the eligible mail is still what was
counted at the start, all that is drafted or awaits embeddings was counted, and with it
everything up to the current page is covered. `DraftKeepsEligible`: the draft lacks
nothing of the index that is eligible, and is the whole index until something is
written, so a change of the eligible mail during the first await cannot make the commit
lose mail; afterwards the open transaction keeps other writers out.

For `Processing` the assumption is `ProcessingConstants`: mail is a finite set of numbers,
some of it unreadable or blank, sizes are positive, and the three kinds of tasks are
disjoint; any number of each may run.

| Theorem | Says |
|---|---|
| `ProcessingInvariant` | `Spec => []ProcessingInv` |
| `ProcessingTypeCorrect` | `Spec => []TypeOK` |
| `TimelinesFollowVerdicts` | `Spec => []TimelineFollowsVerdict` |
| `StatusIsHonest` | `Spec => []StatusTellsRun` |
| `IndexImplemented` | `Spec => IndexSpec` |
| `MailSentOnce` | `Spec => []EachMailOncePerRun` |

`TimelineFollowsVerdict` needs to know whose verdicts are not aggregated yet: `LoopOwner` says
that only the task with the event loop to itself is between two commits, and `ResultsStored`
that the verdicts it still holds are the ones in the table, so aggregating them cannot bring
back a verdict that another task has replaced. `IndexImplemented` is the composition: every
step is a step or a stutter of `ChatIndex` under the mapping of `eligible` to the stored
verdicts, with `LockInv` for crashes outside a reconciliation, so the theorems about the
index hold of the composed system. `MailSentOnce` rests on the size of a batch: the messages
of a batch have distinct numbers of messages before them, all below its limit, so there are
no more of them than the limit (`BatchSizeBound`, with the pigeonhole principle).

For `Insights` the assumption is `InsightConstants`: events are a finite set of numbers with
an owner each; any number of applications, types, limits and generators.

| Theorem | Says |
|---|---|
| `InsightsCurrent` | `InsightSpec => []FreshIsCurrent` |

`CurrentInv` adds to `FreshIsCurrent` that a generation that was not overtaken still holds
the inputs of now (`WritesCurrent`), since its save makes the insight fresh, and what a row
and a generation are made of (`Markable`). The lemmas under it say that the inputs of a prompt
change only where a trigger watches: a message's body is evidence only through an event.

For `Chat` the assumptions are `ChatConstants` with the two above.

| Theorem | Says |
|---|---|
| `ChatImplementsIndex` | `ChatSpec => Spec` (of `ChatIndex`) |
| `ChatImplementsInsights` | `ChatSpec => InsightSpec` |
| `ChatKeepsPromises` | `ChatSpec => ReconcileIsExact /\ KeepsEligibleMail /\ []FreshIsCurrent` |
| `TurnsAnsweredOnce` | `ChatSpec => []TurnAnsweredOnce` |
| `StoredAnswersHold` | `ChatSpec => AnswersHold` |

The first two are the composition: each step of `Chat` is one of its parts or a stutter, so
the parts' theorems hold of the whole. `TurnsAnsweredOnce` needs `Exclusive` (of one turn
at most one request is past its lock, and a request at work had found nothing stored that
it could have been answered with) and the shape of requests. `StoredAnswersHold` relates a response
to mail that changed since: `Backed` says, of each state of a request, what its findings
rest on. While the index is reconciled, the transaction's draft holds only mail the request
has seen eligible; while nothing has changed, the index after the commit is exactly
that mail (which is `ChatIndex`'s invariant, used here through `LockHeld`: the request that
reconciles holds the lock); and what is found in it stays found until the answer is
stored. `PlansAreSound` shows that corrected plans are plans, and `ResponseSupported` that the
filter of citations leaves one.

For `Accounts` the assumptions are that the bounds are naturals, that `None` and `Free` are
values of their own (`ValuesDiffer`) and that inputs are updates of settings.

| Theorem | Says |
|---|---|
| `AccountsTypeCorrect` | `Spec => []TypeOK` |
| `CredentialsStayAccounted` | `Spec => []CredentialsAccounted` |
| `ReportsStayTrue` | `Spec => []ReportsHold` |

The inductive invariant `AccountsInv` adds to the properties what makes them inductive. No
two connections are of the same grant and none is of a later one than the last (`TablesInv`),
so the newest connection is one, and it is the one a sync resolves when it is not rejected.
What a request waits for is complete, and only a sync run or a wipe has the lock
(`TasksInv`). `CredentialInv` speaks of the requests that wait while others act: unless the
history has an overlap, a credential being refreshed is still there, and an exchange ends
with the tables in place. `WipeInv` says of a wipe that the connections it did not list
were made after it listed the others, and that once it has deleted the credentials it
listed, what stands in their place is newer; without it, the rows that a wipe takes with
the database could belong to credentials that stay. `KeysInv` says that connections live with
the client they were authorised by, without which a mark would have no reason. Failures
need no invariant of their own: `CredentialsAccounted` already says, mailbox by mailbox,
what a failing write leaves behind, and the lemmas `SettledIs`, `StrayIs` and `HalvedIs` how
`history` keeps account of it. A step that only sends, waits or gives up is `Quiet` and is
dealt with once (`QuietKeeps`); each of the others has a lemma of its own, and a nonce's life
is separate (`NonceStep`).

For `ApplicationTimeline` and `Metrics` the assumptions are `TimelineConstants` (mail is a
finite set of times, the clock has a last value, a batch has one reading per message,
thresholds are positive) and `MetricsConstants` (filters are filters, with a beginning not
after their end, as the models of the API require); mail, threads, batches, edits, thresholds,
filters and the number of corrections are arbitrary.

| Theorem | Says |
|---|---|
| `TimelineTypeCorrect` | `Spec => []TypeOK` |
| `TimelineFollowed` | `Spec => []AutomaticFollowsTimeline` |
| `MailTellsOneThing` | `Spec => []OneEventPerMail` |
| `UserHasTheLastWord` | `Spec => UserDecides` |
| `NoEvidenceDropped` | `Spec => EvidenceAccounted` |
| `GhostsStandForSilence` | `Spec => []GhostsJustified` |
| `EveryViewAgrees` | `Spec => []ViewsAgree` |
| `PagesAddUp` | `Spec => []SegmentsAddUp` |

The inductive invariant is `TimelineInv`. Its first part, `TablesInv`, is more than types:
applications that were merged away are gone (`MergedAreGone`), every lock goes back to a
correction (`LocksExplained`), ids are unique, and the tables are finite.
`AutomaticFollowsTimeline` and `OneEventPerMail` need each other's hypothesis: an application
nobody corrected holds exactly the events that were made in it (`UntouchedFacts`), since an
event that was moved away left a correction there, or its application was merged away
(`MovesTraced`), and what it holds of a message is what the message was last read as
(`ReadingsTold`). The whole of an
aggregation is one step of eight stages; `AggregateIs` gives its result as one formula per
table, `AggregateTables` shows that it keeps the tables, `OthersAlone` that it leaves
applications alone that it has nothing to say about, and `ToldIsKept` that what a message
tells an untouched application does get stored.

`Partition` is a recursive function on the sorted messages of a thread and company, and the
library's induction theorems cannot be used here (they take an operator as a parameter).
`RecursionExists` shows that a function with the recursion's equation exists, and `PlacesTaken`
and `PartitionOneEach` follow by the least number for which they would fail. What they
give is that each message of a group is put into exactly one attempt. `Weighed` uses the
same kind of argument, with a smallest bad set, for sums: it is why a segment
above the average implies one below it (`SomeAboveSomeBelow`, `OutliersBalanced`).

What a ghost is dated from (`GhostDate`, `LatestUnanswered`) shows that settled ghosts are
justified (`SettledGhosts`), and that the count of silent applications in SQL is the count of
ghosts inferred in Python (`GhostCountAgrees`). `GhostedLast` relates the live list to the
timeline: an application that is followed has the status of its last decisive event.

One property was found too strong by the attempt to prove it, violated only by mail sent at
one time. `SilentAreFollowedUp` used to ignore ties: of two messages of the same time, the
live list takes one by its hash, and the silence query the one sent last, so they may
disagree about who is to answer.

That foreign keys are off for aggregation has a use in these proofs: the corrections of an
application outlive it, so that an application made anew under the same id is known to be
one the user had a hand in (`Untouched`). An event that was moved away by a split or merge
keeps its id, so aggregation does not insert it again, but derives the status of the
application it would have been made in from it (`services/aggregation.py:774`,
`db/repositories/event.py:181`), which `AutomaticFollowsTimeline` therefore exempts.

Only model-checked: `RunsEnd`, `EventuallyStored`, `EventuallyRetained`, `TasksEnd`,
`AllMailClassified` and `IndexSettles`, since fairness and liveness are out of the prover's
reach here. Every safety and action property of every passing run is stated by a theorem.

## 5. Abstract specifications

`MailboxMirror` says that the mirror only grows, by messages of the mailbox, and
that the watermark only moves to a point up to which the mirror is complete, or is
given up. `EmailSync` implements it (`ImplementsMirror`) with the stored messages as
the mirror and, once the backfill is complete, the stored cursor as the watermark.

`ChatIndex` is the abstract view `Processing` has to keep: its mail changes in any way at
any time when no transaction is open. `Processing` implements it (`IndexSpec`), and so does
`Chat` (`ChatImplementsIndex`), which implements `Insights` as well
(`ChatImplementsInsights`).

## 6. Findings

1. *A dated run can lose mail* (`sync_window_gap`). A run limited by dates drains
   its own listing and then stores the replacement cursor
   (`services/sync_service.py:1344`). Mail outside the window that arrived since the
   previous cursor is below the new one and never asked for again. `docs/prd.md:128`
   promises completion without data loss.
2. *Recovery is not resumed* (`sync_recovery_restart`). After the first page of a
   recovery the local cursor is cleared, so from the second page on the stored
   progress has no cursor (`services/sync_service.py:1331`) and the next run starts a
   full backfill from scratch. `docs/prd.md:130` says recovery loses no pagination
   progress. No mail is lost: only work is repeated.
3. *Verdicts can stay without a timeline* (`processing_stalled`). A batch's verdicts are
   committed before they are aggregated (`services/structured_extraction.py:151`,
   `services/processing.py:107`), and what was extracted is not stored. A fault in between
   leaves job mail that is no candidate any more and in no application, while
   `services/pipeline_status.py:164` says that the dashboard reflects all processed mail.
4. *Blank mail can stop processing* (`processing_blank`). `TRIM` in SQLite removes spaces
   only (`db/repositories/email.py:758`), so a body of line breaks is selected, counted
   against `LIMIT` and dropped afterwards. When such mail fills a batch the run ends,
   and does so again every time. `docs/conventions.md:44` says that the query excludes
   whitespace-only bodies.

Known limits the models have but no run reports: the failure handlers of sync and processing
touch the database before they set the status, so the status can stay running after a
second failure (`services/sync_service.py:1030`, `api/processing.py:90`; `FailInHandler`,
`Fail`); mail that stops being job mail while its embeddings are awaited is indexed until
the next reconciliation (`services/chat_index.py:95`; `ReconcileIsExact` is about
reconciliations that end with the mail they began with, `IndexSettles` about the rest).

Further limits of the code met while modelling. The properties are stated so that they
hold next to them; each can be read off the named lines.

Timelines and metrics:
- Aggregating a batch again can move its events to another attempt after a ghost and a split
  in between (`services/aggregation.py:125` calls it idempotent): an attempt is recognised
  by the event it held, which the split has taken away.
- `first_seen_at` of an existing application is not moved back when an earlier message
  arrives; the next deletion or reset does.
- After a merge, mail that belongs to the application that was merged away is skipped
  without a conflict; the conflicts and completed interviews of that application are deleted
  with it, since the connection of a merge enforces foreign keys.
- An edited event is protected by the correction of its application, so a split followed by a
  reset leaves it to aggregation. Editing an event whose interview is marked done gives it
  another id and leaves the completion referring to the old one.
- The schema declares cascading foreign keys (`docs/tickets/JT-021.md:13`: "required foreign
  key to `applications.id` with cascade delete"), but aggregation's connection does not
  enforce them. When a new reading of its mail leaves an application empty, it is deleted
  (`services/aggregation.py:953`) and its corrections, conflicts and completed interviews
  stay, referring to nothing: `\A c \in corrections : c.app \in DOMAIN apps` is violated in
  five states of `MCApplicationTimeline` (a status edited, its lock reset, the mail read as
  something else). `README.md:356` of the repository speaks of `foreign_keys=ON` for the
  engine of `db/engine.py`, which these requests do not use.
- A retraction may leave an application without events, as `applied`.
- The interview stage of the funnel counts companies and the offer stage applications; an
  application exactly at the threshold is both live and ghosted on one page; the chat's
  live list knows three statuses and the dashboard's live count five.

Accounts:
- A credential stays behind when a deletion overlaps an exchange or a refresh that waits
  for Google (`history.overlapped`), or when the row it was stored for could not be written,
  because the database was locked or the process ended (`lost`, `services/gmail_auth.py:115`).
  Nothing but connecting the mailbox again refers to it.
- A connection stays without its credential when it could not be deleted after it
  (`parted`, `services/connection.py:36`). It can be disconnected again; a sync that resolves
  it marks it as rejected.
- An unavailable secret store or a missing client file marks a connection as rejected, and
  a late rejection can mark a connection that was made anew in the meantime.
- A wipe that fails while deleting secrets reports that local data was not changed, though
  some secrets are gone (`interrupted`).
- A settings update that fails to save leaves the interval job as asked for (`unsaved`).

Chat and insights:
- The save of a generation clears a stale mark that was set while the model was at work
  (`db/repositories/insight.py:70`; its facts were read before the wait), so `GET /insights`
  lists as fresh what `docs/prd.md:177` wants marked stale. `FreshIsCurrent` exempts it
  (`overtaken`); without the exemption it is violated in `MCChat` by one event that changes
  during a generation. The chat compares hashes and notices. An insight regenerated with
  fewer evidence items than the default is stale for the chat at once.
- `role_fit` may cite outcomes beyond the clipped evidence, which are not kept as citations.
- A turn id that is repeated with another conversation runs the graph again and fails on
  the unique index, as an internal error and not as a conflict.
- A mixed answer that only lists applications, or looked for waiting ones and found others,
  can be grounded without a citation; one with web results drops the insight.
- Mail that stops being eligible while a question is embedded may still be cited.
- A turn that ends while another reconciliation has written fails with a locked database,
  after its answer was streamed; nothing of the turn is stored, and repeating it runs it
  again.

## 7. What is left

The models cover the program's stateful parts. Left for later: a processing run next to a
wipe (the two take different locks); an abstract specification of timelines with two
threads and more attempts, whose state space is too large for the present instance; and a
configuration of `Chat` in which two requests of one turn use all tools while data change,
which today only the proofs cover.
