----------------------------- MODULE EmailSync -----------------------------
(***************************************************************************)
(* Metadata synchronisation of one mailbox account: the configured runtime *)
(* (api/sync.py), the sync service with its two page loops and the durable *)
(* resume state (services/sync_service.py, the sync-state and              *)
(* backfill-state repositories), and the paging contract of the Gmail      *)
(* adapter (providers/email/gmail.py).                                     *)
(*                                                                         *)
(* Messages are numbered by the provider history id at which they arrived, *)
(* so a provider cursor is a number c and "everything up to c" is 1..c.    *)
(* Each database commit and each provider call of a run is one action: a   *)
(* crash, a failure, an arrival or another caller can come between them.   *)
(***************************************************************************)
EXTENDS Integers, FiniteSets

CONSTANTS
    Callers,      \* tasks that start runs: the scheduler job, POST /sync requests
    Scheduler,    \* the member of Callers that is the interval job
    Free,         \* the value of the run lock when nobody holds it
    MaxArrivals,  \* bound: messages that ever arrive in the mailbox
    PageSize,     \* settings.gmail_page_size
    Options,      \* the sync options callers use
    DefaultOptions, \* EmailSyncOptions(), what the scheduled job passes
    MaxFaults     \* bound: failed runs and crashes

Messages == 1 .. MaxArrivals

NoCursor == -1

(* EmailSyncOptions: "windowed" is is_windowed, "scope" the messages its    *)
(* date terms select, and 0 stands for a limit that is not set.            *)
SyncOptions == [windowed: BOOLEAN, scope: SUBSET Messages,
                maxMessages: Nat, maxPages: Nat]

ASSUME CallersAssumption == Scheduler \in Callers /\ Free \notin Callers

ASSUME BoundsAssumption ==
    MaxArrivals \in Nat /\ PageSize \in Nat \ {0} /\ MaxFaults \in Nat

ASSUME OptionsAssumption ==
    /\ Options \subseteq SyncOptions
    /\ DefaultOptions \in Options
    /\ ~DefaultOptions.windowed
    /\ \A o \in Options : ~o.windowed => o.scope = Messages /\ o.maxMessages = 0

VARIABLES
    arrived,    \* the provider: messages 1..arrived are in the mailbox
    horizon,    \* the provider: history before this id is no longer served
    stored,     \* raw_emails: messages whose metadata is stored
    sync,       \* email_sync_state: cursor, in_progress_mode, next_page_token
    backfill,   \* email_backfill_state: status, token, pages, cursor
    connected,  \* email_connections: a connection with reauth_required = 0
    lock,       \* EmailSyncStatusStore._run_lock
    status,     \* EmailSyncStatusStore._status.state
    pc,         \* where each caller is in its run
    run,        \* the local variables of each caller's run
    faults      \* bound counter, not part of the program

provider == <<arrived, horizon>>
durable == <<stored, sync, backfill, connected>>
memory == <<lock, status, pc, run>>
vars == <<provider, durable, memory, faults>>

----------------------------------------------------------------------------
(* Values *)

(* A page token continues one listing.  A full listing runs from the newest *)
(* message down: messages above "pos" were listed, and "anchor" is the      *)
(* history id the adapter wrapped into the token.  A history listing runs   *)
(* upwards from "anchor", the start cursor, and has reached "pos".          *)
NoToken == [kind |-> "none", anchor |-> NoCursor, pos |-> 0]
FullToken(anchor, pos) == [kind |-> "full", anchor |-> anchor, pos |-> pos]
HistoryToken(anchor, pos) == [kind |-> "incr", anchor |-> anchor, pos |-> pos]

Cursors == Nat \cup {NoCursor}
Tokens == {NoToken} \cup [kind: {"full", "incr"}, anchor: Nat, pos: Nat]

NoProgress(cursor) == [cursor |-> cursor, mode |-> "none", token |-> NoToken]

FreshBackfill(state) ==
    [status |-> state, token |-> NoToken, pages |-> 0, cursor |-> NoCursor]

Steps == {"idle", "resume", "profile", "list", "persist", "record", "tally",
          "advance", "finalize"}

Run == [path: {"none", "backfill", "pages"}, opts: SyncOptions,
        mode: {"full", "incr"}, token: Tokens, cursor: Cursors, latest: Cursors,
        anchor: Nat, msgs: SUBSET Messages, next: Tokens, newCursor: Cursors,
        pages: Nat, fetched: Nat]

NewRun(path, o) ==
    [path |-> path, opts |-> o, mode |-> "full", token |-> NoToken,
     cursor |-> NoCursor, latest |-> NoCursor, anchor |-> 0, msgs |-> {},
     next |-> NoToken, newCursor |-> NoCursor, pages |-> 0, fetched |-> 0]

NoRun == NewRun("none", DefaultOptions)

(* should_run_full_backfill *)
NeedsBackfill == sync.cursor = NoCursor \/ backfill.status # "completed"

(* _remaining_options and the page size of list_metadata_page *)
PageLimit(r) ==
    IF r.opts.maxMessages = 0 THEN PageSize
    ELSE LET left == r.opts.maxMessages - r.fetched
         IN  IF left < 1 THEN 1 ELSE IF left < PageSize THEN left ELSE PageSize

(* _sync_limit_reached *)
LimitReached(o, pages, fetched) ==
    \/ o.maxPages # 0 /\ pages >= o.maxPages
    \/ o.maxMessages # 0 /\ fetched >= o.maxMessages

FirstStep(mode, token) ==
    IF mode = "full" /\ token = NoToken THEN "profile" ELSE "list"

At(c, step) == pc[c] = step

Goto(c, step) == pc' = [pc EXCEPT ![c] = step]

(* latest_cursor after the current page *)
Latest(r) == IF r.newCursor # NoCursor THEN r.newCursor ELSE r.latest

Fetched(r) == r.fetched + Cardinality(r.msgs)

----------------------------------------------------------------------------
(* Mutated forms: a plausible mistake in the code that each property has to  *)
(* notice.  No specification uses them.                                      *)

(* anchors every page of a full listing at the current history id *)
Anchor_Refetched(r) == arrived

(* lists the first page again whatever state the backfill is in *)
ResumedBackfill_Restarts == FreshBackfill("running")

(* completes the backfill without clearing its page token *)
RecordedPage_TokenKept(r) ==
    [status |-> IF r.next = NoToken THEN "completed" ELSE "running",
     token |-> IF r.next = NoToken THEN backfill.token ELSE r.next,
     pages |-> backfill.pages + 1, cursor |-> r.newCursor]

(* forgets the resume token of the backfill that failed *)
FailedBackfill_Reset == FreshBackfill("failed")

(* promotes the cursor inside the page token before the listing is drained *)
PageProgress_Promotes(r) ==
    IF r.opts.windowed THEN sync
    ELSE [cursor |-> IF r.mode = "full" THEN r.next.anchor ELSE r.cursor,
          mode |-> r.mode, token |-> r.next]

(* stores only the page's own cursor *)
PageProgress_NoFallback(r) ==
    IF r.opts.windowed THEN sync
    ELSE [cursor |-> Latest(r), mode |-> r.mode, token |-> r.next]

(* stores the progress of windowed runs too *)
PageProgress_Windowed(r) ==
    [cursor |-> IF Latest(r) # NoCursor THEN Latest(r) ELSE r.cursor,
     mode |-> r.mode, token |-> r.next]

(* starts a run while another one holds the lock *)
AcquireRun_Unlocked(c) ==
    /\ At(c, "idle")
    /\ connected
    /\ lock' = c
    /\ status' = "running"

----------------------------------------------------------------------------
(* The durable state's updates *)

(* Where a full listing is anchored: the profile read before its first page,  *)
(* carried from page to page inside the token.                                *)
Anchor(r) == IF r.token = NoToken THEN r.anchor ELSE r.token.anchor

(* start_or_resume_backfill *)
ResumedBackfill ==
    IF backfill.status \in {"running", "failed"}
    THEN [backfill EXCEPT !.status = "running"]
    ELSE FreshBackfill("running")

(* What record_backfill_page stores: the last page completes the backfill. *)
RecordedPage(r) ==
    [status |-> IF r.next = NoToken THEN "completed" ELSE "running",
     token |-> r.next, pages |-> backfill.pages + 1, cursor |-> r.newCursor]

(* mark_backfill_failed *)
FailedBackfill ==
    IF backfill.status = "absent" THEN FreshBackfill("failed")
    ELSE [backfill EXCEPT !.status = "failed"]

(* store_page_progress, unless the run is windowed *)
PageProgress(r) ==
    IF r.opts.windowed THEN sync
    ELSE [cursor |-> IF Latest(r) # NoCursor THEN Latest(r) ELSE r.cursor,
          mode |-> r.mode, token |-> r.next]

----------------------------------------------------------------------------
Init ==
    /\ arrived \in 0 .. MaxArrivals
    /\ horizon = 0
    /\ stored = {}
    /\ sync = NoProgress(NoCursor)
    /\ backfill = FreshBackfill("absent")
    /\ connected = TRUE
    /\ lock = Free
    /\ status = "idle"
    /\ pc = [c \in Callers |-> "idle"]
    /\ run = [c \in Callers |-> NoRun]
    /\ faults = 0

----------------------------------------------------------------------------
(* The provider and the user *)

Arrive ==
    /\ arrived < MaxArrivals
    /\ arrived' = arrived + 1
    /\ UNCHANGED <<horizon, durable, memory, faults>>

Expire ==
    /\ horizon < arrived
    /\ horizon' = horizon + 1
    /\ UNCHANGED <<arrived, durable, memory, faults>>

(* The OAuth callback saves the connection with reauth_required cleared. *)
Reconnect ==
    /\ ~connected
    /\ connected' = TRUE
    /\ UNCHANGED <<provider, stored, sync, backfill, memory, faults>>

----------------------------------------------------------------------------
(* Starting a run: ConfiguredEmailSyncRuntime.run_manual_sync.  A caller    *)
(* that finds the lock taken, or no usable connection, gets an error and    *)
(* changes nothing.                                                         *)

AcquireRun(c) ==
    /\ At(c, "idle")
    /\ connected
    /\ lock = Free
    /\ lock' = c
    /\ status' = "running"

StartBackfill(c, o) ==
    /\ AcquireRun(c)
    /\ ~o.windowed /\ NeedsBackfill
    /\ run' = [run EXCEPT ![c] = NewRun("backfill", o)]
    /\ Goto(c, "resume")
    /\ UNCHANGED <<provider, durable, faults>>

(* A windowed run lists from scratch and ignores stored progress; any other *)
(* run continues the stored page token in its mode.                         *)
StartPages(c, o) ==
    LET resumes == ~o.windowed /\ sync.token # NoToken
        mode == IF o.windowed THEN "full" ELSE IF resumes THEN sync.mode ELSE "incr"
        token == IF resumes THEN sync.token ELSE NoToken
    IN  /\ AcquireRun(c)
        /\ o.windowed \/ ~NeedsBackfill
        /\ run' = [run EXCEPT ![c] =
                     [NewRun("pages", o) EXCEPT
                        !.mode = mode,
                        !.token = token,
                        !.cursor = sync.cursor,
                        !.latest = IF resumes /\ mode = "full"
                                   THEN sync.cursor ELSE NoCursor]]
        /\ Goto(c, FirstStep(mode, token))
        /\ UNCHANGED <<provider, durable, faults>>

Start(c, o) == StartBackfill(c, o) \/ StartPages(c, o)

ReleaseRun(c, outcome) ==
    /\ lock' = Free
    /\ status' = outcome
    /\ run' = [run EXCEPT ![c] = NoRun]
    /\ Goto(c, "idle")

----------------------------------------------------------------------------
(* Provider calls *)

(* _fetch_current_history_cursor, before the first page of a full listing *)
FetchProfile(c) ==
    /\ At(c, "profile")
    /\ run' = [run EXCEPT ![c].anchor = arrived]
    /\ Goto(c, "list")
    /\ UNCHANGED <<provider, durable, lock, status, faults>>

ReceivePage(c, msgs, next, newCursor) ==
    /\ run' = [run EXCEPT ![c] =
                  [@ EXCEPT !.msgs = msgs, !.next = next, !.newCursor = newCursor]]
    /\ Goto(c, "persist")
    /\ UNCHANGED <<provider, durable, lock, status, faults>>

(* One page of users.messages.list: newest first, at most PageLimit        *)
(* messages, cut where the provider likes.  The replacement cursor is      *)
(* withheld until the last page.                                           *)
ListFullPage(c) ==
    LET r == run[c]
        top == IF r.token = NoToken THEN arrived ELSE r.token.pos
    IN  /\ At(c, "list") /\ r.mode = "full"
        /\ \E cut \in 0 .. top :
             LET page == {m \in r.opts.scope : cut < m /\ m <= top}
                 more == \E m \in r.opts.scope : m <= cut
             IN  /\ Cardinality(page) <= PageLimit(r)
                 /\ page = {} => ~more
                 /\ ReceivePage(c, page,
                                IF more THEN FullToken(Anchor(r), cut) ELSE NoToken,
                                IF more THEN NoCursor ELSE Anchor(r))

(* One page of users.history.list from the start cursor, oldest first *)
ListHistoryPage(c) ==
    LET r == run[c]
        from == IF r.token = NoToken THEN r.cursor ELSE r.token.pos
    IN  /\ At(c, "list") /\ r.mode = "incr"
        /\ r.cursor >= horizon
        /\ \E cut \in from .. arrived :
             /\ cut - from <= PageSize
             /\ cut = from => from = arrived
             /\ ReceivePage(c, (from + 1) .. cut,
                            IF cut < arrived THEN HistoryToken(r.cursor, cut) ELSE NoToken,
                            IF cut < arrived THEN NoCursor ELSE arrived)

(* EmailSyncCursorExpiredError: restart as a full listing *)
CursorExpired(c) ==
    /\ At(c, "list") /\ run[c].mode = "incr"
    /\ run[c].cursor < horizon
    /\ run' = [run EXCEPT ![c] = [@ EXCEPT !.mode = "full", !.token = NoToken]]
    /\ Goto(c, "profile")
    /\ UNCHANGED <<provider, durable, lock, status, faults>>

----------------------------------------------------------------------------
(* Steps of both page loops *)

PersistPage(c) ==
    /\ At(c, "persist")
    /\ stored' = stored \cup run[c].msgs
    /\ Goto(c, IF run[c].path = "backfill" THEN "record" ELSE "advance")
    /\ UNCHANGED <<provider, sync, backfill, connected, lock, status, run, faults>>

----------------------------------------------------------------------------
(* run_full_backfill *)

(* start_or_resume_backfill, at the head of every page *)
ResumeBackfill(c) ==
    /\ At(c, "resume")
    /\ backfill' = ResumedBackfill
    /\ run' = [run EXCEPT ![c].token = ResumedBackfill.token]
    /\ Goto(c, FirstStep("full", ResumedBackfill.token))
    /\ UNCHANGED <<provider, stored, sync, connected, lock, status, faults>>

(* record_backfill_page accepts the page *)
Recordable(c) ==
    /\ backfill.status \notin {"absent", "completed"}
    /\ backfill.token = run[c].token
    /\ run[c].next = NoToken => run[c].newCursor # NoCursor

(* One transaction: the page's progress, and on the last page the cursor *)
RecordPage(c) ==
    LET recorded == RecordedPage(run[c])
    IN  /\ At(c, "record")
        /\ Recordable(c)
        /\ backfill' = recorded
        /\ sync' = IF recorded.status = "completed"
                   THEN NoProgress(recorded.cursor) ELSE sync
        /\ run' = [run EXCEPT ![c].pages = recorded.pages]
        /\ Goto(c, "tally")
        /\ UNCHANGED <<provider, stored, connected, lock, status, faults>>

TallyDone(c) ==
    backfill.status = "completed" \/ LimitReached(run[c].opts, run[c].pages, 0)

(* The status update after a recorded page, which reads the database *)
TallyPage(c) ==
    /\ At(c, "tally")
    /\ ~TallyDone(c)
    /\ Goto(c, "resume")
    /\ UNCHANGED <<provider, durable, lock, status, run, faults>>

FinishBackfill(c) ==
    /\ At(c, "tally")
    /\ TallyDone(c)
    /\ ReleaseRun(c, "succeeded")
    /\ UNCHANGED <<provider, durable, faults>>

----------------------------------------------------------------------------
(* _run_metadata_pages *)

AdvancePage(c) ==
    LET r == run[c]
    IN  /\ At(c, "advance")
        /\ r.next # NoToken
        /\ ~LimitReached(r.opts, r.pages + 1, Fetched(r))
        /\ sync' = PageProgress(r)
        /\ run' = [run EXCEPT ![c] =
                     [r EXCEPT !.token = r.next,
                               !.cursor = IF r.mode = "full" THEN NoCursor ELSE r.cursor,
                               !.latest = Latest(r),
                               !.pages = r.pages + 1,
                               !.fetched = Fetched(r)]]
        /\ Goto(c, "list")
        /\ UNCHANGED <<provider, stored, backfill, connected, lock, status, faults>>

(* The run's page or message limit stops it with pages left. *)
StopAtLimit(c) ==
    LET r == run[c]
    IN  /\ At(c, "advance")
        /\ r.next # NoToken
        /\ LimitReached(r.opts, r.pages + 1, Fetched(r))
        /\ sync' = PageProgress(r)
        /\ ReleaseRun(c, "succeeded")
        /\ UNCHANGED <<provider, stored, backfill, connected, faults>>

LastPage(c) ==
    /\ At(c, "advance")
    /\ run[c].next = NoToken
    /\ run' = [run EXCEPT ![c].latest = Latest(run[c])]
    /\ Goto(c, "finalize")
    /\ UNCHANGED <<provider, durable, lock, status, faults>>

(* store_sync_cursor, or clear_page_progress when no page carried a cursor *)
Finalize(c) ==
    /\ At(c, "finalize")
    /\ sync' = NoProgress(IF run[c].latest # NoCursor THEN run[c].latest ELSE sync.cursor)
    /\ ReleaseRun(c, "succeeded")
    /\ UNCHANGED <<provider, stored, backfill, connected, faults>>

----------------------------------------------------------------------------
(* Failures *)

(* Any exception in a run: a provider call, a body fetch, a database error.  *)
(* A backfill is marked failed; credentials the provider rejected are        *)
(* recorded; the lock is released.                                           *)
Fail(c) ==
    /\ ~At(c, "idle")
    /\ faults < MaxFaults
    /\ backfill' = IF run[c].path = "backfill" THEN FailedBackfill ELSE backfill
    /\ connected' \in {connected, FALSE}
    /\ ReleaseRun(c, "failed")
    /\ faults' = faults + 1
    /\ UNCHANGED <<provider, stored, sync>>

(* The handler of run_full_backfill writes the failure to the database before *)
(* it sets the status: that write can raise too.                              *)
FailInHandler(c) ==
    /\ ~At(c, "idle") /\ run[c].path = "backfill"
    /\ faults < MaxFaults
    /\ ReleaseRun(c, status)
    /\ faults' = faults + 1
    /\ UNCHANGED <<provider, durable>>

(* The backend process stops; its memory is lost. *)
Crash ==
    /\ faults < MaxFaults
    /\ \E c \in Callers : ~At(c, "idle")
    /\ lock' = Free
    /\ status' = "idle"
    /\ pc' = [c \in Callers |-> "idle"]
    /\ run' = [c \in Callers |-> NoRun]
    /\ faults' = faults + 1
    /\ UNCHANGED <<provider, durable>>

----------------------------------------------------------------------------
RunStep(c) ==
    \/ FetchProfile(c) \/ ListFullPage(c) \/ ListHistoryPage(c) \/ CursorExpired(c)
    \/ PersistPage(c)
    \/ ResumeBackfill(c) \/ RecordPage(c) \/ TallyPage(c) \/ FinishBackfill(c)
    \/ AdvancePage(c) \/ StopAtLimit(c) \/ LastPage(c) \/ Finalize(c)

Next ==
    \/ Arrive \/ Expire \/ Reconnect
    \/ \E c \in Callers, o \in Options : Start(c, o)
    \/ \E c \in Callers : RunStep(c)
    \/ \E c \in Callers : Fail(c) \/ FailInHandler(c)
    \/ Crash

Spec == Init /\ [][Next]_vars

(* A run that started keeps going while the process lives, the user         *)
(* reconnects an account that asks for it, and the interval job eventually  *)
(* finds the lock free even if other callers take it again and again.       *)
Fairness ==
    /\ WF_vars(Reconnect)
    /\ \A c \in Callers : WF_vars(RunStep(c))
    /\ SF_vars(Start(Scheduler, DefaultOptions))

FairSpec == Spec /\ Fairness

----------------------------------------------------------------------------
(* Properties *)

(* The values the tables and the run can hold, with what the stored records' *)
(* own validators demand of them.                                            *)
TypeOK ==
    /\ arrived \in 0 .. MaxArrivals /\ horizon \in 0 .. arrived
    /\ stored \subseteq Messages
    /\ sync \in [cursor: Cursors, mode: {"none", "full", "incr"}, token: Tokens]
    /\ sync.mode = "none" <=> sync.token = NoToken
    /\ backfill \in [status: {"absent", "running", "completed", "failed"},
                     token: Tokens, pages: Nat, cursor: Cursors]
    /\ backfill.status \in {"absent", "completed"} => backfill.token = NoToken
    /\ backfill.status = "completed" => backfill.cursor # NoCursor
    /\ connected \in BOOLEAN
    /\ lock \in Callers \cup {Free}
    /\ status \in {"idle", "running", "succeeded", "failed"}
    /\ pc \in [Callers -> Steps]
    /\ run \in [Callers -> Run]
    /\ faults \in 0 .. MaxFaults

HaveIn(S, from, to) == {m \in Messages : from < m /\ m <= to} \subseteq S

Have(from, to) == HaveIn(stored, from, to)

(* Once the backfill is complete, every message up to the promoted cursor is *)
(* stored: incremental syncs ask only for what came after the cursor, so a   *)
(* message below it that is missing would be missing for good.               *)
NoGap ==
    backfill.status = "completed" /\ sync.cursor # NoCursor => Have(0, sync.cursor)

(* The durable backfill state never claims a page whose messages were not    *)
(* stored, wherever a run was cut off: above its resume position everything  *)
(* up to its anchor is stored, and a completed backfill has it all.          *)
BackfillCovers ==
    /\ backfill.token # NoToken =>
         /\ backfill.token.kind = "full"
         /\ Have(backfill.token.pos, backfill.token.anchor)
    /\ backfill.status = "completed" => Have(0, backfill.cursor)

(* A stored page token is one the next run can use: of the stored mode, for  *)
(* history pages with the cursor it was issued for, and nothing the listing  *)
(* passed is missing.                                                        *)
ResumeTokenSound ==
    sync.token # NoToken =>
        /\ sync.token.kind = sync.mode
        /\ sync.mode = "incr" =>
             /\ sync.token.anchor = sync.cursor
             /\ Have(sync.token.anchor, sync.token.pos)
        /\ sync.mode = "full" => Have(sync.token.pos, sync.token.anchor)

(* record_backfill_page never raises "does not match current resume token":  *)
(* no other run moved the backfill while this one was listing and storing.   *)
BackfillRecordsItsPage ==
    \A c \in Callers : At(c, "record") => Recordable(c)

(* An unfinished backfill is only ever continued: until the step that        *)
(* completes it, its token stays in one listing and moves down it.           *)
BackfillResumes ==
    [][backfill.token # NoToken =>
         IF backfill'.token = NoToken THEN backfill'.status = "completed"
         ELSE /\ backfill'.token.anchor = backfill.token.anchor
              /\ backfill'.token.pos <= backfill.token.pos]_vars

(* A run that is not windowed takes up the listing that the stored progress  *)
(* left unfinished.                                                          *)
RunsResume ==
    [][\A c \in Callers :
         At(c, "idle") /\ sync.token # NoToken /\ backfill.status = "completed"
           /\ pc'[c] \in {"resume", "profile", "list"} /\ ~run'[c].opts.windowed
         => run'[c].token = sync.token]_vars

(* Every run ends and gives the lock back. *)
RunsEnd == \A c \in Callers : lock = c ~> lock # c

(* Every message in the mailbox is stored in the end. *)
EventuallyStored == []<>(1 .. arrived \subseteq stored)

(* The synchronisation implements a mirror of the mailbox whose watermark is *)
(* the cursor incremental syncs start from.                                  *)
Mirror == INSTANCE MailboxMirror WITH
    NoWatermark <- NoCursor, mailbox <- arrived, mirror <- stored,
    watermark <- IF backfill.status = "completed" THEN sync.cursor ELSE NoCursor

ImplementsMirror == Mirror!Spec

----------------------------------------------------------------------------
(* The inductive invariant behind the safety properties: what each run's     *)
(* local variables say about the tables while the run is between two steps.  *)

(* No run restricts the messages it lists to a date window. *)
Undated == \A o \in Options : o.scope = Messages

(* Token t of run r claims only messages in S. *)
TokenCovered(r, t, S) ==
    /\ t.kind = r.mode
    /\ r.mode = "full" => HaveIn(S, t.pos, t.anchor)
    /\ r.mode = "incr" => t.anchor = r.cursor /\ HaveIn(S, t.anchor, t.pos)

(* The page the run holds, and what it makes of the listing, are covered by S. *)
PageCovered(r, S) ==
    /\ r.next # NoToken =>
         /\ r.newCursor = NoCursor
         /\ TokenCovered(r, r.next, S)
         /\ r.mode = "full" /\ r.token # NoToken =>
               r.next.anchor = r.token.anchor /\ r.next.pos <= r.token.pos
    /\ r.next = NoToken =>
         /\ r.newCursor # NoCursor
         /\ HaveIn(S, IF r.mode = "full" THEN 0 ELSE r.cursor, r.newCursor)

(* Where a run is tells which loop it is in, and only one run is anywhere. *)
RunShape(c) ==
    LET r == run[c]
    IN  /\ ~At(c, "idle") => lock = c /\ r.opts \in Options /\ r.path # "none"
        /\ r.path = "backfill" =>
             /\ ~r.opts.windowed /\ r.mode = "full"
             /\ pc[c] \notin {"idle", "advance", "finalize"}
             /\ pc[c] # "resume" => backfill.status \in {"running", "completed"}
             /\ pc[c] \in {"profile", "list", "persist", "record"} =>
                  backfill.status = "running" /\ backfill.token = r.token
        /\ pc[c] \in {"resume", "record", "tally"} => r.path = "backfill"
        /\ At(c, "profile") => r.mode = "full" /\ r.token = NoToken
        /\ At(c, "list") /\ r.token = NoToken /\ r.mode = "full" => r.anchor <= arrived
        /\ r.mode = "incr" =>
             ~r.opts.windowed /\ (r.latest = NoCursor \/ At(c, "finalize"))

(* What a run that lists the whole mailbox has listed is stored. *)
RunCovered(c) ==
    LET r == run[c]
    IN  r.opts.scope = Messages =>
          /\ pc[c] \in {"list", "persist"} /\ r.token # NoToken =>
               TokenCovered(r, r.token, stored)
          /\ At(c, "persist") => PageCovered(r, stored \cup r.msgs)
          /\ pc[c] \in {"record", "advance"} => PageCovered(r, stored)

SyncInv ==
    /\ \A c \in Callers : RunShape(c) /\ RunCovered(c)
    /\ BackfillCovers
    /\ ResumeTokenSound

(* Without date windows every cursor anywhere is one up to which all is stored. *)
CursorInv ==
    /\ Have(0, sync.cursor)
    /\ \A c \in Callers :
         ~At(c, "idle") => Have(0, run[c].cursor) /\ Have(0, run[c].latest)

(* Nothing the program holds is ahead of the mailbox. *)
Seen(t) == t.anchor <= arrived /\ t.pos <= arrived

RunSeen(c) ==
    LET r == run[c]
    IN  /\ r.msgs \subseteq 1 .. arrived
        /\ r.cursor <= arrived /\ r.latest <= arrived /\ r.newCursor <= arrived
        /\ r.anchor <= arrived
        /\ Seen(r.token) /\ Seen(r.next)

SeenInv ==
    /\ stored \subseteq 1 .. arrived
    /\ sync.cursor <= arrived /\ Seen(sync.token) /\ Seen(backfill.token)
    /\ \A c \in Callers : RunSeen(c)

IInv == TypeOK /\ SyncInv /\ SeenInv /\ (Undated => CursorInv)
=============================================================================
