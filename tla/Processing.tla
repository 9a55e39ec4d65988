----------------------------- MODULE Processing -----------------------------
(***************************************************************************)
(* Processing of retained mail: classification in batches by a language    *)
(* model, aggregation of what it extracts into application timelines, and  *)
(* reconciliation of the search index.  `POST /processing/run` does all of *)
(* it under a run lock, `POST /classification/run` does one batch without  *)
(* the lock, and a chat turn reconciles the index.  Classifications and    *)
(* timelines are committed separately, with no await in between.           *)
(***************************************************************************)
EXTENDS Integers, FiniteSets

CONSTANTS
  Mail,          \* the messages that may be retained, in the order of sending
  Unreadable,    \* those no answer of the model on which can be parsed
  Blank,         \* those with a body of line breaks only
  Runners,       \* callers of POST /processing/run
  Classifiers,   \* callers of POST /classification/run
  Chats,         \* chat turns that search mail
  Free,          \* nobody
  BatchSize,     \* classification_batch_size
  MaxCandidates, \* processing_max_candidates_per_run
  MaxEmails,     \* chat_index_max_emails
  MaxTarget,     \* settings (model and prompt version) that are ever configured
  MaxFaults      \* bound: exceptions and crashes

Tasks == Runners \cup Classifiers \cup Chats

ASSUME ProcessingConstants ==
  /\ Mail \subseteq Nat /\ IsFiniteSet(Mail)
  /\ Unreadable \subseteq Mail /\ Blank \subseteq Mail
  /\ {BatchSize, MaxCandidates, MaxEmails, MaxTarget} \subseteq Nat \ {0}
  /\ MaxFaults \in Nat
  /\ Free \notin Tasks
  /\ Runners \cap Classifiers = {} /\ Runners \cap Chats = {}
  /\ Classifiers \cap Chats = {}

VARIABLES
  retained,      \* mail with a body
  classified,    \* email_classifications: the verdict stored of each message
  aggregated,    \* the verdict its timeline was last brought in line with
  index, lock, work,  \* the search index and its reconciliation
  target,        \* the configured model and prompt version, by number
  runLock,       \* the task that holds the processing run lock
  status,        \* ProcessingStatusStore
  loop,          \* the task that runs between two commits without an await
  pc,            \* where each task is
  job,           \* its locals
  faults         \* exceptions and crashes so far

indexVars == <<index, lock, work>>
mailVars == <<retained, classified, aggregated>>
runVars == <<runLock, status>>
vars == <<mailVars, indexVars, runVars, target, loop, pc, job, faults>>

Verdicts == [target: 0 .. MaxTarget, job: BOOLEAN]
NoVerdict == [target |-> 0, job |-> FALSE]

Eligible == {e \in retained : classified[e].job}
Index == INSTANCE ChatIndex WITH eligible <- Eligible, Tasks <- Runners \cup Chats

\* Retained mail without a verdict of the configured model and prompt.
Candidates == {e \in retained : classified[e].target # target}

\* The first `limit` of them by sending time, of which blank ones are dropped:
\* TRIM leaves line breaks, the validation of the rows strips them.
Batch(pending, limit) ==
  {e \in pending : Cardinality({f \in pending : f < e}) < limit} \ Blank

\* attempted: messages this run has tried.  batch: those at the model now, under
\* the settings `target`.  results: its accepted verdicts, to be aggregated.
\* accepted: there were some in the run.
NoResults == [e \in Mail |-> NoVerdict]
NoJob == [limit |-> 0, attempted |-> {}, batch |-> {}, target |-> 0,
          results |-> NoResults, accepted |-> FALSE]

\* The messages a batch has verdicts of, and a table brought in line with them.
Accepted(results) == {e \in Mail : results[e] # NoVerdict}
Updated(table, results) ==
  [e \in Mail |-> IF e \in Accepted(results) THEN results[e] ELSE table[e]]

Smaller(m, n) == IF m < n THEN m ELSE n

\* Mutated form: a connection that ignores the other's write transaction.
CanWrite_Always == TRUE

\* A write of a task: no reconciliation has a write transaction open.
CanWrite == ~work.dirty

-----------------------------------------------------------------------------
Init ==
  /\ retained = {} /\ target = 1
  /\ classified = [e \in Mail |-> NoVerdict] /\ aggregated = [e \in Mail |-> NoVerdict]
  /\ index = {} /\ lock = Free /\ work = Index!Idle
  /\ runLock = Free /\ status = "idle" /\ loop = Free
  /\ pc = [t \in Tasks |-> "idle"] /\ job = [t \in Tasks |-> NoJob]
  /\ faults = 0

\* Sync retains the body of a candidate.
Retain(e) ==
  /\ loop = Free /\ CanWrite
  /\ e \notin retained
  /\ retained' = retained \cup {e}
  /\ UNCHANGED <<classified, aggregated, indexVars, runVars, target, loop, pc, job, faults>>

\* Sends a batch to the model, or goes on to ghost inference when there is none;
\* even then the accounting row is written.
SendBatch(t, j, pending) ==
  LET batch == Batch(pending, Smaller(BatchSize, j.limit - Cardinality(j.attempted)))
  IN  /\ job' = [job EXCEPT ![t] = [j EXCEPT !.batch = batch, !.target = target]]
      /\ IF batch = {}
         THEN CanWrite /\ pc' = [pc EXCEPT ![t] = "ghosts"] /\ loop' = t
         ELSE pc' = [pc EXCEPT ![t] = "classifying"] /\ loop' = Free

\* Mutated form: the lock is released, the status forgotten.
Leave_StatusKept(t, outcome) ==
  /\ pc' = [pc EXCEPT ![t] = "idle"] /\ job' = [job EXCEPT ![t] = NoJob]
  /\ loop' = IF loop = t THEN Free ELSE loop
  /\ runLock' = IF t \in Runners THEN Free ELSE runLock
  /\ UNCHANGED status

\* The task ends, by return or by exception.
Leave(t, outcome) ==
  /\ pc' = [pc EXCEPT ![t] = "idle"] /\ job' = [job EXCEPT ![t] = NoJob]
  /\ loop' = IF loop = t THEN Free ELSE loop
  /\ IF t \in Runners THEN runLock' = Free /\ status' = outcome ELSE UNCHANGED runVars

\* Mutated form: one message more than was asked for.
StartRun_OneMore(t, limit) ==
  /\ pc[t] = "idle" /\ loop = Free /\ runLock = Free
  /\ runLock' = t /\ status' = "running"
  /\ SendBatch(t, [NoJob EXCEPT !.limit = limit + 1], Candidates)
  /\ UNCHANGED <<mailVars, indexVars, target, faults>>

\* POST /processing/run finds the run lock free.
StartRun(t, limit) ==
  /\ pc[t] = "idle" /\ loop = Free /\ runLock = Free
  /\ runLock' = t /\ status' = "running"
  /\ SendBatch(t, [NoJob EXCEPT !.limit = limit], Candidates)
  /\ UNCHANGED <<mailVars, indexVars, target, faults>>

\* Its accounting row is all it would write, and the database is locked.
StartLocked(t, limit) ==
  /\ pc[t] = "idle" /\ loop = Free /\ runLock = Free
  /\ Batch(Candidates, Smaller(BatchSize, limit)) = {} /\ ~CanWrite
  /\ status' = "failed"
  /\ UNCHANGED <<mailVars, indexVars, runLock, target, loop, pc, job, faults>>

\* POST /classification/run sends one batch.  With nothing to classify it only
\* writes its accounting row.
StartBatch(t) ==
  /\ pc[t] = "idle" /\ loop = Free /\ Batch(Candidates, BatchSize) # {}
  /\ pc' = [pc EXCEPT ![t] = "classifying"]
  /\ job' = [job EXCEPT ![t] = [NoJob EXCEPT !.batch = Batch(Candidates, BatchSize),
                                             !.target = target]]
  /\ UNCHANGED <<mailVars, indexVars, runVars, target, loop, faults>>

\* The accepted answers, which carry the model and prompt the batch began with.
Answers(t, accepted, verdict) ==
  [e \in Mail |-> IF e \in accepted THEN [target |-> job[t].target, job |-> verdict[e]]
                                    ELSE NoVerdict]

\* Mutated form: an await between the two commits of a batch.
StoreBatch_Awaits(t, accepted, verdict) ==
  /\ pc[t] = "classifying" /\ loop = Free /\ CanWrite
  /\ accepted \subseteq job[t].batch \ Unreadable
  /\ classified' = Updated(classified, Answers(t, accepted, verdict))
  /\ job' = [job EXCEPT ![t].results = Answers(t, accepted, verdict)]
  /\ pc' = [pc EXCEPT ![t] = "aggregating"]
  /\ UNCHANGED <<retained, aggregated, indexVars, runVars, target, loop, faults>>

\* The model has answered for the whole batch: accepted verdicts are committed.
\* The rest is malformed and stays a candidate.
StoreBatch(t, accepted, verdict) ==
  /\ pc[t] = "classifying" /\ loop = Free /\ CanWrite
  /\ accepted \subseteq job[t].batch \ Unreadable
  /\ classified' = Updated(classified, Answers(t, accepted, verdict))
  /\ job' = [job EXCEPT ![t].results = Answers(t, accepted, verdict)]
  /\ pc' = [pc EXCEPT ![t] = "aggregating"] /\ loop' = t
  /\ UNCHANGED <<retained, aggregated, indexVars, runVars, target, faults>>

\* Mutated form: only accepted mail counts as tried.
AfterBatch_AcceptedOnly(j) ==
  [j EXCEPT !.attempted = @ \cup Accepted(j.results), !.results = NoResults,
            !.accepted = @ \/ Accepted(j.results) # {}]

\* A run's locals once a batch is aggregated, and what may be sent then.
AfterBatch(j) ==
  [j EXCEPT !.attempted = @ \cup j.batch, !.results = NoResults,
            !.accepted = @ \/ Accepted(j.results) # {}]

\* Mutated form: what was tried is offered again.
Offered_Again(j) == Candidates

Offered(j) == Candidates \ j.attempted

\* Mutated form: a run gives up while it has only malformed answers.
LimitReached_Malformed(j) == Cardinality(j.attempted) >= j.limit \/ ~j.accepted

LimitReached(j) == Cardinality(j.attempted) >= j.limit

\* What a run does after a batch: the next one, unless its limit is reached.
NextBatch(t) ==
  LET j == AfterBatch(job[t])
  IN  IF LimitReached(j)
      THEN /\ job' = [job EXCEPT ![t] = [j EXCEPT !.batch = {}]]
           /\ pc' = [pc EXCEPT ![t] = "ghosts"] /\ loop' = t
      ELSE SendBatch(t, j, Offered(j))

\* The timelines are brought in line with the accepted verdicts and committed.
Aggregate(t) ==
  /\ pc[t] = "aggregating" /\ loop = t
  /\ aggregated' = Updated(aggregated, job[t].results)
  /\ IF t \in Runners THEN NextBatch(t) /\ UNCHANGED runVars ELSE Leave(t, "succeeded")
  /\ UNCHANGED <<retained, classified, indexVars, target, faults>>

\* Ghost inference has run; the index is reconciled if anything was accepted.
InferGhosts(t) ==
  /\ pc[t] = "ghosts" /\ loop = t
  /\ IF job[t].accepted
     THEN pc' = [pc EXCEPT ![t] = "indexing"] /\ loop' = Free /\ UNCHANGED <<job, runVars>>
     ELSE Leave(t, "succeeded")
  /\ UNCHANGED <<mailVars, indexVars, target, faults>>

\* A chat turn is about to search mail.
Ask(t) ==
  /\ pc[t] = "idle" /\ loop = Free
  /\ pc' = [pc EXCEPT ![t] = "indexing"]
  /\ UNCHANGED <<mailVars, indexVars, runVars, target, loop, job, faults>>

\* A step of the reconciliation, the last of which ends the task's work.
Reconcile(t) ==
  /\ t \in Runners \cup Chats
  /\ pc[t] = "indexing" /\ loop = Free
  /\ UNCHANGED <<mailVars, target, faults>>
  /\ Index!Begin(t) \/ Index!StorePage(t)
  /\ IF lock' = Free THEN Leave(t, "succeeded") ELSE UNCHANGED <<runVars, loop, pc, job>>

\* An exception in task t rolls its open transaction back.
Raise(t, outcome) ==
  /\ Leave(t, outcome)
  /\ IF lock = t THEN lock' = Free /\ work' = Index!Idle ELSE UNCHANGED <<lock, work>>
  /\ UNCHANGED <<mailVars, index, target>>

\* A write waits for the reconciliation that has written, on the event loop that
\* the reconciliation needs to go on, and gives up: the database is locked.
Locked(t) ==
  /\ pc[t] = "classifying" /\ loop = Free /\ ~CanWrite
  /\ Raise(t, "failed") /\ UNCHANGED faults

\* Anything else fails.  The handler of a run queries the database before it sets
\* the status, so it may fail as well.
Fail(t) ==
  /\ pc[t] # "idle" /\ loop \in {Free, t} /\ faults < MaxFaults
  /\ \E outcome \in {"failed", status} : Raise(t, outcome)
  /\ faults' = faults + 1

\* The process ends and starts again.
Crash ==
  /\ faults < MaxFaults /\ faults' = faults + 1
  /\ lock' = Free /\ work' = Index!Idle
  /\ runLock' = Free /\ status' = "idle" /\ loop' = Free
  /\ pc' = [t \in Tasks |-> "idle"] /\ job' = [t \in Tasks |-> NoJob]
  /\ UNCHANGED <<mailVars, index, target>>

\* The provider settings are updated, whatever is running.
Reconfigure ==
  /\ loop = Free /\ CanWrite
  /\ target' \in (1 .. MaxTarget) \ {target}
  /\ UNCHANGED <<mailVars, indexVars, runVars, loop, pc, job, faults>>

Store(t) ==
  \E accepted \in SUBSET job[t].batch : \E verdict \in [accepted -> BOOLEAN] :
    StoreBatch(t, accepted, verdict)

Step(t) ==
  \/ Store(t) \/ Aggregate(t) \/ InferGhosts(t) \/ Reconcile(t)
  \/ Locked(t)

Next ==
  \/ \E e \in Mail : Retain(e)
  \/ \E t \in Runners, limit \in 1 .. MaxCandidates :
       StartRun(t, limit) \/ StartLocked(t, limit)
  \/ \E t \in Classifiers : StartBatch(t)
  \/ \E t \in Chats : Ask(t)
  \/ \E t \in Tasks : Step(t) \/ Fail(t)
  \/ Crash \/ Reconfigure

Spec == Init /\ [][Next]_vars

\* A task that has started goes on while the process lives, and the model does
\* not refuse a message it can read for ever.
TaskFairness ==
  /\ \A t \in Runners \cup Classifiers :
       /\ WF_vars(Aggregate(t)) /\ SF_vars(Store(t) \/ Locked(t))
       /\ \A e \in Mail \ (Unreadable \cup Blank) :
            SF_vars(Store(t) /\ e \in Accepted(job'[t].results))
  /\ \A t \in Runners : WF_vars(InferGhosts(t))
  /\ \A t \in Runners \cup Chats : SF_vars(Reconcile(t))

\* The user runs processing again, without a limit of their own, and keeps asking.
UserFairness ==
  /\ SF_vars(\E t \in Runners : StartRun(t, MaxCandidates))
  /\ SF_vars(\E t \in Chats : Ask(t))

FairSpec == Spec /\ TaskFairness /\ UserFairness

-----------------------------------------------------------------------------
(* Type correctness. *)
Points == {"idle", "classifying", "aggregating", "ghosts", "indexing"}
Job == [limit: 0 .. MaxCandidates, attempted: SUBSET Mail, batch: SUBSET Mail,
        target: 0 .. MaxTarget, results: [Mail -> Verdicts], accepted: BOOLEAN]

TypeOK ==
  /\ retained \subseteq Mail /\ Index!TypeOK
  /\ classified \in [Mail -> Verdicts] /\ aggregated \in [Mail -> Verdicts]
  /\ target \in 1 .. MaxTarget /\ faults \in 0 .. MaxFaults
  /\ runLock \in Runners \cup {Free} /\ loop \in Tasks \cup {Free}
  /\ status \in {"idle", "running", "succeeded", "failed"}
  /\ pc \in [Tasks -> Points]
  /\ job \in [Tasks -> Job]

\* Without exceptions and crashes, the timelines follow the stored verdicts,
\* whoever stored them last: batches of a locked run and of unlocked ones may
\* classify the same mail differently, and the two commits of one batch are
\* never separated by another's.
TimelineFollowsVerdict ==
  faults = 0 =>
    \A e \in Mail :
      \/ classified[e] = aggregated[e]
      \/ loop # Free /\ e \in Accepted(job[loop].results)

\* A run sends no message twice and no more than its limit, whatever is
\* malformed, retained or classified by others meanwhile.
EachMailOncePerRun ==
  \A t \in Runners :
    LET j == job[t]
    IN  /\ pc[t] = "classifying" => j.batch # {} /\ j.batch \cap j.attempted = {}
        /\ Cardinality(j.attempted \cup j.batch) <= j.limit

\* The run lock is held exactly by the task that is in a run, the status says
\* running all the while, and without exceptions and crashes it stops saying so
\* with the run, even with one whose writes met a locked database.
StatusTellsRun ==
  /\ \A t \in Runners : (pc[t] # "idle") <=> (runLock = t)
  /\ runLock # Free => status = "running"
  /\ faults = 0 /\ status = "running" => runLock # Free

\* The next-action text of the pipeline status: "The pipeline is up to date.
\* Dashboard metrics reflect all processed email."  It is given when no
\* candidates wait, so then all mail stored as job-related is in the timelines.
DashboardIsCurrent ==
  (Candidates = {} /\ \A t \in Tasks : pc[t] = "idle") =>
    \A e \in Eligible : aggregated[e] = classified[e]

\* What the index does under processing and chat is what ChatIndex allows.
IndexSpec == Index!Spec

\* Every task ends.
TasksEnd == \A t \in Tasks : pc[t] # "idle" ~> pc[t] = "idle"

\* The user stops changing the settings.
SettingsSettle == \E k \in 1 .. MaxTarget : <>[](target = k)

\* In the end every retained message the model can read has a verdict of the
\* configured model and prompt, although unreadable mail is tried first, again
\* in every run, and fills its batches and part of its limit.  conventions.md:
\* "Classification candidate queries must exclude empty or whitespace-only
\* retained body text", so blank mail is in nobody's way.
AllMailClassified == SettingsSettle => <>[](Candidates \subseteq Unreadable \cup Blank)

\* In the end the index holds exactly the retained job mail, after verdicts that
\* changed under a reconciliation and reconciliations that failed.
IndexSettles == SettingsSettle => <>[](index = Eligible)
==============================================================================
