-------------------------- MODULE ProcessingProofs --------------------------
(***************************************************************************)
(* Type correctness of Processing, that timelines follow the stored        *)
(* verdicts, that the status tells the run, and that the index behaves     *)
(* under it as ChatIndex allows.                                           *)
(***************************************************************************)
EXTENDS Processing, FiniteSetTheorems, TLAPS

\* The task that holds the event loop between two commits is the one that has
\* stored verdicts or finished its batches.
LoopOwner ==
  \A t \in Tasks : (pc[t] \in {"aggregating", "ghosts"}) <=> (loop = t)

\* Verdicts are kept only between the two commits, and are what the table holds.
ResultsStored ==
  \A t \in Tasks : \A e \in Accepted(job[t].results) :
    pc[t] = "aggregating" /\ classified[e] = job[t].results[e]

LockInv == lock = Free => work = Index!Idle

ProcessingInv ==
  /\ TypeOK /\ LockInv
  /\ LoopOwner /\ ResultsStored
  /\ TimelineFollowsVerdict /\ StatusTellsRun

-----------------------------------------------------------------------------
LEMMA UpdatedType ==
  ASSUME NEW table \in [Mail -> Verdicts], NEW results \in [Mail -> Verdicts]
  PROVE  Updated(table, results) \in [Mail -> Verdicts]
BY DEF Updated

LEMMA NoJobType == NoJob \in Job /\ Accepted(NoJob.results) = {}
<1>1. NoVerdict \in Verdicts
  BY ProcessingConstants DEF NoVerdict, Verdicts
<1> QED BY <1>1, ProcessingConstants DEF NoJob, Job, NoResults, Accepted

\* A step of task t leaves the others where they are.
OthersKept(t) == \A s \in Tasks \ {t} : pc'[s] = pc[s] /\ job'[s] = job[s]

LEMMA SendBatchFacts ==
  ASSUME TypeOK, NEW t \in Tasks, NEW j \in Job, NEW pending \in SUBSET Mail,
         SendBatch(t, j, pending)
  PROVE  /\ job' \in [Tasks -> Job] /\ pc' \in [Tasks -> Points]
         /\ OthersKept(t)
         /\ \/ pc'[t] = "ghosts" /\ loop' = t
            \/ pc'[t] = "classifying" /\ loop' = Free
         /\ job'[t].results = j.results
<1> DEFINE batch == Batch(pending, Smaller(BatchSize, j.limit - Cardinality(j.attempted)))
           filled == [j EXCEPT !.batch = batch, !.target = target]
<1>1. batch \in SUBSET Mail
  BY DEF Batch
<1>2. filled \in Job /\ filled.results = j.results
  <2> HIDE DEF batch
  <2>1. target \in 0 .. MaxTarget
    BY ProcessingConstants DEF TypeOK
  <2> QED BY <1>1, <2>1 DEF Job
<1>3. job' = [job EXCEPT ![t] = filled]
  BY DEF SendBatch
<1> HIDE DEF filled
<1>4. /\ job' \in [Tasks -> Job] /\ \A s \in Tasks \ {t} : job'[s] = job[s]
      /\ job'[t].results = j.results
  BY <1>2, <1>3 DEF TypeOK
<1>5. CASE pc' = [pc EXCEPT ![t] = "ghosts"] /\ loop' = t
  BY <1>4, <1>5 DEF TypeOK, OthersKept, Points
<1>6. CASE pc' = [pc EXCEPT ![t] = "classifying"] /\ loop' = Free
  BY <1>4, <1>6 DEF TypeOK, OthersKept, Points
<1> QED BY <1>5, <1>6 DEF SendBatch

LEMMA LeaveFacts ==
  ASSUME TypeOK, NEW t \in Tasks, NEW outcome, Leave(t, outcome)
  PROVE  /\ job' \in [Tasks -> Job] /\ pc' \in [Tasks -> Points]
         /\ OthersKept(t)
         /\ pc'[t] = "idle" /\ job'[t] = NoJob
         /\ loop' = IF loop = t THEN Free ELSE loop
         /\ IF t \in Runners THEN runLock' = Free /\ status' = outcome ELSE UNCHANGED runVars
<1>1. NoJob \in Job
  BY NoJobType
<1> QED BY <1>1 DEF Leave, TypeOK, OthersKept, Points

LEMMA Disjoint ==
  /\ Free \notin Tasks
  /\ Runners \subseteq Tasks /\ Classifiers \subseteq Tasks /\ Chats \subseteq Tasks
  /\ \A t \in Classifiers \cup Chats : t \notin Runners
BY ProcessingConstants DEF Tasks

-----------------------------------------------------------------------------
LEMMA EligibleType ==
  ASSUME TypeOK PROVE Eligible \in SUBSET Mail
BY DEF TypeOK, Eligible

\* Counting means the same in the index's module.
LEMMA SameCardinality == \A S : Index!Cardinality(S) = Cardinality(S)
BY DEF Index!Cardinality, Cardinality

\* The page of a message of any listing is a number.
LEMMA PageType ==
  ASSUME NEW mail \in SUBSET Mail, NEW e \in Mail
  PROVE  Index!PageOf(e, mail) \in Nat
<1> DEFINE before == {f \in mail : f < e}
<1>1. IsFiniteSet(before)
  BY FS_Subset, ProcessingConstants
<1>2. Cardinality(before) \in Nat
  BY <1>1, FS_CardinalityType
<1>3. Cardinality(before) \div MaxEmails \in Nat
  BY <1>2, ProcessingConstants
<1> QED BY <1>3, SameCardinality DEF Index!PageOf, Index!Rank

\* A step of a reconciliation keeps the types of the index.
LEMMA ContinueTypes ==
  ASSUME TypeOK, NEW t \in Runners \cup Chats, NEW seen \in SUBSET Mail,
         NEW indexed \in SUBSET Mail, NEW from, NEW dirty \in BOOLEAN,
         Index!Continue(t, seen, indexed, from, dirty)
  PROVE  /\ index' \in SUBSET Mail /\ work' \in Index!Work
         /\ lock' \in {t, Free}
         /\ lock' = Free => work' = Index!Idle
<1> DEFINE missing == Index!Missing(from, Index!Cardinality(seen), indexed)
<1>1. missing \subseteq Mail
  BY EligibleType DEF Index!Missing
<1>2. CASE index' = indexed /\ lock' = Free /\ work' = Index!Idle
  BY <1>2 DEF Index!Idle, Index!Work
<1>3. ASSUME NEW e \in missing, lock' = t, UNCHANGED index,
             work' = [seen |-> seen, draft |-> indexed, dirty |-> dirty,
                      page |-> Index!PageOf(e, Eligible),
                      pending |-> {f \in missing :
                                     Index!PageOf(f, Eligible) = Index!PageOf(e, Eligible)}]
      PROVE  /\ index' \in SUBSET Mail /\ work' \in Index!Work
             /\ lock' \in {t, Free}
             /\ lock' = Free => work' = Index!Idle
  <2>1. Index!PageOf(e, Eligible) \in Nat
    BY <1>1, EligibleType, PageType
  <2>2. work' \in Index!Work
    BY <1>1, <1>3, <2>1 DEF Index!Work
  <2>3. lock' # Free
    BY <1>3, Disjoint
  <2> QED BY <1>3, <2>2, <2>3 DEF TypeOK, Index!TypeOK
<1> QED BY <1>2, <1>3, Zenon DEF Index!Continue

LEMMA ReconcileTypes ==
  ASSUME TypeOK, NEW t \in Tasks, Reconcile(t)
  PROVE  /\ index' \in SUBSET Mail /\ work' \in Index!Work
         /\ lock' \in {t, Free}
         /\ lock' = Free => work' = Index!Idle
         /\ UNCHANGED <<mailVars, target, faults>>
         /\ pc[t] = "indexing" /\ loop = Free
         /\ Leave(t, "succeeded") \/ UNCHANGED <<runVars, loop, pc, job>>
         /\ t \in Runners \cup Chats
<1>1. t \in Runners \cup Chats /\ lock \in Tasks \cup {Free}
  BY DEF Reconcile, TypeOK, Index!TypeOK, Tasks
<1>2. ASSUME Index!Begin(t)
      PROVE  index' \in SUBSET Mail /\ work' \in Index!Work /\ lock' \in {t, Free}
             /\ (lock' = Free => work' = Index!Idle)
  <2> DEFINE indexed == index \cap Eligible
             dirty == index \ Eligible # {}
  <2>1. /\ Eligible \in SUBSET Mail /\ indexed \in SUBSET Mail /\ dirty \in BOOLEAN
        /\ Index!Continue(t, Eligible, indexed, 0, dirty)
    BY <1>2, EligibleType DEF Index!Begin
  <2> HIDE DEF indexed, dirty
  <2> QED BY <1>1, <2>1, ContinueTypes
<1>3. ASSUME Index!StorePage(t)
      PROVE  index' \in SUBSET Mail /\ work' \in Index!Work /\ lock' \in {t, Free}
             /\ (lock' = Free => work' = Index!Idle)
  <2> DEFINE seen == work.seen
             indexed == work.draft \cup work.pending
             from == work.page + 1
  <2>1. /\ seen \in SUBSET Mail /\ indexed \in SUBSET Mail /\ TRUE \in BOOLEAN
        /\ Index!Continue(t, seen, indexed, from, TRUE)
    BY <1>3 DEF Index!StorePage, TypeOK, Index!TypeOK, Index!Work
  <2> HIDE DEF seen, indexed, from
  <2> QED BY <1>1, <2>1, ContinueTypes
<1>4. Index!Begin(t) \/ Index!StorePage(t)
  BY DEF Reconcile
<1>5. /\ index' \in SUBSET Mail /\ work' \in Index!Work
      /\ lock' \in {t, Free}
      /\ lock' = Free => work' = Index!Idle
  BY <1>2, <1>3, <1>4
<1> QED BY <1>1, <1>5 DEF Reconcile

-----------------------------------------------------------------------------
\* A step of a task that has the event loop to itself keeps LoopOwner and
\* ResultsStored, if it keeps them for that task.
LEMMA TaskStep ==
  ASSUME ProcessingInv, NEW t \in Tasks, loop \in {Free, t},
         pc' \in [Tasks -> Points], job' \in [Tasks -> Job], OthersKept(t),
         \/ pc'[t] \in {"aggregating", "ghosts"} /\ loop' = t
         \/ pc'[t] \notin {"aggregating", "ghosts"} /\ loop' = Free,
         \A e \in Accepted(job'[t].results) :
           pc'[t] = "aggregating" /\ classified'[e] = job'[t].results[e]
  PROVE  LoopOwner' /\ ResultsStored' /\ loop' \in Tasks \cup {Free}
<1>1. \A s \in Tasks \ {t} : pc[s] \notin {"aggregating", "ghosts"} /\ loop # s
  BY Disjoint DEF ProcessingInv, LoopOwner
<1>2. \A s \in Tasks \ {t} : Accepted(job[s].results) = {}
  BY <1>1 DEF ProcessingInv, ResultsStored
<1>3. LoopOwner'
  BY <1>1, Disjoint DEF LoopOwner, OthersKept
<1>4. ASSUME NEW s \in Tasks, NEW e \in Accepted(job'[s].results)
      PROVE  pc'[s] = "aggregating" /\ classified'[e] = job'[s].results[e]
  BY <1>2, <1>4 DEF OthersKept
<1>5. ResultsStored'
  BY <1>4 DEF ResultsStored, Accepted
<1> QED BY <1>3, <1>5

\* While nobody is between two commits, timelines and verdicts agree; so they do
\* after a step that changes neither.
LEMMA TimelineStep ==
  ASSUME ProcessingInv, UNCHANGED <<classified, aggregated, faults>>,
         \/ loop = Free
         \/ \E t \in Tasks : loop = t /\ pc[t] # "aggregating"
  PROVE  TimelineFollowsVerdict'
<1>1. ASSUME loop # Free PROVE Accepted(job[loop].results) = {}
  BY <1>1 DEF ProcessingInv, ResultsStored
<1>2. faults = 0 => \A e \in Mail : classified[e] = aggregated[e]
  BY <1>1 DEF ProcessingInv, TimelineFollowsVerdict
<1> QED BY <1>2 DEF TimelineFollowsVerdict

\* The end of a task, by whatever action, keeps StatusTellsRun.
LEMMA LeaveStatus ==
  ASSUME ProcessingInv, NEW t \in Tasks, pc[t] # "idle",
         NEW outcome \in {"idle", "running", "succeeded", "failed"}, Leave(t, outcome),
         \/ faults' = faults /\ outcome # "running"
         \/ faults' # 0
  PROVE  /\ StatusTellsRun'
         /\ runLock' \in Runners \cup {Free}
         /\ status' \in {"idle", "running", "succeeded", "failed"}
<1>1. /\ OthersKept(t) /\ pc'[t] = "idle"
      /\ IF t \in Runners THEN runLock' = Free /\ status' = outcome ELSE UNCHANGED runVars
  BY LeaveFacts DEF ProcessingInv
<1>2. CASE t \in Runners
  <2>1. runLock = t
    BY <1>2 DEF ProcessingInv, StatusTellsRun
  <2> QED BY <1>1, <1>2, <2>1, Disjoint DEF ProcessingInv, StatusTellsRun, OthersKept
<1>3. CASE t \notin Runners
  BY <1>1, <1>3, Disjoint DEF ProcessingInv, StatusTellsRun, OthersKept, runVars, TypeOK
<1> QED BY <1>2, <1>3

\* A step inside a task keeps it too.
LEMMA RunningStatus ==
  ASSUME ProcessingInv, NEW t \in Tasks, OthersKept(t), UNCHANGED <<runVars, faults>>,
         t \in Runners => pc[t] # "idle" /\ pc'[t] # "idle"
  PROVE  /\ StatusTellsRun'
         /\ runLock' \in Runners \cup {Free}
         /\ status' \in {"idle", "running", "succeeded", "failed"}
BY Disjoint DEF ProcessingInv, StatusTellsRun, OthersKept, runVars, TypeOK

\* A change of the mail tables that leaves the index alone keeps its types.
LEMMA IndexTypeKept ==
  ASSUME TypeOK, retained' \in SUBSET Mail, UNCHANGED index,
         \/ UNCHANGED <<lock, work>>
         \/ lock' = Free /\ work' = Index!Idle
  PROVE  Index!TypeOK'
<1>1. Eligible' \in SUBSET Mail
  BY DEF Eligible
<1>2. Index!Idle \in Index!Work
  BY DEF Index!Idle, Index!Work
<1> QED BY <1>1, <1>2 DEF TypeOK, Index!TypeOK, Index!Work

-----------------------------------------------------------------------------
LEMMA RetainKeeps ==
  ASSUME ProcessingInv, NEW e \in Mail, Retain(e)
  PROVE  ProcessingInv'
<1>1. Index!TypeOK'
  BY IndexTypeKept DEF Retain, ProcessingInv, TypeOK, indexVars
<1>2. TypeOK'
  BY <1>1 DEF Retain, ProcessingInv, TypeOK, runVars
<1> QED BY <1>2 DEF Retain, ProcessingInv, LockInv, LoopOwner, ResultsStored, Accepted,
             TimelineFollowsVerdict, StatusTellsRun, indexVars, runVars

LEMMA StartRunKeeps ==
  ASSUME ProcessingInv, NEW t \in Runners, NEW limit \in 1 .. MaxCandidates,
         StartRun(t, limit)
  PROVE  ProcessingInv'
<1> DEFINE j == [NoJob EXCEPT !.limit = limit]
<1>1. j \in Job /\ Accepted(j.results) = {}
  BY NoJobType DEF Job
<1>2. /\ pc[t] = "idle" /\ loop = Free /\ runLock = Free
      /\ runLock' = t /\ status' = "running"
      /\ SendBatch(t, j, Candidates)
      /\ UNCHANGED <<mailVars, indexVars, target, faults>>
  BY DEF StartRun
<1>3. Candidates \in SUBSET Mail /\ TypeOK /\ t \in Tasks
  BY Disjoint DEF ProcessingInv, TypeOK, Candidates
<1> HIDE DEF j
<1>4. /\ job' \in [Tasks -> Job] /\ pc' \in [Tasks -> Points]
      /\ OthersKept(t)
      /\ \/ pc'[t] = "ghosts" /\ loop' = t
         \/ pc'[t] = "classifying" /\ loop' = Free
      /\ job'[t].results = j.results
  BY <1>1, <1>2, <1>3, SendBatchFacts
<1>5. Accepted(job'[t].results) = {}
  BY <1>1, <1>4
<1>6. LoopOwner' /\ ResultsStored' /\ loop' \in Tasks \cup {Free}
  BY <1>2, <1>3, <1>4, <1>5, TaskStep
<1>7. TimelineFollowsVerdict'
  BY <1>2, TimelineStep DEF mailVars
<1>8. StatusTellsRun'
  BY <1>2, <1>3, <1>4, Disjoint DEF ProcessingInv, StatusTellsRun, OthersKept
<1>9. Index!TypeOK' /\ LockInv'
  BY <1>2, <1>3, IndexTypeKept
     DEF ProcessingInv, TypeOK, LockInv, mailVars, indexVars
<1>10. TypeOK'
  BY <1>2, <1>4, <1>6, <1>9 DEF ProcessingInv, TypeOK, mailVars
<1> QED BY <1>6, <1>7, <1>8, <1>9, <1>10 DEF ProcessingInv

LEMMA StartLockedKeeps ==
  ASSUME ProcessingInv, NEW t \in Runners, NEW limit \in 1 .. MaxCandidates,
         StartLocked(t, limit)
  PROVE  ProcessingInv'
<1>1. Index!TypeOK'
  BY IndexTypeKept DEF StartLocked, ProcessingInv, TypeOK, indexVars, mailVars
<1>2. TypeOK'
  BY <1>1 DEF StartLocked, ProcessingInv, TypeOK, mailVars
<1>3. StatusTellsRun'
  BY DEF StartLocked, ProcessingInv, StatusTellsRun
<1> QED BY <1>2, <1>3 DEF StartLocked, ProcessingInv, LockInv, LoopOwner, ResultsStored,
             Accepted, TimelineFollowsVerdict, indexVars, mailVars

LEMMA StartBatchKeeps ==
  ASSUME ProcessingInv, NEW t \in Classifiers, StartBatch(t)
  PROVE  ProcessingInv'
<1> DEFINE batch == Batch(Candidates, BatchSize)
           j == [NoJob EXCEPT !.batch = batch, !.target = target]
<1>1. batch \in SUBSET Mail
  BY DEF Batch, Candidates, ProcessingInv, TypeOK
<1>2. j \in Job /\ Accepted(j.results) = {}
  <2> HIDE DEF batch
  <2>1. target \in 0 .. MaxTarget
    BY ProcessingConstants DEF ProcessingInv, TypeOK
  <2> QED BY <1>1, <2>1, NoJobType DEF Job
<1>3. /\ pc[t] = "idle" /\ loop = Free /\ loop' = Free
      /\ pc' = [pc EXCEPT ![t] = "classifying"] /\ job' = [job EXCEPT ![t] = j]
      /\ UNCHANGED <<mailVars, indexVars, runVars, target, faults>>
  BY DEF StartBatch
<1> HIDE DEF j
<1>4. TypeOK /\ t \in Tasks /\ t \notin Runners
  BY Disjoint DEF ProcessingInv
<1>5. /\ job' \in [Tasks -> Job] /\ pc' \in [Tasks -> Points]
      /\ OthersKept(t)
      /\ pc'[t] = "classifying" /\ job'[t] = j
  BY <1>2, <1>3, <1>4 DEF TypeOK, OthersKept, Points
<1>6. LoopOwner' /\ ResultsStored' /\ loop' \in Tasks \cup {Free}
  BY <1>2, <1>3, <1>4, <1>5, TaskStep
<1>7. TimelineFollowsVerdict'
  BY <1>3, TimelineStep DEF mailVars
<1>8. /\ StatusTellsRun' /\ runLock' \in Runners \cup {Free}
      /\ status' \in {"idle", "running", "succeeded", "failed"}
  BY <1>3, <1>4, <1>5, RunningStatus
<1>9. Index!TypeOK' /\ LockInv'
  BY <1>3, <1>4, IndexTypeKept
     DEF ProcessingInv, TypeOK, LockInv, mailVars, indexVars
<1>10. TypeOK'
  BY <1>3, <1>5, <1>6, <1>8, <1>9 DEF ProcessingInv, TypeOK, mailVars
<1> QED BY <1>6, <1>7, <1>8, <1>9, <1>10 DEF ProcessingInv

\* The first of two commits opens the only gap between verdicts and timelines.
LEMMA StoreKeeps ==
  ASSUME ProcessingInv, NEW t \in Tasks, Store(t)
  PROVE  ProcessingInv'
<1> PICK accepted \in SUBSET job[t].batch :
           \E verdict \in [accepted -> BOOLEAN] : StoreBatch(t, accepted, verdict)
  BY DEF Store
<1> PICK verdict \in [accepted -> BOOLEAN] : StoreBatch(t, accepted, verdict)
  OBVIOUS
<1> DEFINE results == Answers(t, accepted, verdict)
           j == [job[t] EXCEPT !.results = results]
<1>1. /\ pc[t] = "classifying" /\ loop = Free /\ loop' = t
      /\ classified' = Updated(classified, results)
      /\ job' = [job EXCEPT ![t].results = results]
      /\ pc' = [pc EXCEPT ![t] = "aggregating"]
      /\ UNCHANGED <<retained, aggregated, indexVars, runVars, target, faults>>
  BY DEF StoreBatch
<1>2. TypeOK /\ t \in Tasks /\ job[t] \in Job
  BY DEF ProcessingInv, TypeOK
<1>3. results \in [Mail -> Verdicts]
  <2>1. ASSUME NEW e \in Mail PROVE results[e] \in Verdicts
    BY <1>2, ProcessingConstants DEF Verdicts, NoVerdict, Answers, Job
  <2> QED BY <2>1 DEF Answers
<1> HIDE DEF results
<1>4. j \in Job /\ j.results = results /\ job' = [job EXCEPT ![t] = j]
  BY <1>1, <1>2, <1>3 DEF Job, TypeOK
<1> HIDE DEF j
<1>5. /\ job' \in [Tasks -> Job] /\ pc' \in [Tasks -> Points]
      /\ OthersKept(t)
      /\ pc'[t] = "aggregating" /\ job'[t] = j
  BY <1>1, <1>2, <1>4 DEF TypeOK, OthersKept, Points
<1>6. classified' \in [Mail -> Verdicts]
  BY <1>1, <1>2, <1>3, UpdatedType DEF TypeOK
<1>7. \A e \in Accepted(job'[t].results) : classified'[e] = job'[t].results[e]
  BY <1>1, <1>4, <1>5 DEF Updated, Accepted
<1>8. LoopOwner' /\ ResultsStored' /\ loop' \in Tasks \cup {Free}
  BY <1>1, <1>2, <1>5, <1>7, TaskStep
<1>9. TimelineFollowsVerdict'
  <2>1. faults = 0 => \A e \in Mail : classified[e] = aggregated[e]
    BY <1>1 DEF ProcessingInv, TimelineFollowsVerdict
  <2>2. ASSUME faults' = 0, NEW e \in Mail
        PROVE  classified'[e] = aggregated'[e] \/ e \in Accepted(job'[t].results)
    BY <1>1, <1>4, <1>5, <2>1, <2>2 DEF Updated
  <2> QED BY <1>1, <2>2, Disjoint DEF TimelineFollowsVerdict, Accepted
<1>10. /\ StatusTellsRun' /\ runLock' \in Runners \cup {Free}
       /\ status' \in {"idle", "running", "succeeded", "failed"}
  BY <1>1, <1>5, RunningStatus
<1>11. Index!TypeOK' /\ LockInv'
  BY <1>1, <1>2, IndexTypeKept DEF ProcessingInv, TypeOK, LockInv, indexVars
<1>12. TypeOK'
  BY <1>1, <1>5, <1>6, <1>8, <1>10, <1>11 DEF ProcessingInv, TypeOK
<1> QED BY <1>8, <1>9, <1>10, <1>11, <1>12 DEF ProcessingInv

\* The second commit closes it; what follows neither opens another nor ends the
\* run of somebody else.
LEMMA AggregateKeeps ==
  ASSUME ProcessingInv, NEW t \in Tasks, Aggregate(t)
  PROVE  ProcessingInv'
<1>1. /\ pc[t] = "aggregating" /\ loop = t
      /\ aggregated' = Updated(aggregated, job[t].results)
      /\ UNCHANGED <<retained, classified, indexVars, target, faults>>
      /\ \/ NextBatch(t) /\ UNCHANGED runVars
         \/ Leave(t, "succeeded")
  BY DEF Aggregate
<1>2. TypeOK /\ job[t] \in Job /\ job[t].results \in [Mail -> Verdicts]
  BY DEF ProcessingInv, TypeOK, Job
<1>3. aggregated' \in [Mail -> Verdicts]
  BY <1>1, <1>2, UpdatedType DEF TypeOK
<1>4. faults = 0 => \A e \in Mail : classified[e] = aggregated'[e]
  BY <1>1 DEF ProcessingInv, TimelineFollowsVerdict, ResultsStored, Updated, Accepted
<1>5. /\ job' \in [Tasks -> Job] /\ pc' \in [Tasks -> Points]
      /\ OthersKept(t)
      /\ Accepted(job'[t].results) = {}
      /\ \/ pc'[t] \in {"aggregating", "ghosts"} /\ loop' = t
         \/ pc'[t] \notin {"aggregating", "ghosts"} /\ loop' = Free
      /\ StatusTellsRun' /\ runLock' \in Runners \cup {Free}
      /\ status' \in {"idle", "running", "succeeded", "failed"}
  <2>1. CASE NextBatch(t) /\ UNCHANGED runVars
    <3> DEFINE j == AfterBatch(job[t])
               done == [j EXCEPT !.batch = {}]
    <3>1. NoResults \in [Mail -> Verdicts] /\ Accepted(NoResults) = {}
      BY NoJobType DEF NoJob, Job
    <3>2. j \in Job /\ Accepted(j.results) = {}
      BY <1>2, <3>1 DEF Job, AfterBatch
    <3>3. \/ /\ job' = [job EXCEPT ![t] = done]
             /\ pc' = [pc EXCEPT ![t] = "ghosts"] /\ loop' = t
          \/ SendBatch(t, j, Offered(j))
      BY <2>1 DEF NextBatch
    <3>4. done \in Job /\ done.results = j.results
      <4> HIDE DEF j
      <4> QED BY <3>2 DEF Job
    <3>5. Offered(j) \in SUBSET Mail
      BY <1>2 DEF TypeOK, Candidates, Offered
    <3> HIDE DEF j, done
    <3>6. CASE SendBatch(t, j, Offered(j))
      <4>1. /\ job' \in [Tasks -> Job] /\ pc' \in [Tasks -> Points]
            /\ OthersKept(t)
            /\ \/ pc'[t] = "ghosts" /\ loop' = t
               \/ pc'[t] = "classifying" /\ loop' = Free
            /\ job'[t].results = j.results
        BY <1>2, <3>2, <3>5, <3>6, SendBatchFacts
      <4> QED BY <1>1, <2>1, <3>2, <4>1, RunningStatus
    <3>7. CASE /\ job' = [job EXCEPT ![t] = done]
               /\ pc' = [pc EXCEPT ![t] = "ghosts"] /\ loop' = t
      <4>1. /\ job' \in [Tasks -> Job] /\ pc' \in [Tasks -> Points]
            /\ OthersKept(t) /\ pc'[t] = "ghosts" /\ loop' = t
            /\ job'[t].results = j.results
        BY <1>2, <3>4, <3>7 DEF TypeOK, OthersKept, Points
      <4> QED BY <1>1, <2>1, <3>2, <4>1, RunningStatus
    <3> QED BY <3>3, <3>6, <3>7
  <2>2. CASE Leave(t, "succeeded")
    <3>1. /\ job' \in [Tasks -> Job] /\ pc' \in [Tasks -> Points]
          /\ OthersKept(t) /\ pc'[t] = "idle" /\ job'[t] = NoJob
          /\ loop' = IF loop = t THEN Free ELSE loop
      BY <1>2, <2>2, LeaveFacts
    <3>2. /\ StatusTellsRun' /\ runLock' \in Runners \cup {Free}
          /\ status' \in {"idle", "running", "succeeded", "failed"}
      BY <1>1, <2>2, LeaveStatus
    <3> QED BY <1>1, <3>1, <3>2, NoJobType
  <2> QED BY <1>1, <2>1, <2>2
<1>6. LoopOwner' /\ ResultsStored' /\ loop' \in Tasks \cup {Free}
  BY <1>1, <1>5, TaskStep
<1>7. TimelineFollowsVerdict'
  BY <1>1, <1>4 DEF TimelineFollowsVerdict
<1>8. Index!TypeOK' /\ LockInv'
  BY <1>1, <1>2, IndexTypeKept DEF ProcessingInv, TypeOK, LockInv, indexVars
<1>9. TypeOK'
  BY <1>1, <1>2, <1>3, <1>5, <1>6, <1>8 DEF TypeOK
<1> QED BY <1>5, <1>6, <1>7, <1>8, <1>9 DEF ProcessingInv

LEMMA InferGhostsKeeps ==
  ASSUME ProcessingInv, NEW t \in Tasks, InferGhosts(t)
  PROVE  ProcessingInv'
<1>1. /\ pc[t] = "ghosts" /\ loop = t
      /\ \/ /\ pc' = [pc EXCEPT ![t] = "indexing"] /\ loop' = Free
            /\ UNCHANGED <<job, runVars>>
         \/ Leave(t, "succeeded")
      /\ UNCHANGED <<mailVars, indexVars, target, faults>>
  BY DEF InferGhosts
<1>2. TypeOK /\ Accepted(job[t].results) = {}
  BY <1>1 DEF ProcessingInv, ResultsStored
<1>3. /\ job' \in [Tasks -> Job] /\ pc' \in [Tasks -> Points]
      /\ OthersKept(t)
      /\ Accepted(job'[t].results) = {}
      /\ pc'[t] \notin {"aggregating", "ghosts"} /\ loop' = Free
      /\ StatusTellsRun' /\ runLock' \in Runners \cup {Free}
      /\ status' \in {"idle", "running", "succeeded", "failed"}
  <2>1. CASE /\ pc' = [pc EXCEPT ![t] = "indexing"] /\ loop' = Free
             /\ UNCHANGED <<job, runVars>>
    <3>1. /\ job' \in [Tasks -> Job] /\ pc' \in [Tasks -> Points]
          /\ OthersKept(t) /\ pc'[t] = "indexing"
      BY <1>2, <2>1 DEF TypeOK, OthersKept, Points
    <3> QED BY <1>1, <1>2, <2>1, <3>1, RunningStatus
  <2>2. CASE Leave(t, "succeeded")
    <3>1. /\ job' \in [Tasks -> Job] /\ pc' \in [Tasks -> Points]
          /\ OthersKept(t) /\ pc'[t] = "idle" /\ job'[t] = NoJob
          /\ loop' = IF loop = t THEN Free ELSE loop
      BY <1>2, <2>2, LeaveFacts
    <3>2. /\ StatusTellsRun' /\ runLock' \in Runners \cup {Free}
          /\ status' \in {"idle", "running", "succeeded", "failed"}
      BY <1>1, <2>2, LeaveStatus
    <3> QED BY <1>1, <3>1, <3>2, NoJobType
  <2> QED BY <1>1, <2>1, <2>2
<1>4. LoopOwner' /\ ResultsStored' /\ loop' \in Tasks \cup {Free}
  BY <1>1, <1>3, TaskStep
<1>5. TimelineFollowsVerdict'
  BY <1>1, TimelineStep DEF mailVars
<1>6. Index!TypeOK' /\ LockInv'
  BY <1>1, <1>2, IndexTypeKept DEF ProcessingInv, TypeOK, LockInv, indexVars, mailVars
<1>7. TypeOK'
  BY <1>1, <1>2, <1>3, <1>4, <1>6 DEF TypeOK, mailVars
<1> QED BY <1>3, <1>4, <1>5, <1>6, <1>7 DEF ProcessingInv

LEMMA AskKeeps ==
  ASSUME ProcessingInv, NEW t \in Chats, Ask(t)
  PROVE  ProcessingInv'
<1>1. /\ pc[t] = "idle" /\ loop = Free /\ loop' = Free
      /\ pc' = [pc EXCEPT ![t] = "indexing"] /\ job' = job
      /\ UNCHANGED <<mailVars, indexVars, runVars, target, faults>>
  BY DEF Ask
<1>2. TypeOK /\ t \in Tasks /\ t \notin Runners
  BY Disjoint DEF ProcessingInv
<1>3. /\ job' \in [Tasks -> Job] /\ pc' \in [Tasks -> Points]
      /\ OthersKept(t) /\ pc'[t] = "indexing"
  BY <1>1, <1>2 DEF TypeOK, OthersKept, Points
<1>4. Accepted(job'[t].results) = {}
  BY <1>1, <1>2 DEF ProcessingInv, ResultsStored
<1>5. LoopOwner' /\ ResultsStored' /\ loop' \in Tasks \cup {Free}
  BY <1>1, <1>2, <1>3, <1>4, TaskStep
<1>6. TimelineFollowsVerdict'
  BY <1>1, TimelineStep DEF mailVars
<1>7. /\ StatusTellsRun' /\ runLock' \in Runners \cup {Free}
      /\ status' \in {"idle", "running", "succeeded", "failed"}
  BY <1>1, <1>2, <1>3, RunningStatus
<1>8. Index!TypeOK' /\ LockInv'
  BY <1>1, <1>2, IndexTypeKept DEF ProcessingInv, TypeOK, LockInv, indexVars, mailVars
<1>9. TypeOK'
  BY <1>1, <1>2, <1>3, <1>5, <1>7, <1>8 DEF TypeOK, mailVars
<1> QED BY <1>5, <1>6, <1>7, <1>8, <1>9 DEF ProcessingInv

LEMMA ReconcileKeeps ==
  ASSUME ProcessingInv, NEW t \in Tasks, Reconcile(t)
  PROVE  ProcessingInv'
<1>1. /\ index' \in SUBSET Mail /\ work' \in Index!Work
      /\ lock' \in {t, Free}
      /\ lock' = Free => work' = Index!Idle
      /\ UNCHANGED <<mailVars, target, faults>>
      /\ pc[t] = "indexing" /\ loop = Free
      /\ Leave(t, "succeeded") \/ UNCHANGED <<runVars, loop, pc, job>>
      /\ t \in Runners \cup Chats
  BY ReconcileTypes DEF ProcessingInv
<1>2. TypeOK /\ Accepted(job[t].results) = {}
  BY <1>1 DEF ProcessingInv, ResultsStored
<1>3. /\ job' \in [Tasks -> Job] /\ pc' \in [Tasks -> Points]
      /\ OthersKept(t)
      /\ Accepted(job'[t].results) = {}
      /\ pc'[t] \notin {"aggregating", "ghosts"} /\ loop' = Free
      /\ StatusTellsRun' /\ runLock' \in Runners \cup {Free}
      /\ status' \in {"idle", "running", "succeeded", "failed"}
  <2>1. CASE UNCHANGED <<runVars, loop, pc, job>>
    BY <1>1, <1>2, <2>1, RunningStatus DEF TypeOK, OthersKept, Points
  <2>2. CASE Leave(t, "succeeded")
    <3>1. /\ job' \in [Tasks -> Job] /\ pc' \in [Tasks -> Points]
          /\ OthersKept(t) /\ pc'[t] = "idle" /\ job'[t] = NoJob
          /\ loop' = IF loop = t THEN Free ELSE loop
      BY <1>2, <2>2, LeaveFacts
    <3>2. /\ StatusTellsRun' /\ runLock' \in Runners \cup {Free}
          /\ status' \in {"idle", "running", "succeeded", "failed"}
      BY <1>1, <2>2, LeaveStatus
    <3> QED BY <1>1, <3>1, <3>2, NoJobType
  <2> QED BY <1>1, <2>1, <2>2
<1>4. LoopOwner' /\ ResultsStored' /\ loop' \in Tasks \cup {Free}
  BY <1>1, <1>3, TaskStep
<1>5. TimelineFollowsVerdict'
  BY <1>1, TimelineStep DEF mailVars
<1>6. Index!TypeOK'
  <2>1. Eligible' \in SUBSET Mail
    BY <1>1, <1>2 DEF TypeOK, Eligible, mailVars
  <2> QED BY <1>1, <2>1 DEF Index!TypeOK, Index!Work
<1>7. TypeOK' /\ LockInv'
  BY <1>1, <1>2, <1>3, <1>4, <1>6 DEF TypeOK, mailVars, LockInv
<1> QED BY <1>3, <1>4, <1>5, <1>7 DEF ProcessingInv

\* An exception, whether the database is locked or anything else fails.
LEMMA RaiseKeeps ==
  ASSUME ProcessingInv, NEW t \in Tasks, pc[t] # "idle", loop \in {Free, t},
         NEW outcome \in {"idle", "running", "succeeded", "failed"}, Raise(t, outcome),
         faults' \in 0 .. MaxFaults,
         \/ faults' = faults /\ outcome # "running"
         \/ faults' # 0
  PROVE  TypeOK' /\ LockInv' /\ LoopOwner' /\ ResultsStored' /\ StatusTellsRun'
<1>1. /\ Leave(t, outcome)
      /\ \/ lock = t /\ lock' = Free /\ work' = Index!Idle
         \/ UNCHANGED <<lock, work>>
      /\ UNCHANGED <<mailVars, index, target>>
  BY DEF Raise
<1>2. TypeOK
  BY DEF ProcessingInv
<1>3. /\ job' \in [Tasks -> Job] /\ pc' \in [Tasks -> Points]
      /\ OthersKept(t) /\ pc'[t] = "idle" /\ job'[t] = NoJob
      /\ loop' = Free
  BY <1>1, <1>2, LeaveFacts
<1>4. /\ StatusTellsRun' /\ runLock' \in Runners \cup {Free}
      /\ status' \in {"idle", "running", "succeeded", "failed"}
  BY <1>1, LeaveStatus
<1>5. LoopOwner' /\ ResultsStored' /\ loop' \in Tasks \cup {Free}
  BY <1>3, NoJobType, TaskStep
<1>6. Index!TypeOK' /\ LockInv'
  BY <1>1, <1>2, IndexTypeKept DEF ProcessingInv, TypeOK, LockInv, mailVars
<1>7. TypeOK'
  BY <1>1, <1>2, <1>3, <1>4, <1>5, <1>6 DEF TypeOK, mailVars
<1> QED BY <1>4, <1>5, <1>6, <1>7

LEMMA LockedKeeps ==
  ASSUME ProcessingInv, NEW t \in Tasks, Locked(t)
  PROVE  ProcessingInv'
<1>1. /\ Raise(t, "failed") /\ pc[t] # "idle" /\ loop = Free
      /\ UNCHANGED <<classified, aggregated, faults>>
      /\ faults' \in 0 .. MaxFaults
  BY DEF Locked, Raise, mailVars, ProcessingInv, TypeOK
<1>2. TimelineFollowsVerdict'
  BY <1>1, TimelineStep
<1> QED BY <1>1, <1>2, RaiseKeeps DEF ProcessingInv

LEMMA FailKeeps ==
  ASSUME ProcessingInv, NEW t \in Tasks, Fail(t)
  PROVE  ProcessingInv'
<1> PICK outcome \in {"failed", status} : Raise(t, outcome)
  BY DEF Fail
<1>1. /\ outcome \in {"idle", "running", "succeeded", "failed"}
      /\ pc[t] # "idle" /\ loop \in {Free, t}
      /\ faults' \in 0 .. MaxFaults /\ faults' # 0
  BY ProcessingConstants DEF Fail, ProcessingInv, TypeOK
<1>2. TimelineFollowsVerdict'
  BY <1>1 DEF TimelineFollowsVerdict
<1> QED BY <1>1, <1>2, RaiseKeeps DEF ProcessingInv

\* A new process starts with nobody at work.
LEMMA CrashKeeps ==
  ASSUME ProcessingInv, Crash
  PROVE  ProcessingInv'
<1>1. /\ lock' = Free /\ work' = Index!Idle
      /\ runLock' = Free /\ status' = "idle" /\ loop' = Free
      /\ pc' = [t \in Tasks |-> "idle"] /\ job' = [t \in Tasks |-> NoJob]
      /\ UNCHANGED <<mailVars, index, target>>
      /\ faults' \in 0 .. MaxFaults /\ faults' # 0
      /\ TypeOK
  BY ProcessingConstants DEF Crash, ProcessingInv, TypeOK
<1>2. Index!TypeOK'
  BY <1>1, IndexTypeKept DEF TypeOK, mailVars
<1>3. TypeOK'
  BY <1>1, <1>2, NoJobType DEF TypeOK, mailVars, Points
<1>4. LockInv' /\ LoopOwner' /\ StatusTellsRun' /\ TimelineFollowsVerdict'
  BY <1>1, Disjoint DEF LockInv, LoopOwner, StatusTellsRun, TimelineFollowsVerdict
<1>5. ResultsStored'
  BY <1>1, NoJobType DEF ResultsStored, Accepted
<1> QED BY <1>3, <1>4, <1>5 DEF ProcessingInv

LEMMA ReconfigureKeeps ==
  ASSUME ProcessingInv, Reconfigure
  PROVE  ProcessingInv'
<1>1. /\ target' \in 1 .. MaxTarget
      /\ UNCHANGED <<mailVars, indexVars, runVars, loop, pc, job, faults>>
      /\ TypeOK
  BY DEF Reconfigure, ProcessingInv
<1>2. Index!TypeOK'
  BY <1>1, IndexTypeKept DEF TypeOK, mailVars, indexVars
<1>3. TypeOK'
  BY <1>1, <1>2 DEF TypeOK, mailVars, runVars
<1> QED BY <1>1, <1>3 DEF mailVars, indexVars, runVars, ProcessingInv, LockInv,
             LoopOwner, ResultsStored, Accepted, TimelineFollowsVerdict, StatusTellsRun

-----------------------------------------------------------------------------
(* Every reachable state has the types of the model; what was stored is in *)
(* the timelines unless somebody failed or is between the two commits; and *)
(* a status that says running means a run.                                 *)
THEOREM ProcessingInvariant == Spec => []ProcessingInv
<1>1. Init => ProcessingInv
  <2> SUFFICES ASSUME Init PROVE ProcessingInv
    OBVIOUS
  <2>1. NoVerdict \in Verdicts
    BY ProcessingConstants DEF NoVerdict, Verdicts
  <2>2. Index!TypeOK
    BY DEF Init, Index!TypeOK, Index!Idle, Index!Work, Eligible
  <2>3. TypeOK
    BY <2>1, <2>2, NoJobType, ProcessingConstants DEF Init, TypeOK, Points
  <2>4. LockInv /\ LoopOwner /\ StatusTellsRun /\ TimelineFollowsVerdict
    BY Disjoint DEF Init, LockInv, LoopOwner, StatusTellsRun, TimelineFollowsVerdict
  <2>5. ResultsStored
    BY NoJobType DEF Init, ResultsStored
  <2> QED BY <2>3, <2>4, <2>5 DEF ProcessingInv
<1>2. ProcessingInv /\ [Next]_vars => ProcessingInv'
  <2> SUFFICES ASSUME ProcessingInv, [Next]_vars PROVE ProcessingInv'
    OBVIOUS
  <2>1. CASE \E e \in Mail : Retain(e)
    BY <2>1, RetainKeeps
  <2>2. CASE \E t \in Runners, limit \in 1 .. MaxCandidates : StartRun(t, limit)
    BY <2>2, StartRunKeeps
  <2>3. CASE \E t \in Runners, limit \in 1 .. MaxCandidates : StartLocked(t, limit)
    BY <2>3, StartLockedKeeps
  <2>4. CASE \E t \in Classifiers : StartBatch(t)
    BY <2>4, StartBatchKeeps
  <2>5. CASE \E t \in Chats : Ask(t)
    BY <2>5, AskKeeps
  <2>6. ASSUME NEW t \in Tasks, Step(t) \/ Fail(t) PROVE ProcessingInv'
    BY <2>6, StoreKeeps, AggregateKeeps, InferGhostsKeeps, ReconcileKeeps, LockedKeeps,
       FailKeeps DEF Step
  <2>7. CASE Crash \/ Reconfigure
    BY <2>7, CrashKeeps, ReconfigureKeeps
  <2>8. CASE UNCHANGED vars
    <3>1. Index!TypeOK'
      BY <2>8, IndexTypeKept DEF vars, mailVars, indexVars, ProcessingInv, TypeOK
    <3>2. TypeOK'
      BY <2>8, <3>1 DEF vars, mailVars, runVars, ProcessingInv, TypeOK
    <3> QED BY <2>8, <3>2 DEF vars, mailVars, indexVars, runVars, ProcessingInv, LockInv,
                 LoopOwner, ResultsStored, Accepted, TimelineFollowsVerdict, StatusTellsRun
  <2> QED BY <2>1, <2>2, <2>3, <2>4, <2>5, <2>6, <2>7, <2>8 DEF Next
<1> QED BY <1>1, <1>2, PTL DEF Spec

(* Type correctness. *)
THEOREM ProcessingTypeCorrect == Spec => []TypeOK
<1>1. ProcessingInv => TypeOK
  BY DEF ProcessingInv
<1> QED BY <1>1, ProcessingInvariant, PTL

(* Without exceptions and crashes, timelines follow the stored verdicts,     *)
(* however many runs and unlocked batches classify the same mail.            *)
THEOREM TimelinesFollowVerdicts == Spec => []TimelineFollowsVerdict
<1>1. ProcessingInv => TimelineFollowsVerdict
  BY DEF ProcessingInv
<1> QED BY <1>1, ProcessingInvariant, PTL

(* The processing status says running exactly while one task is in a run.    *)
THEOREM StatusIsHonest == Spec => []StatusTellsRun
<1>1. ProcessingInv => StatusTellsRun
  BY DEF ProcessingInv
<1> QED BY <1>1, ProcessingInvariant, PTL

-----------------------------------------------------------------------------
\* A step that leaves mail and reconciliation alone is a stutter of the index.
LEMMA IndexStutters ==
  ASSUME UNCHANGED <<retained, classified, indexVars>>
  PROVE  UNCHANGED Index!vars
BY DEF Index!vars, Eligible, indexVars

\* New mail and new verdicts change what may be searched, and are written only
\* while no reconciliation has written.
LEMMA WritesChangeEligible ==
  ASSUME CanWrite, retained' \in SUBSET Mail, UNCHANGED indexVars
  PROVE  Index!Next
<1>1. Eligible' \in SUBSET Mail
  BY DEF Eligible
<1>2. Index!ChangeEligible
  BY <1>1 DEF Index!ChangeEligible, CanWrite, indexVars
<1> QED BY <1>2 DEF Index!Next

LEMMA RaiseAbandons ==
  ASSUME NEW t \in Tasks, NEW outcome, Raise(t, outcome)
  PROVE  Index!Next \/ UNCHANGED Index!vars
<1>1. UNCHANGED <<Eligible, index>>
  BY DEF Raise, Eligible, mailVars
<1>2. CASE lock = t /\ lock' = Free /\ work' = Index!Idle
  BY <1>1, <1>2, Disjoint DEF Index!Next, Index!Abandon
<1>3. CASE UNCHANGED <<lock, work>>
  BY <1>1, <1>3 DEF Index!vars
<1> QED BY <1>2, <1>3 DEF Raise

LEMMA CrashAbandons ==
  ASSUME LockInv, Crash
  PROVE  Index!Next \/ UNCHANGED Index!vars
<1>1. UNCHANGED <<Eligible, index>> /\ lock' = Free /\ work' = Index!Idle
  BY DEF Crash, Eligible, mailVars
<1>2. CASE lock # Free
  BY <1>1, <1>2 DEF Index!Next, Index!Abandon
<1>3. CASE lock = Free
  BY <1>1, <1>3 DEF LockInv, Index!vars
<1> QED BY <1>2, <1>3

(* What processing and chat do to the index is what ChatIndex allows: in     *)
(* particular nobody commits a verdict or a body while a reconciliation has  *)
(* its write transaction open, so the theorems of ChatIndexProofs hold of it.*)
THEOREM IndexImplemented == Spec => IndexSpec
<1>1. Init => Index!Init
  BY DEF Init, Index!Init, Eligible
<1>2. ProcessingInv /\ [Next]_vars => [Index!Next]_(Index!vars)
  <2> SUFFICES ASSUME ProcessingInv, [Next]_vars
               PROVE  Index!Next \/ UNCHANGED Index!vars
    OBVIOUS
  <2>1. ASSUME NEW e \in Mail, Retain(e) PROVE Index!Next
    BY <2>1, WritesChangeEligible DEF Retain, ProcessingInv, TypeOK
  <2>2. ASSUME NEW t \in Runners, NEW limit \in 1 .. MaxCandidates, StartRun(t, limit)
        PROVE  UNCHANGED Index!vars
    BY <2>2, IndexStutters DEF StartRun, mailVars
  <2>3. ASSUME NEW t \in Runners, NEW limit \in 1 .. MaxCandidates, StartLocked(t, limit)
        PROVE  UNCHANGED Index!vars
    BY <2>3, IndexStutters DEF StartLocked, mailVars
  <2>4. ASSUME NEW t \in Classifiers, StartBatch(t) PROVE UNCHANGED Index!vars
    BY <2>4, IndexStutters DEF StartBatch, mailVars
  <2>5. ASSUME NEW t \in Chats, Ask(t) PROVE UNCHANGED Index!vars
    BY <2>5, IndexStutters DEF Ask, mailVars
  <2>6. ASSUME NEW t \in Tasks, Store(t) PROVE Index!Next
    BY <2>6, WritesChangeEligible DEF Store, StoreBatch, ProcessingInv, TypeOK
  <2>7. ASSUME NEW t \in Tasks, Aggregate(t) \/ InferGhosts(t) PROVE UNCHANGED Index!vars
    BY <2>7, IndexStutters DEF Aggregate, InferGhosts, mailVars
  <2>8. ASSUME NEW t \in Tasks, Reconcile(t) PROVE Index!Next
    BY <2>8 DEF Reconcile, Index!Next
  <2>9. ASSUME NEW t \in Tasks, Locked(t) \/ Fail(t)
        PROVE  Index!Next \/ UNCHANGED Index!vars
    BY <2>9, RaiseAbandons DEF Locked, Fail
  <2>10. ASSUME Crash \/ Reconfigure PROVE Index!Next \/ UNCHANGED Index!vars
    BY <2>10, CrashAbandons, IndexStutters DEF Reconfigure, ProcessingInv, mailVars
  <2>11. ASSUME UNCHANGED vars PROVE UNCHANGED Index!vars
    BY <2>11, IndexStutters DEF vars, mailVars
  <2> QED BY <2>1, <2>2, <2>3, <2>4, <2>5, <2>6, <2>7, <2>8, <2>9, <2>10, <2>11
          DEF Next, Step
<1> QED BY <1>1, <1>2, ProcessingInvariant, PTL DEF Spec, IndexSpec, Index!Spec

-----------------------------------------------------------------------------
\* How many pending messages come before e: distinct for distinct messages.
LEMMA DistinctPlaces ==
  ASSUME NEW pending \in SUBSET Mail, NEW e \in pending, NEW g \in pending, e < g
  PROVE  Cardinality({f \in pending : f < e}) # Cardinality({f \in pending : f < g})
<1> DEFINE below == {f \in pending : f < e}
           above == {f \in pending : f < g}
<1>1. \A m \in pending : m \in Nat
  BY ProcessingConstants
<1>2. IsFiniteSet(above)
  BY FS_Subset, ProcessingConstants
<1>3. e \in above /\ e \notin below /\ below \subseteq above
  BY <1>1
<1> HIDE DEF below, above
<1>4. below \in SUBSET above /\ below # above
  BY <1>3
<1>5. Cardinality(above) # Cardinality(below)
  BY <1>2, <1>4, FS_Subset
<1> QED BY <1>5 DEF below, above

\* No more messages are among the first n than n: each has a place of its own.
LEMMA BatchSizeBound ==
  ASSUME NEW pending \in SUBSET Mail, NEW n \in Nat
  PROVE  /\ IsFiniteSet(Batch(pending, n))
         /\ Cardinality(Batch(pending, n)) <= n
<1> DEFINE batch == Batch(pending, n)
           place == [e \in batch |-> Cardinality({f \in pending : f < e})]
<1>1. batch \in SUBSET pending /\ batch \in SUBSET Mail /\ IsFiniteSet(Mail)
  BY ProcessingConstants DEF Batch
<1>2. IsFiniteSet(batch) /\ Cardinality(batch) \in Nat
  BY <1>1, FS_Subset, FS_CardinalityType
<1>3. ASSUME NEW e \in batch PROVE place[e] \in Nat /\ place[e] < n
  <2>1. {f \in pending : f < e} \in SUBSET Mail
    OBVIOUS
  <2>2. IsFiniteSet({f \in pending : f < e})
    BY <2>1, <1>1, FS_Subset
  <2>3. Cardinality({f \in pending : f < e}) \in Nat
    BY <2>2, FS_CardinalityType
  <2>4. Cardinality({f \in pending : f < e}) < n
    BY DEF Batch
  <2> QED BY <2>3, <2>4
<1>4. ASSUME NEW e \in batch, NEW g \in batch, e # g PROVE place[e] # place[g]
  <2>1. e \in pending /\ g \in pending /\ e \in Nat /\ g \in Nat
    BY <1>1, ProcessingConstants
  <2>2. e < g \/ g < e
    BY <1>4, <2>1
  <2>3. Cardinality({f \in pending : f < e}) # Cardinality({f \in pending : f < g})
    BY <2>1, <2>2, DistinctPlaces
  <2> QED BY <2>3
<1>5. DOMAIN place = batch /\ place = [e \in batch |-> place[e]]
  OBVIOUS
<1> HIDE DEF place, batch
<1>6. ASSUME n = 0 PROVE Cardinality(batch) = 0
  <2>1. batch = {}
    BY <1>3, <1>6
  <2> QED BY <2>1, FS_EmptySet
<1>7. ASSUME n # 0 PROVE ~ (n < Cardinality(batch))
  <2>1. IsFiniteSet(0 .. (n - 1)) /\ Cardinality(0 .. (n - 1)) = n
    BY <1>7, FS_Interval
  <2>2. place \in [batch -> 0 .. (n - 1)]
    BY <1>3, <1>5, <1>7
  <2> QED BY <1>2, <1>4, <2>1, <2>2, FS_PigeonHole
<1>8. Cardinality(batch) <= n
  BY <1>2, <1>6, <1>7
<1> QED BY <1>2, <1>8 DEF batch

\* EachMailOncePerRun of one task.
Once(p, j) ==
  /\ p = "classifying" => j.batch # {} /\ j.batch \cap j.attempted = {}
  /\ Cardinality(j.attempted \cup j.batch) <= j.limit

LEMMA OnceNoJob == \A p \in Points : p # "classifying" => Once(p, NoJob)
<1>1. Cardinality({} \cup {}) = 0
  BY FS_EmptySet
<1> QED BY <1>1 DEF Once, NoJob

LEMMA OnceSent ==
  ASSUME TypeOK, NEW t \in Tasks, NEW j \in Job, Cardinality(j.attempted) <= j.limit,
         NEW pending \in SUBSET (Mail \ j.attempted), SendBatch(t, j, pending)
  PROVE  Once(pc'[t], job'[t])
<1> DEFINE n == Smaller(BatchSize, j.limit - Cardinality(j.attempted))
           batch == Batch(pending, n)
           filled == [j EXCEPT !.batch = batch, !.target = target]
<1>1. IsFiniteSet(j.attempted) /\ Cardinality(j.attempted) \in Nat /\ j.limit \in Nat
  BY FS_Subset, FS_CardinalityType, ProcessingConstants DEF Job
<1>2. n \in Nat /\ n <= j.limit - Cardinality(j.attempted)
  <2>1. BatchSize \in Nat
    BY ProcessingConstants
  <2>2. \A free \in Nat : Smaller(BatchSize, free) \in Nat /\ Smaller(BatchSize, free) <= free
    BY <2>1 DEF Smaller
  <2>3. j.limit - Cardinality(j.attempted) \in Nat
    BY <1>1
  <2> QED BY <2>2, <2>3
<1>3. batch \subseteq pending
  BY DEF Batch
<1>4. job'[t] = filled
  BY DEF SendBatch, TypeOK
<1>5. pc'[t] = "classifying" => batch # {}
  BY DEF SendBatch, TypeOK
<1> HIDE DEF n
<1>6. IsFiniteSet(batch) /\ Cardinality(batch) <= n /\ Cardinality(batch) \in Nat
  BY <1>2, BatchSizeBound, FS_CardinalityType
<1> HIDE DEF batch
<1>7. j.attempted \cap batch = {}
  BY <1>3
<1>8. Cardinality(j.attempted \cup batch) = Cardinality(j.attempted) + Cardinality(batch)
  <2>1. Cardinality(j.attempted \cap batch) = 0
    BY <1>7, FS_EmptySet
  <2>2. Cardinality(j.attempted \cup batch)
          = Cardinality(j.attempted) + Cardinality(batch) - Cardinality(j.attempted \cap batch)
    BY <1>1, <1>6, FS_Union
  <2> QED BY <1>1, <1>6, <2>1, <2>2
<1>9. /\ filled.attempted = j.attempted /\ filled.batch = batch
      /\ filled.limit = j.limit
  BY DEF Job
<1> HIDE DEF filled
<1> QED BY <1>1, <1>2, <1>4, <1>5, <1>6, <1>7, <1>8, <1>9 DEF Once

\* A step of one task concerns that task only.
LEMMA OnceStep ==
  ASSUME EachMailOncePerRun, NEW t \in Tasks, OthersKept(t),
         t \in Runners => Once(pc'[t], job'[t])
  PROVE  EachMailOncePerRun'
<1>1. \A s \in Runners : Once(pc[s], job[s])
  BY DEF EachMailOncePerRun, Once
<1>2. \A s \in Runners : Once(pc'[s], job'[s])
  BY <1>1, Disjoint DEF OthersKept
<1> QED BY <1>2 DEF EachMailOncePerRun, Once

LEMMA OnceAggregate ==
  ASSUME ProcessingInv, EachMailOncePerRun, NEW t \in Tasks, Aggregate(t)
  PROVE  EachMailOncePerRun'
<1>1. TypeOK /\ job[t] \in Job
  BY DEF ProcessingInv, TypeOK
<1>2. CASE t \in Runners /\ NextBatch(t)
  <2> DEFINE j == AfterBatch(job[t])
             done == [j EXCEPT !.batch = {}]
  <2>1. NoResults \in [Mail -> Verdicts]
    BY NoJobType DEF NoJob, Job
  <2>2. /\ j \in Job /\ j.limit = job[t].limit
        /\ j.attempted = job[t].attempted \cup job[t].batch
    BY <1>1, <2>1 DEF Job, AfterBatch
  <2>3. Cardinality(j.attempted) <= j.limit
    BY <1>2, <2>2 DEF EachMailOncePerRun
  <2>4. \/ job' = [job EXCEPT ![t] = done] /\ pc' = [pc EXCEPT ![t] = "ghosts"]
        \/ SendBatch(t, j, Offered(j))
    BY <1>2 DEF NextBatch
  <2>5. Offered(j) \in SUBSET (Mail \ j.attempted)
    BY <1>1 DEF TypeOK, Candidates, Offered
  <2>6. /\ done.attempted = j.attempted /\ done.batch = {} /\ done.limit = j.limit
    BY <2>2 DEF Job
  <2> HIDE DEF j, done
  <2>7. CASE SendBatch(t, j, Offered(j))
    <3>1. OthersKept(t)
      BY <1>1, <2>2, <2>5, <2>7, SendBatchFacts
    <3>2. Once(pc'[t], job'[t])
      BY <1>1, <2>2, <2>3, <2>5, <2>7, OnceSent
    <3> QED BY <3>1, <3>2, OnceStep
  <2>8. CASE job' = [job EXCEPT ![t] = done] /\ pc' = [pc EXCEPT ![t] = "ghosts"]
    <3>1. OthersKept(t) /\ pc'[t] = "ghosts" /\ job'[t] = done
      BY <1>1, <2>8 DEF OthersKept, TypeOK
    <3>2. j.attempted \cup {} = j.attempted
      OBVIOUS
    <3>3. Once(pc'[t], job'[t])
      BY <2>3, <2>6, <3>1, <3>2 DEF Once
    <3> QED BY <3>1, <3>3, OnceStep
  <2> QED BY <2>4, <2>7, <2>8
<1>3. CASE t \notin Runners /\ Leave(t, "succeeded")
  <2>1. OthersKept(t)
    BY <1>1, <1>3, LeaveFacts
  <2> QED BY <1>3, <2>1, OnceStep
<1> QED BY <1>2, <1>3 DEF Aggregate

LEMMA OnceLeave ==
  ASSUME TypeOK, EachMailOncePerRun, NEW t \in Tasks, NEW outcome, Leave(t, outcome)
  PROVE  EachMailOncePerRun'
<1>1. OthersKept(t) /\ pc'[t] = "idle" /\ job'[t] = NoJob
  BY LeaveFacts
<1>2. Once(pc'[t], job'[t])
  BY <1>1, OnceNoJob DEF Points
<1> QED BY <1>1, <1>2, OnceStep

(* For any batch size, limit and mail, a run sends no message twice and no   *)
(* more than its limit, whatever others store or retain meanwhile.           *)
THEOREM MailSentOnce == Spec => []EachMailOncePerRun
<1>1. Init => EachMailOncePerRun
  <2> SUFFICES ASSUME Init, NEW t \in Runners PROVE Once(pc[t], job[t])
    BY DEF EachMailOncePerRun, Once
  <2>1. pc[t] = "idle" /\ job[t] = NoJob
    BY Disjoint DEF Init
  <2> QED BY <2>1, OnceNoJob DEF Points
<1>2. ProcessingInv /\ EachMailOncePerRun /\ [Next]_vars => EachMailOncePerRun'
  <2> SUFFICES ASSUME ProcessingInv, EachMailOncePerRun, [Next]_vars
               PROVE  EachMailOncePerRun'
    OBVIOUS
  <2>1. TypeOK
    BY DEF ProcessingInv
  <2>2. ASSUME UNCHANGED <<pc, job>> PROVE EachMailOncePerRun'
    BY <2>2 DEF EachMailOncePerRun
  <2>3. ASSUME NEW t \in Runners, NEW limit \in 1 .. MaxCandidates, StartRun(t, limit)
        PROVE  EachMailOncePerRun'
    <3> DEFINE j == [NoJob EXCEPT !.limit = limit]
    <3>1. /\ j \in Job /\ j.attempted = {} /\ j.limit = limit
          /\ SendBatch(t, j, Candidates) /\ t \in Tasks
      <4>1. SendBatch(t, j, Candidates) /\ t \in Tasks
        BY <2>3, Disjoint DEF StartRun
      <4>2. j \in Job /\ j.limit = limit /\ j.attempted = NoJob.attempted
        BY NoJobType DEF Job
      <4>3. NoJob.attempted = {}
        BY DEF NoJob
      <4> QED BY <4>1, <4>2, <4>3
    <3> HIDE DEF j
    <3>2. Candidates \in SUBSET (Mail \ j.attempted) /\ Candidates \in SUBSET Mail
      BY <2>1, <3>1 DEF TypeOK, Candidates
    <3>3. Cardinality(j.attempted) <= j.limit
      BY <3>1, FS_EmptySet
    <3>4. OthersKept(t)
      BY <2>1, <3>1, <3>2, SendBatchFacts
    <3>5. Once(pc'[t], job'[t])
      BY <2>1, <3>1, <3>2, <3>3, OnceSent
    <3> QED BY <3>1, <3>4, <3>5, OnceStep
  <2>4. ASSUME NEW t \in Classifiers \cup Chats,
               StartBatch(t) \/ (Ask(t) /\ t \in Chats)
        PROVE  EachMailOncePerRun'
    <3>1. CASE StartBatch(t)
      <4> DEFINE j == [NoJob EXCEPT !.batch = Batch(Candidates, BatchSize),
                                    !.target = target]
      <4>1. job' = [job EXCEPT ![t] = j] /\ pc' = [pc EXCEPT ![t] = "classifying"]
        BY <3>1 DEF StartBatch
      <4> HIDE DEF j
      <4>2. OthersKept(t)
        BY <2>1, <4>1 DEF OthersKept, TypeOK
      <4> QED BY <4>2, Disjoint, OnceStep
    <3>2. CASE Ask(t)
      <4>1. OthersKept(t)
        BY <2>1, <3>2 DEF Ask, OthersKept, TypeOK
      <4> QED BY <4>1, Disjoint, OnceStep
    <3> QED BY <2>4, <3>1, <3>2
  <2>5. ASSUME NEW t \in Tasks, Store(t) PROVE EachMailOncePerRun'
    <3>1. PICK accepted \in SUBSET job[t].batch :
            \E verdict \in [accepted -> BOOLEAN] : StoreBatch(t, accepted, verdict)
      BY <2>5 DEF Store
    <3>2. PICK verdict \in [accepted -> BOOLEAN] : StoreBatch(t, accepted, verdict)
      BY <3>1
    <3>3. /\ OthersKept(t) /\ pc'[t] = "aggregating"
          /\ job'[t].attempted = job[t].attempted /\ job'[t].batch = job[t].batch
          /\ job'[t].limit = job[t].limit
      BY <2>1, <3>2 DEF StoreBatch, OthersKept, TypeOK, Job
    <3>4. t \in Runners => Once(pc'[t], job'[t])
      BY <3>3 DEF EachMailOncePerRun, Once
    <3> QED BY <3>3, <3>4, OnceStep
  <2>6. ASSUME NEW t \in Tasks, InferGhosts(t) PROVE EachMailOncePerRun'
    <3>1. CASE pc' = [pc EXCEPT ![t] = "indexing"] /\ job' = job
      <4>1. OthersKept(t) /\ pc'[t] = "indexing" /\ job'[t] = job[t]
        BY <2>1, <3>1 DEF OthersKept, TypeOK
      <4>2. t \in Runners => Once(pc'[t], job'[t])
        BY <4>1 DEF EachMailOncePerRun, Once
      <4> QED BY <4>1, <4>2, OnceStep
    <3>2. CASE Leave(t, "succeeded")
      BY <2>1, <3>2, OnceLeave
    <3> QED BY <2>6, <3>1, <3>2 DEF InferGhosts
  <2>7. ASSUME NEW t \in Tasks, Reconcile(t) PROVE EachMailOncePerRun'
    BY <2>1, <2>2, <2>7, OnceLeave DEF Reconcile
  <2>8. ASSUME NEW t \in Tasks, Locked(t) \/ Fail(t) PROVE EachMailOncePerRun'
    BY <2>1, <2>8, OnceLeave DEF Locked, Fail, Raise
  <2>9. ASSUME Crash PROVE EachMailOncePerRun'
    <3> SUFFICES ASSUME NEW t \in Runners PROVE Once(pc'[t], job'[t])
      BY DEF EachMailOncePerRun, Once
    <3>1. pc'[t] = "idle" /\ job'[t] = NoJob
      BY <2>9, Disjoint DEF Crash
    <3> QED BY <3>1, OnceNoJob DEF Points
  <2>10. ASSUME NEW e \in Mail, Retain(e) PROVE EachMailOncePerRun'
    BY <2>2, <2>10 DEF Retain
  <2>11. ASSUME NEW t \in Runners, NEW limit \in 1 .. MaxCandidates, StartLocked(t, limit)
         PROVE  EachMailOncePerRun'
    BY <2>2, <2>11 DEF StartLocked
  <2>12. ASSUME Reconfigure \/ UNCHANGED vars PROVE EachMailOncePerRun'
    BY <2>2, <2>12 DEF Reconfigure, vars
  <2> QED BY <2>3, <2>4, <2>5, OnceAggregate, <2>6, <2>7, <2>8, <2>9, <2>10, <2>11, <2>12
          DEF Next, Step
<1> QED BY <1>1, <1>2, ProcessingInvariant, PTL DEF Spec
=============================================================================
