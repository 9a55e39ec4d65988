------------------------- MODULE CandidateRetention -------------------------
(***************************************************************************)
(* What a sync run does with the messages of its pages: the broad candidate *)
(* filter (pipeline/filter.py, EmailCandidateQuery), the stored decisions,  *)
(* the retention of candidate bodies, the promotion of earlier messages     *)
(* whose thread turns out to be about a job, and the retry of bodies that   *)
(* an earlier run could not fetch (services/sync_service.py).               *)
(*                                                                          *)
(* Paging is EmailSync's: here a page is any set of messages, of a listing  *)
(* that goes on (ListPage) or of a windowed run that lists again what was   *)
(* listed before (Relist).  One run at a time: it holds the run lock.       *)
(***************************************************************************)
EXTENDS Integers, FiniteSets

CONSTANTS
    Messages,   \* the messages of the mailbox
    Threads,    \* the threads they belong to
    NoThread,   \* the thread id of a message that has none
    Kinds,      \* what a message can be, see Mail
    PageSize,   \* messages on a page
    ChunkSize,  \* capabilities.max_body_batch_size
    MaxFaults   \* bound: aborted runs and bodies that could not be fetched

(* direct: the sender domain or the subject signals a job mail.             *)
(* excluded: one of the labels spam, trash, chats.                          *)
(* available: the provider has a body it can serve.                         *)
Mail == [thread: Threads \cup {NoThread}, direct: BOOLEAN, excluded: BOOLEAN,
         available: BOOLEAN]

ASSUME MessagesAssumption ==
    NoThread \notin Threads /\ Kinds \subseteq Mail /\ IsFiniteSet(Messages)

ASSUME SizesAssumption ==
    PageSize \in Nat \ {0} /\ ChunkSize \in Nat \ {0} /\ MaxFaults \in Nat

VARIABLES
    mail,       \* what each message is
    raw,        \* raw_emails: no row, or its body_retention_state
    decision,   \* email_filter_decisions: outcome, with the reason of a rejection
    handled,    \* messages of the pages that were processed to the end
    pc,         \* where the run is
    page,       \* the messages of the current page
    refs,       \* messages whose bodies are still to be fetched
    bodies,     \* messages whose bodies were fetched and not yet stored
    faults      \* bound counter, not part of the program

tables == <<raw, decision>>
locals == <<pc, page, refs, bodies>>
vars == <<mail, tables, handled, locals, faults>>

Fetching == {"fetch_retry", "fetch_page", "fetch_promoted"}
Steps == {"idle", "retry", "list", "decide", "promote", "advance"} \cup Fetching

----------------------------------------------------------------------------
(* Mutated forms: a plausible mistake in the code that each property has to  *)
(* notice.  No specification uses them.                                      *)

(* adds up the signals before it looks at the labels *)
Evaluate_SignalsFirst(m, threads) ==
    IF mail[m].direct \/ mail[m].thread \in threads THEN "candidate"
    ELSE IF mail[m].excluded THEN "excluded" ELSE "no_signal"

(* forgets the bodies an earlier run could not fetch *)
PendingCandidates_Forgotten == {}

(* promotes within the current page only *)
PendingThreadCandidates_Page ==
    {m \in page : /\ raw[m] = "metadata_only" /\ decision[m] = "no_signal"
                  /\ \E n \in Messages : /\ decision[n] = "candidate"
                                         /\ mail[n].thread = mail[m].thread}

(* fetches the bodies of the whole page *)
Selected_All == page

(* selects the bodies and goes on without fetching them *)
FetchOr_Skips(wanted, fetch, next) ==
    /\ refs' = wanted
    /\ bodies' = {}
    /\ pc' = next

(* overwrites the retention state with the new row's *)
MetadataUpsert_Overwrites(state) == "metadata_only"

----------------------------------------------------------------------------
(* The filter *)

(* _evaluate_metadata: each signal scores the threshold by itself. *)
Evaluate(m, threads) ==
    IF mail[m].excluded THEN "excluded"
    ELSE IF mail[m].direct \/ mail[m].thread \in threads THEN "candidate"
    ELSE "no_signal"

(* list_candidate_thread_ids *)
CandidateThreads ==
    {mail[m].thread : m \in {n \in Messages : raw[n] # "absent" /\ decision[n] = "candidate"}}
        \ {NoThread}

(* The threads evaluate_metadata_batch knows for the current page *)
PageThreads ==
    CandidateThreads
        \cup ({mail[m].thread : m \in {n \in page : Evaluate(n, {}) = "candidate"}} \ {NoThread})

(* list_pending_candidate_body_refs *)
PendingCandidates ==
    {m \in Messages : raw[m] = "metadata_only" /\ decision[m] = "candidate"}

(* list_pending_thread_candidate_body_refs *)
PendingThreadCandidates ==
    {m \in Messages : /\ raw[m] = "metadata_only" /\ decision[m] = "no_signal"
                      /\ mail[m].thread \in CandidateThreads}

(* The page's messages whose bodies fetch_retained_bodies selects *)
Selected == {m \in page : Evaluate(m, PageThreads) = "candidate"}

(* upsert_metadata_only keeps a body that is retained. *)
MetadataUpsert(state) == IF state = "retained" THEN "retained" ELSE "metadata_only"

----------------------------------------------------------------------------
Init ==
    /\ mail \in [Messages -> Kinds]
    /\ raw = [m \in Messages |-> "absent"]
    /\ decision = [m \in Messages |-> "none"]
    /\ handled = {}
    /\ pc = "idle" /\ page = {} /\ refs = {} /\ bodies = {}
    /\ faults = 0

----------------------------------------------------------------------------
(* Fetching bodies: fetch_retained_bodies and the upsert after it *)

(* Fetch the bodies of "wanted", or skip to the next step. *)
FetchOr(wanted, fetch, next) ==
    /\ refs' = wanted
    /\ bodies' = {}
    /\ pc' = IF wanted = {} THEN next ELSE fetch

(* One provider call; a body that cannot be served is a failure of its own   *)
(* and not of the run, and so may be any other (a lost permission, bad data). *)
FetchChunk ==
    /\ pc \in Fetching /\ refs # {}
    /\ \E chunk \in SUBSET refs :
         /\ Cardinality(chunk) <= ChunkSize
         /\ Cardinality(chunk) = ChunkSize \/ chunk = refs
         /\ \E lost \in SUBSET {m \in chunk : mail[m].available} :
              /\ lost # {} => faults < MaxFaults
              /\ faults' = IF lost = {} THEN faults ELSE faults + 1
              /\ bodies' = bodies \cup ({m \in chunk : mail[m].available} \ lost)
         /\ refs' = refs \ chunk
    /\ UNCHANGED <<mail, tables, handled, pc, page>>

AfterFetch ==
    CASE pc = "fetch_retry" -> "list"
      [] pc = "fetch_page" -> "promote"
      [] pc = "fetch_promoted" -> "advance"

(* upsert_retained_bodies *)
StoreBodies ==
    /\ pc \in Fetching /\ refs = {}
    /\ raw' = [m \in Messages |-> IF m \in bodies THEN "retained" ELSE raw[m]]
    /\ bodies' = {}
    /\ pc' = AfterFetch
    /\ UNCHANGED <<mail, decision, handled, page, refs, faults>>

----------------------------------------------------------------------------
(* The run *)

StartRun ==
    /\ pc = "idle"
    /\ pc' = "retry"
    /\ UNCHANGED <<mail, tables, handled, page, refs, bodies, faults>>

RetryPending ==
    /\ pc = "retry"
    /\ FetchOr(PendingCandidates, "fetch_retry", "list")
    /\ UNCHANGED <<mail, tables, handled, page, faults>>

(* The provider answers with a page, and its metadata is stored. *)
ReceivePage(messages) ==
    /\ pc = "list"
    /\ page' = messages
    /\ raw' = [m \in Messages |-> IF m \in messages THEN MetadataUpsert(raw[m]) ELSE raw[m]]
    /\ pc' = "decide"
    /\ UNCHANGED <<mail, decision, handled, refs, bodies, faults>>

Pages(S) == {p \in SUBSET S : p # {} /\ Cardinality(p) <= PageSize}

ListPage == \E p \in Pages(Messages \ handled) : ReceivePage(p)

Relist == \E p \in Pages(Messages) : p \cap handled # {} /\ ReceivePage(p)

(* The listing ends with a page that has no messages. *)
LastPageEmpty ==
    /\ pc = "list"
    /\ pc' = "idle"
    /\ UNCHANGED <<mail, tables, handled, page, refs, bodies, faults>>

(* _persist_filter_decisions, and the selection of the bodies to fetch *)
DecidePage ==
    /\ pc = "decide"
    /\ decision' = [m \in Messages |->
                      IF m \in page THEN Evaluate(m, PageThreads) ELSE decision[m]]
    /\ FetchOr(Selected, "fetch_page", "promote")
    /\ UNCHANGED <<mail, raw, handled, page, faults>>

(* _promote_pending_candidate_thread_bodies *)
PromoteThreads ==
    /\ pc = "promote"
    /\ decision' = [m \in Messages |->
                      IF m \in PendingThreadCandidates THEN "candidate" ELSE decision[m]]
    /\ FetchOr(PendingThreadCandidates, "fetch_promoted", "advance")
    /\ UNCHANGED <<mail, raw, handled, page, faults>>

(* The page's progress is stored; the run goes on or ends. *)
Advance ==
    /\ pc = "advance"
    /\ handled' = handled \cup page
    /\ page' = {}
    /\ pc' \in {"list", "idle"}
    /\ UNCHANGED <<mail, tables, refs, bodies, faults>>

(* An exception ends the run, or the process stops: what is in memory is lost. *)
Abort ==
    /\ pc # "idle"
    /\ faults < MaxFaults
    /\ faults' = faults + 1
    /\ pc' = "idle" /\ page' = {} /\ refs' = {} /\ bodies' = {}
    /\ UNCHANGED <<mail, tables, handled>>

Next ==
    \/ StartRun \/ RetryPending \/ ListPage \/ Relist \/ LastPageEmpty \/ DecidePage
    \/ FetchChunk \/ StoreBodies \/ PromoteThreads \/ Advance \/ Abort

Spec == Init /\ [][Next]_vars

(* The interval job starts runs, a run that started goes on, no run lists    *)
(* for ever, and the runs that are not windowed continue the listing until   *)
(* it is drained.                                                            *)
Fairness ==
    /\ WF_vars(StartRun \/ RetryPending \/ DecidePage \/ FetchChunk \/ StoreBodies
               \/ PromoteThreads \/ Advance)
    /\ SF_vars(LastPageEmpty \/ (Advance /\ pc' = "idle"))
    /\ SF_vars(ListPage)

FairSpec == Spec /\ Fairness

----------------------------------------------------------------------------
(* Properties *)

(* The rows and the locals of a run; what is fetched is of rows that exist. *)
TypeOK ==
    /\ mail \in [Messages -> Kinds]
    /\ raw \in [Messages -> {"absent", "metadata_only", "retained"}]
    /\ decision \in [Messages -> {"none", "candidate", "no_signal", "excluded"}]
    /\ pc \in Steps
    /\ handled \subseteq Messages /\ page \subseteq Messages
    /\ refs \subseteq Messages /\ bodies \subseteq Messages
    /\ pc \notin Fetching => refs = {} /\ bodies = {}
    /\ faults \in 0 .. MaxFaults

(* What the filter makes of a mailbox, in whatever order it is listed *)
Founder(m) == mail[m].direct /\ ~mail[m].excluded

Founded(m, S) ==
    /\ ~mail[m].excluded
    /\ \/ mail[m].direct
       \/ mail[m].thread # NoThread /\ \E n \in S : Founder(n) /\ mail[n].thread = mail[m].thread

(* No message is a candidate without cause: it signals a job mail itself, or *)
(* its thread holds a stored candidate that does.  Thread membership never   *)
(* supports itself, and a spam or trash message neither is nor makes one.    *)
DecisionsJustified ==
    \A m \in Messages : decision[m] = "candidate" =>
        Founded(m, {n \in Messages : raw[n] # "absent" /\ decision[n] = "candidate"})

(* No message is overlooked: one that was handled is a candidate if anything *)
(* in its thread that was handled makes it one, also when a run was cut off  *)
(* half-way through the page that told so.                                   *)
DecisionsComplete ==
    \A m \in handled : Founded(m, handled) => decision[m] = "candidate"

(* The outcome for a whole mailbox does not depend on the order of its pages *)
(* or on where runs were cut off.                                            *)
OrderIndependent ==
    handled = Messages =>
        {m \in Messages : decision[m] = "candidate"} = {m \in Messages : Founded(m, Messages)}

(* A body is kept only of a message that is a candidate. *)
BodiesOnlyOfCandidates ==
    \A m \in Messages : raw[m] = "retained" => decision[m] = "candidate"

(* A later listing of the same message takes neither its body nor its        *)
(* candidacy away.                                                           *)
NothingRetracted ==
    [][\A m \in Messages :
         /\ raw[m] = "retained" => raw'[m] = "retained"
         /\ decision[m] = "candidate" => decision'[m] = "candidate"]_vars

(* Every candidate whose body can be served has it in the end, whichever     *)
(* run failed to fetch it.                                                   *)
EventuallyRetained ==
    <>[](\A m \in Messages : Founded(m, Messages) /\ mail[m].available => raw[m] = "retained")

----------------------------------------------------------------------------
(* The inductive invariant behind the safety properties *)

(* A decision is the filter's, of a message that is stored. *)
DecisionSound(m) ==
    /\ decision[m] # "none" => raw[m] # "absent"
    /\ decision[m] = "excluded" => mail[m].excluded
    /\ decision[m] = "no_signal" => ~mail[m].excluded /\ ~mail[m].direct

(* Promotion leaves nobody behind in a candidate thread. *)
ThreadsClosed ==
    \A m \in Messages : decision[m] = "no_signal" => mail[m].thread \notin CandidateThreads

RetentionInv ==
    /\ \A m \in Messages : DecisionSound(m)
    /\ pc = "decide" => \A m \in page : raw[m] # "absent"
    /\ pc \in {"fetch_page", "promote", "fetch_promoted", "advance"} =>
         \A m \in page : decision[m] # "none"
    /\ pc \in {"fetch_promoted", "advance"} => ThreadsClosed
    /\ \A m \in handled : decision[m] # "none"
    /\ \A m \in refs \cup bodies : decision[m] = "candidate"
    /\ DecisionsJustified
    /\ DecisionsComplete
    /\ BodiesOnlyOfCandidates
=============================================================================
