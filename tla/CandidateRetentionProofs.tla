---------------------- MODULE CandidateRetentionProofs ----------------------
(* The filter's decisions and the retained bodies of CandidateRetention, for *)
(* every mailbox, page size and number of faults.                            *)
EXTENDS CandidateRetention, FiniteSetTheorems, TLAPS

----------------------------------------------------------------------------
(* Types *)

LEMMA FaultCount ==
    ASSUME faults \in 0 .. MaxFaults, faults < MaxFaults
    PROVE  faults + 1 \in 0 .. MaxFaults
BY SizesAssumption

LEMMA FilterTypes ==
    ASSUME TypeOK
    PROVE  /\ \A m \in Messages : \A threads :
                Evaluate(m, threads) \in {"candidate", "no_signal", "excluded"}
           /\ PendingCandidates \subseteq Messages
           /\ PendingThreadCandidates \subseteq Messages
           /\ Selected \subseteq Messages
           /\ \A m \in Messages : MetadataUpsert(raw[m]) \in {"metadata_only", "retained"}
BY DEF TypeOK, Evaluate, PendingCandidates, PendingThreadCandidates, Selected, MetadataUpsert

LEMMA InitType == Init => TypeOK
BY SizesAssumption DEF Init, TypeOK, Steps, Fetching

LEMMA FetchOrType ==
    ASSUME NEW wanted \in SUBSET Messages, NEW fetch \in Fetching,
           NEW next \in Steps \ Fetching, FetchOr(wanted, fetch, next)
    PROVE  /\ refs' \subseteq Messages /\ bodies' \subseteq Messages /\ pc' \in Steps
           /\ pc' \notin Fetching => refs' = {} /\ bodies' = {}
BY DEF FetchOr, Steps

LEMMA NextType == TypeOK /\ [Next]_vars => TypeOK'
<1> SUFFICES ASSUME TypeOK, [Next]_vars PROVE TypeOK'
  OBVIOUS
<1>1. CASE StartRun \/ LastPageEmpty
  BY <1>1 DEF StartRun, LastPageEmpty, TypeOK, Steps, Fetching, tables
<1>2. CASE RetryPending
  <2>1. FetchOr(PendingCandidates, "fetch_retry", "list")
        /\ UNCHANGED <<mail, raw, decision, handled, page, faults>>
    BY <1>2 DEF RetryPending, tables
  <2>2. /\ refs' \subseteq Messages /\ bodies' \subseteq Messages /\ pc' \in Steps
        /\ pc' \notin Fetching => refs' = {} /\ bodies' = {}
    BY <2>1, FilterTypes, FetchOrType DEF Steps, Fetching
  <2>. QED  BY <2>1, <2>2 DEF TypeOK
<1>3. ASSUME NEW p \in SUBSET Messages, ReceivePage(p) PROVE TypeOK'
  BY <1>3, FilterTypes DEF ReceivePage, TypeOK, Steps, Fetching
<1>4. CASE DecidePage
  <2>1. FetchOr(Selected, "fetch_page", "promote")
        /\ UNCHANGED <<mail, raw, handled, page, faults>>
    BY <1>4 DEF DecidePage
  <2>2. /\ refs' \subseteq Messages /\ bodies' \subseteq Messages /\ pc' \in Steps
        /\ pc' \notin Fetching => refs' = {} /\ bodies' = {}
    BY <2>1, FilterTypes, FetchOrType DEF Steps, Fetching
  <2>3. decision' \in [Messages -> {"none", "candidate", "no_signal", "excluded"}]
    BY <1>4, FilterTypes DEF DecidePage, TypeOK
  <2>. QED  BY <2>1, <2>2, <2>3 DEF TypeOK
<1>5. CASE PromoteThreads
  <2>1. FetchOr(PendingThreadCandidates, "fetch_promoted", "advance")
        /\ UNCHANGED <<mail, raw, handled, page, faults>>
    BY <1>5 DEF PromoteThreads
  <2>2. /\ refs' \subseteq Messages /\ bodies' \subseteq Messages /\ pc' \in Steps
        /\ pc' \notin Fetching => refs' = {} /\ bodies' = {}
    BY <2>1, FilterTypes, FetchOrType DEF Steps, Fetching
  <2>3. decision' \in [Messages -> {"none", "candidate", "no_signal", "excluded"}]
    BY <1>5 DEF PromoteThreads, TypeOK
  <2>. QED  BY <2>1, <2>2, <2>3 DEF TypeOK
<1>6. CASE FetchChunk
  <2>1. /\ bodies' \subseteq Messages /\ refs' \subseteq Messages /\ pc' = pc /\ pc \in Fetching
        /\ faults' \in {faults, faults + 1} /\ (faults' # faults => faults < MaxFaults)
        /\ UNCHANGED <<mail, raw, decision, handled, page>>
    BY <1>6 DEF FetchChunk, TypeOK, tables
  <2>. QED  BY <2>1, FaultCount DEF TypeOK
<1>7. CASE StoreBodies
  <2>1. AfterFetch \in Steps \ Fetching
    BY <1>7 DEF StoreBodies, AfterFetch, Fetching, Steps
  <2>. QED  BY <1>7, <2>1 DEF StoreBodies, TypeOK
<1>8. CASE Advance
  BY <1>8 DEF Advance, TypeOK, Steps, Fetching, tables
<1>9. CASE Abort
  BY <1>9, FaultCount DEF Abort, TypeOK, Steps, Fetching, tables
<1>10. CASE UNCHANGED vars
  BY <1>10 DEF vars, TypeOK, tables, locals
<1>. QED  BY <1>1, <1>2, <1>3, <1>4, <1>5, <1>6, <1>7, <1>8, <1>9, <1>10
          DEF Next, ListPage, Relist, Pages

(* Rows, decisions and the locals of a run are well-typed in every reachable *)
(* state, and nothing waits to be fetched outside the fetching steps.        *)
THEOREM TypeCorrect == Spec => []TypeOK
BY InitType, NextType, PTL DEF Spec

----------------------------------------------------------------------------
(* The filter *)

(* The rows that can justify a candidate *)
LEMMA ThreadFounded ==
    ASSUME DecisionsJustified, NEW t \in CandidateThreads
    PROVE  /\ t # NoThread
           /\ \E n \in Messages : /\ Founder(n) /\ mail[n].thread = t
                                  /\ raw[n] # "absent" /\ decision[n] = "candidate"
<1>1. PICK n \in Messages : /\ raw[n] # "absent" /\ decision[n] = "candidate"
                            /\ mail[n].thread = t /\ t # NoThread
  BY DEF CandidateThreads
<1>2. Founded(n, {k \in Messages : raw[k] # "absent" /\ decision[k] = "candidate"})
  BY <1>1 DEF DecisionsJustified
<1>. QED  BY <1>1, <1>2 DEF Founded, Founder

(* A candidate that is listed again is a candidate again. *)
LEMMA CandidateAgain ==
    ASSUME RetentionInv, NEW m \in Messages, decision[m] = "candidate"
    PROVE  Evaluate(m, PageThreads) = "candidate"
<1>1. Founded(m, {n \in Messages : raw[n] # "absent" /\ decision[n] = "candidate"})
  BY DEF RetentionInv, DecisionsJustified
<1>2. CASE mail[m].direct
  BY <1>1, <1>2 DEF Founded, Evaluate
<1>3. CASE ~mail[m].direct
  <2>1. mail[m].thread \in CandidateThreads
    BY <1>1, <1>3 DEF Founded, CandidateThreads
  <2>. QED  BY <1>1, <2>1 DEF Founded, Evaluate, PageThreads
<1>. QED  BY <1>2, <1>3

(* What the filter makes a candidate is founded in rows that are stored. *)
LEMMA CandidateFounded ==
    ASSUME TypeOK, RetentionInv, pc = "decide", NEW m \in Messages,
           Evaluate(m, PageThreads) = "candidate"
    PROVE  /\ ~mail[m].excluded
           /\ \/ mail[m].direct
              \/ /\ mail[m].thread # NoThread
                 /\ \E n \in Messages : /\ Founder(n) /\ mail[n].thread = mail[m].thread
                                        /\ raw[n] # "absent"
                                        /\ n \in page \/ decision[n] = "candidate"
<1>1. ~mail[m].excluded /\ (mail[m].direct \/ mail[m].thread \in PageThreads)
  BY DEF Evaluate
<1>2. CASE mail[m].thread \in CandidateThreads
  BY <1>1, <1>2, ThreadFounded DEF RetentionInv
<1>3. CASE mail[m].thread \in PageThreads \ CandidateThreads
  <2>1. PICK n \in page : Evaluate(n, {}) = "candidate" /\ mail[n].thread = mail[m].thread
                          /\ mail[m].thread # NoThread
    BY <1>3 DEF PageThreads
  <2>2. Founder(n) /\ raw[n] # "absent"
    BY <2>1 DEF Evaluate, Founder, RetentionInv
  <2>. QED  BY <1>1, <2>1, <2>2 DEF TypeOK
<1>. QED  BY <1>1, <1>2, <1>3

(* What is founded in a set is founded in what contains it. *)
LEMMA FoundedMonotone ==
    ASSUME NEW m, NEW S, NEW T, S \subseteq T, Founded(m, S)
    PROVE  Founded(m, T)
BY DEF Founded

LEMMA InitRetention == Init => RetentionInv
BY DEF Init, RetentionInv, DecisionSound, DecisionsJustified, DecisionsComplete,
       BodiesOnlyOfCandidates

(* Steps that leave the decisions alone and store bodies of candidates only. *)
LEMMA DecisionsKept ==
    ASSUME TypeOK, RetentionInv, mail' = mail, decision' = decision, handled' = handled,
           \A m \in Messages : raw[m] # "absent" => raw'[m] # "absent",
           \A m \in Messages : raw'[m] = "retained" => decision[m] = "candidate"
    PROVE  /\ \A m \in Messages : DecisionSound(m)'
           /\ DecisionsJustified' /\ DecisionsComplete' /\ BodiesOnlyOfCandidates'
           /\ \A m \in handled' : decision'[m] # "none"
<1>1. \A m \in Messages : DecisionSound(m)'
  BY DEF RetentionInv, DecisionSound
<1>2. DecisionsJustified'
  BY DEF RetentionInv, DecisionsJustified, Founded, Founder
<1>3. DecisionsComplete'
  BY DEF RetentionInv, DecisionsComplete, Founded, Founder
<1>. QED  BY <1>1, <1>2, <1>3 DEF RetentionInv, BodiesOnlyOfCandidates

LEMMA ThreadsStayClosed ==
    ASSUME TypeOK, RetentionInv, ThreadsClosed, mail' = mail, decision' = decision,
           \A m \in Messages : raw[m] = "absent" <=> raw'[m] = "absent"
    PROVE  ThreadsClosed'
BY DEF ThreadsClosed, CandidateThreads

(* Steps that only move on in a run: nothing is decided and nothing stored. *)
LEMMA MoveRetention ==
    ASSUME TypeOK, RetentionInv, StartRun \/ LastPageEmpty \/ FetchChunk \/ Abort \/ UNCHANGED vars
    PROVE  RetentionInv'
<1>1. /\ mail' = mail /\ raw' = raw /\ decision' = decision /\ handled' = handled
      /\ refs' \cup bodies' \subseteq refs \cup bodies
  BY DEF StartRun, LastPageEmpty, FetchChunk, Abort, vars, tables, locals
<1>2. /\ pc' = pc /\ page' = page
      \/ pc' \in {"idle", "retry"}
  BY DEF StartRun, LastPageEmpty, FetchChunk, Abort, vars, tables, locals
<1>3. /\ \A m \in Messages : DecisionSound(m)'
      /\ DecisionsJustified' /\ DecisionsComplete' /\ BodiesOnlyOfCandidates'
      /\ \A m \in handled' : decision'[m] # "none"
  BY <1>1, DecisionsKept DEF RetentionInv, BodiesOnlyOfCandidates
<1>4. pc' \in {"fetch_promoted", "advance"} => ThreadsClosed'
  BY <1>1, <1>2, ThreadsStayClosed DEF RetentionInv
<1>5. \A m \in refs' \cup bodies' : decision'[m] = "candidate"
  BY <1>1 DEF RetentionInv
<1>6. /\ pc' = "decide" => \A m \in page' : raw'[m] # "absent"
      /\ pc' \in {"fetch_page", "promote", "fetch_promoted", "advance"} =>
           \A m \in page' : decision'[m] # "none"
  BY <1>1, <1>2 DEF RetentionInv
<1>. QED  BY <1>3, <1>4, <1>5, <1>6 DEF RetentionInv

LEMMA RetryRetention ==
    ASSUME TypeOK, RetentionInv, RetryPending
    PROVE  RetentionInv'
<1>1. /\ mail' = mail /\ raw' = raw /\ decision' = decision /\ handled' = handled
      /\ refs' = PendingCandidates /\ bodies' = {} /\ pc' \in {"fetch_retry", "list"}
  BY DEF RetryPending, FetchOr, tables
<1>2. /\ \A m \in Messages : DecisionSound(m)'
      /\ DecisionsJustified' /\ DecisionsComplete' /\ BodiesOnlyOfCandidates'
      /\ \A m \in handled' : decision'[m] # "none"
  BY <1>1, DecisionsKept DEF RetentionInv, BodiesOnlyOfCandidates
<1>3. \A m \in refs' \cup bodies' : decision'[m] = "candidate"
  BY <1>1 DEF PendingCandidates
<1>. QED  BY <1>1, <1>2, <1>3 DEF RetentionInv

LEMMA ReceiveRetention ==
    ASSUME TypeOK, RetentionInv, NEW p \in SUBSET Messages, ReceivePage(p)
    PROVE  RetentionInv'
<1>1. /\ mail' = mail /\ decision' = decision /\ handled' = handled
      /\ refs' = {} /\ bodies' = {} /\ pc' = "decide" /\ page' = p
  BY DEF ReceivePage, TypeOK, Fetching
<1>2. \A m \in Messages :
        /\ m \in p => raw'[m] # "absent"
        /\ raw[m] # "absent" => raw'[m] # "absent"
        /\ raw'[m] = "retained" => raw[m] = "retained"
  BY DEF ReceivePage, MetadataUpsert
<1>3. /\ \A m \in Messages : DecisionSound(m)'
      /\ DecisionsJustified' /\ DecisionsComplete' /\ BodiesOnlyOfCandidates'
      /\ \A m \in handled' : decision'[m] # "none"
  BY <1>1, <1>2, DecisionsKept DEF RetentionInv, BodiesOnlyOfCandidates
<1>. QED  BY <1>1, <1>2, <1>3 DEF RetentionInv

LEMMA StoreRetention ==
    ASSUME TypeOK, RetentionInv, StoreBodies
    PROVE  RetentionInv'
<1>1. /\ mail' = mail /\ decision' = decision /\ handled' = handled /\ page' = page
      /\ refs' = {} /\ bodies' = {} /\ pc' = AfterFetch /\ pc \in Fetching
  BY DEF StoreBodies
<1>2. \A m \in Messages : raw'[m] = IF m \in bodies THEN "retained" ELSE raw[m]
  BY DEF StoreBodies
<1>3. \A m \in Messages : m \in bodies => decision[m] = "candidate"
  BY DEF RetentionInv
<1>4. \A m \in Messages : raw[m] = "absent" <=> raw'[m] = "absent"
  BY <1>2, <1>3 DEF RetentionInv, DecisionSound
<1>5. /\ \A m \in Messages : DecisionSound(m)'
      /\ DecisionsJustified' /\ DecisionsComplete' /\ BodiesOnlyOfCandidates'
      /\ \A m \in handled' : decision'[m] # "none"
  BY <1>1, <1>2, <1>3, <1>4, DecisionsKept DEF RetentionInv, BodiesOnlyOfCandidates
<1>6. /\ pc' \in {"list", "promote", "advance"}
      /\ pc' = "promote" => pc = "fetch_page"
      /\ pc' = "advance" => pc = "fetch_promoted"
  BY <1>1 DEF AfterFetch, Fetching
<1>7. pc' = "advance" => ThreadsClosed'
  BY <1>1, <1>4, <1>6, ThreadsStayClosed DEF RetentionInv
<1>. QED  BY <1>1, <1>5, <1>6, <1>7 DEF RetentionInv

(* The filter only adds candidates. *)
LEMMA DecideGrows ==
    ASSUME TypeOK, RetentionInv, DecidePage
    PROVE  /\ \A m \in Messages : decision[m] = "candidate" => decision'[m] = "candidate"
           /\ \A m \in Messages :
                decision'[m] = IF m \in page THEN Evaluate(m, PageThreads) ELSE decision[m]
           /\ \A m \in page : Founder(m) => decision'[m] = "candidate"
           /\ \A m \in Messages : decision[m] # "none" => decision'[m] # "none"
           /\ \A m \in page : m \in Messages /\ decision'[m] # "none"
<1>1. \A m \in Messages :
        decision'[m] = IF m \in page THEN Evaluate(m, PageThreads) ELSE decision[m]
  BY DEF DecidePage
<1>2. \A m \in Messages : decision[m] = "candidate" => decision'[m] = "candidate"
  BY <1>1, CandidateAgain
<1>3. \A m \in page : m \in Messages
  BY DEF TypeOK
<1>4. \A m \in page : Founder(m) => decision'[m] = "candidate"
  BY <1>1, <1>3 DEF Evaluate, Founder
<1>5. \A m \in page : decision'[m] # "none"
  BY <1>1, <1>3, FilterTypes
<1>. QED  BY <1>1, <1>2, <1>3, <1>4, <1>5

LEMMA DecideRetention ==
    ASSUME TypeOK, RetentionInv, DecidePage
    PROVE  RetentionInv'
<1>1. /\ mail' = mail /\ raw' = raw /\ handled' = handled /\ page' = page /\ pc = "decide"
      /\ refs' = Selected /\ bodies' = {} /\ pc' \in {"fetch_page", "promote"}
  BY DEF DecidePage, FetchOr
<1>2. \A m \in Messages : DecisionSound(m)'
  <2> SUFFICES ASSUME NEW m \in Messages PROVE DecisionSound(m)'
    OBVIOUS
  <2>1. DecisionSound(m) /\ (m \in page => raw[m] # "absent")
    BY <1>1 DEF RetentionInv
  <2>2. m \in page => /\ decision'[m] = "excluded" => mail[m].excluded
                      /\ decision'[m] = "no_signal" => ~mail[m].excluded /\ ~mail[m].direct
    BY DecideGrows DEF Evaluate
  <2>3. m \notin page => decision'[m] = decision[m]
    BY DecideGrows
  <2>. QED  BY <1>1, <2>1, <2>2, <2>3 DEF DecisionSound
<1>3. DecisionsJustified'
  <2> SUFFICES ASSUME NEW m \in Messages, decision'[m] = "candidate"
               PROVE  Founded(m, {n \in Messages : raw[n] # "absent" /\ decision[n] = "candidate"})'
    BY DEF DecisionsJustified
  <2>1. CASE decision[m] = "candidate"
    <3>1. Founded(m, {n \in Messages : raw[n] # "absent" /\ decision[n] = "candidate"})
      BY <2>1 DEF RetentionInv, DecisionsJustified
    <3>. QED  BY <1>1, <3>1, DecideGrows DEF Founded, Founder
  <2>2. CASE decision[m] # "candidate"
    <3>1. Evaluate(m, PageThreads) = "candidate"
      BY <2>2, DecideGrows
    <3>. QED  BY <1>1, <3>1, CandidateFounded, DecideGrows DEF Founded, Founder
  <2>. QED  BY <2>1, <2>2
<1>4. DecisionsComplete'
  BY <1>1, DecideGrows DEF RetentionInv, DecisionsComplete, Founded, Founder, TypeOK
<1>5. BodiesOnlyOfCandidates'
  BY <1>1, DecideGrows DEF RetentionInv, BodiesOnlyOfCandidates
<1>6. \A m \in refs' \cup bodies' : decision'[m] = "candidate"
  BY <1>1, DecideGrows DEF Selected
<1>7. \A m \in handled' : decision'[m] # "none"
  BY <1>1, DecideGrows DEF RetentionInv, TypeOK
<1>8. \A m \in page' : decision'[m] # "none"
  BY <1>1, DecideGrows
<1>. QED  BY <1>1, <1>2, <1>3, <1>4, <1>5, <1>6, <1>7, <1>8 DEF RetentionInv

(* Promotion makes candidates of messages in candidate threads. *)
LEMMA PromoteRetention ==
    ASSUME TypeOK, RetentionInv, PromoteThreads
    PROVE  RetentionInv'
<1>1. /\ mail' = mail /\ raw' = raw /\ handled' = handled /\ page' = page /\ pc = "promote"
      /\ refs' = PendingThreadCandidates /\ bodies' = {}
      /\ pc' \in {"fetch_promoted", "advance"}
  BY DEF PromoteThreads, FetchOr
<1>2. \A m \in Messages :
        /\ decision'[m] = IF m \in PendingThreadCandidates THEN "candidate" ELSE decision[m]
        /\ decision[m] = "candidate" => decision'[m] = "candidate"
        /\ decision'[m] = "none" <=> decision[m] = "none"
        /\ decision'[m] \in {"no_signal", "excluded"} => decision'[m] = decision[m]
  BY DEF PromoteThreads, PendingThreadCandidates
<1>3. \A m \in PendingThreadCandidates :
        m \in Messages /\ decision[m] = "no_signal" /\ mail[m].thread \in CandidateThreads
  BY DEF PendingThreadCandidates
<1>4. \A m \in Messages : DecisionSound(m)'
  BY <1>1, <1>2 DEF RetentionInv, DecisionSound
<1>5. DecisionsJustified'
  <2> SUFFICES ASSUME NEW m \in Messages, decision'[m] = "candidate"
               PROVE  Founded(m, {n \in Messages : raw[n] # "absent" /\ decision[n] = "candidate"})'
    BY DEF DecisionsJustified
  <2>1. CASE decision[m] = "candidate"
    <3>1. Founded(m, {n \in Messages : raw[n] # "absent" /\ decision[n] = "candidate"})
      BY <2>1 DEF RetentionInv, DecisionsJustified
    <3>. QED  BY <1>1, <1>2, <3>1 DEF Founded, Founder
  <2>2. CASE decision[m] # "candidate"
    <3>1. mail[m].thread \in CandidateThreads /\ ~mail[m].excluded
      BY <1>2, <1>3, <2>2 DEF RetentionInv, DecisionSound
    <3>2. PICK n \in Messages : /\ Founder(n) /\ mail[n].thread = mail[m].thread
                                /\ mail[m].thread # NoThread
                                /\ raw[n] # "absent" /\ decision[n] = "candidate"
      BY <3>1, ThreadFounded DEF RetentionInv
    <3>. QED  BY <1>1, <1>2, <3>1, <3>2 DEF Founded, Founder
  <2>. QED  BY <2>1, <2>2
<1>6. DecisionsComplete'
  BY <1>1, <1>2 DEF RetentionInv, DecisionsComplete, Founded, Founder, TypeOK
<1>7. BodiesOnlyOfCandidates'
  BY <1>1, <1>2 DEF RetentionInv, BodiesOnlyOfCandidates
<1>8. ThreadsClosed'
  <2> SUFFICES ASSUME NEW m \in Messages, decision'[m] = "no_signal",
                      mail[m].thread \in CandidateThreads'
               PROVE  FALSE
    BY <1>1 DEF ThreadsClosed
  <2>1. decision[m] = "no_signal" /\ m \notin PendingThreadCandidates
    BY <1>2
  <2>2. raw[m] = "metadata_only"
    BY <2>1 DEF RetentionInv, DecisionSound, BodiesOnlyOfCandidates, TypeOK
  <2>3. PICK n \in Messages : /\ raw[n] # "absent" /\ decision'[n] = "candidate"
                              /\ mail[n].thread = mail[m].thread /\ mail[m].thread # NoThread
    BY <1>1 DEF CandidateThreads
  <2>4. mail[m].thread \in CandidateThreads
    BY <1>2, <1>3, <2>3 DEF CandidateThreads
  <2>. QED  BY <2>1, <2>2, <2>4 DEF PendingThreadCandidates
<1>9. /\ \A m \in refs' \cup bodies' : decision'[m] = "candidate"
      /\ \A m \in handled' : decision'[m] # "none"
      /\ \A m \in page' : decision'[m] # "none"
  BY <1>1, <1>2, <1>3 DEF RetentionInv, TypeOK
<1>. QED  BY <1>1, <1>4, <1>5, <1>6, <1>7, <1>8, <1>9 DEF RetentionInv

(* A page that was processed to the end leaves nobody behind. *)
LEMMA AdvanceRetention ==
    ASSUME TypeOK, RetentionInv, Advance
    PROVE  RetentionInv'
<1>1. /\ mail' = mail /\ raw' = raw /\ decision' = decision /\ handled' = handled \cup page
      /\ refs' = {} /\ bodies' = {} /\ page' = {} /\ pc' \in {"list", "idle"} /\ pc = "advance"
  BY DEF Advance, tables, TypeOK, Fetching
<1>2. /\ \A m \in handled \cup page : m \in Messages /\ decision[m] # "none"
      /\ ThreadsClosed
  BY <1>1 DEF RetentionInv, TypeOK
<1>3. \A m \in handled \cup page : Founder(m) => decision[m] = "candidate"
  BY <1>2 DEF RetentionInv, DecisionSound, Founder, TypeOK
<1>4. DecisionsComplete'
  <2> SUFFICES ASSUME NEW m \in handled \cup page, Founded(m, handled \cup page)
               PROVE  decision[m] = "candidate"
    BY <1>1 DEF DecisionsComplete, Founded, Founder
  <2>1. CASE mail[m].direct
    BY <1>3, <2>1 DEF Founded, Founder
  <2>2. CASE ~mail[m].direct
    <3>1. PICK n \in handled \cup page : /\ Founder(n) /\ mail[n].thread = mail[m].thread
                                         /\ mail[m].thread # NoThread
      BY <2>2 DEF Founded
    <3>2. decision[n] = "candidate" /\ raw[n] # "absent" /\ n \in Messages
      BY <1>2, <1>3, <3>1 DEF RetentionInv, DecisionSound
    <3>3. mail[m].thread \in CandidateThreads
      BY <3>1, <3>2 DEF CandidateThreads
    <3>4. decision[m] # "no_signal" /\ decision[m] # "excluded"
      BY <1>2, <3>3 DEF ThreadsClosed, RetentionInv, DecisionSound, Founded
    <3>. QED  BY <1>2, <3>4 DEF TypeOK
  <2>. QED  BY <2>1, <2>2
<1>5. DecisionsJustified' /\ BodiesOnlyOfCandidates' /\ \A m \in Messages : DecisionSound(m)'
  BY <1>1 DEF RetentionInv, DecisionsJustified, BodiesOnlyOfCandidates, DecisionSound,
              Founded, Founder
<1>. QED  BY <1>1, <1>2, <1>4, <1>5 DEF RetentionInv

LEMMA NextRetention == TypeOK /\ RetentionInv /\ [Next]_vars => RetentionInv'
BY MoveRetention, RetryRetention, ReceiveRetention, StoreRetention, DecideRetention,
   PromoteRetention, AdvanceRetention DEF Next, ListPage, Relist, Pages

----------------------------------------------------------------------------
(* The theorems *)

(* The filter's rows, the retained bodies and the run in progress agree in   *)
(* every reachable state.                                                    *)
THEOREM RetentionInvariant == Spec => [](TypeOK /\ RetentionInv)
BY InitType, InitRetention, NextType, NextRetention, PTL DEF Spec

(* A candidate always goes back to a message that signals a job mail itself. *)
THEOREM CandidatesJustified == Spec => []DecisionsJustified
<1>1. RetentionInv => DecisionsJustified
  BY DEF RetentionInv
<1>. QED  BY <1>1, RetentionInvariant, PTL

(* No message that was handled is overlooked, wherever runs were cut off.    *)
THEOREM NobodyOverlooked == Spec => []DecisionsComplete
<1>1. RetentionInv => DecisionsComplete
  BY DEF RetentionInv
<1>. QED  BY <1>1, RetentionInvariant, PTL

(* Bodies are kept of candidates only, which is what the product promises    *)
(* about everything else in the mailbox.                                     *)
THEOREM PrivateBodies == Spec => []BodiesOnlyOfCandidates
<1>1. RetentionInv => BodiesOnlyOfCandidates
  BY DEF RetentionInv
<1>. QED  BY <1>1, RetentionInvariant, PTL

(* The candidates of a whole mailbox are the same for every order of pages,  *)
(* every page size and every history of failed runs.                         *)
THEOREM PageOrderIrrelevant == Spec => []OrderIndependent
<1>1. ASSUME TypeOK, RetentionInv PROVE OrderIndependent
  <2> SUFFICES ASSUME handled = Messages, NEW m \in Messages
               PROVE  decision[m] = "candidate" <=> Founded(m, Messages)
    BY DEF OrderIndependent
  <2>1. decision[m] = "candidate" => Founded(m, Messages)
    BY <1>1, FoundedMonotone DEF RetentionInv, DecisionsJustified
  <2>2. Founded(m, Messages) => decision[m] = "candidate"
    BY <1>1 DEF RetentionInv, DecisionsComplete
  <2>. QED  BY <2>1, <2>2
<1>. QED  BY <1>1, RetentionInvariant, PTL

(* No later listing takes a body or a candidacy away.                        *)
THEOREM RetentionOnlyGrows == Spec => NothingRetracted
<1> DEFINE grows == \A m \in Messages :
              /\ raw[m] = "retained" => raw'[m] = "retained"
              /\ decision[m] = "candidate" => decision'[m] = "candidate"
<1>1. ASSUME TypeOK, RetentionInv, [Next]_vars PROVE [grows]_vars
  <2>1. CASE DecidePage
    BY <1>1, <2>1, DecideGrows DEF DecidePage
  <2>2. CASE PromoteThreads
    BY <2>2 DEF PromoteThreads
  <2>3. CASE StoreBodies
    BY <2>3 DEF StoreBodies
  <2>4. ASSUME NEW p \in SUBSET Messages, ReceivePage(p) PROVE grows
    BY <2>4 DEF ReceivePage, MetadataUpsert
  <2>5. CASE \/ StartRun \/ RetryPending \/ LastPageEmpty \/ FetchChunk \/ Advance \/ Abort
             \/ UNCHANGED vars
    BY <2>5 DEF StartRun, RetryPending, LastPageEmpty, FetchChunk, Advance, Abort, tables, vars
  <2>. QED  BY <1>1, <2>1, <2>2, <2>3, <2>4, <2>5 DEF Next, ListPage, Relist, Pages
<1>2. Spec => [][grows]_vars
  BY <1>1, RetentionInvariant, PTL DEF Spec
<1>. QED  BY <1>2 DEF NothingRetracted
=============================================================================
