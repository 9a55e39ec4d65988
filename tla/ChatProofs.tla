----------------------------- MODULE ChatProofs -----------------------------
(***************************************************************************)
(* The chat service runs the reconciliations of ChatIndex and reads the    *)
(* cache of Insights without disturbing them: it implements both.  A turn  *)
(* is answered once, and a stored answer holds.                            *)
(***************************************************************************)
EXTENDS Chat, ChatIndexProofs, InsightsProofs

-----------------------------------------------------------------------------
(* The index and the insights, as the chat service uses them *)

LEMMA ChatRefinesIndexStep ==
  ASSUME [ChatNext]_chatVars
  PROVE  [Next]_vars
<1>1. CASE UNCHANGED chatVars
  BY <1>1 DEF chatVars, indexVars, vars
<1>2. ASSUME NEW r \in Requests, Ends(r, "llm_provider_failed") \/ Ends(r, "web_search_unavailable")
                                 \/ Ends(r, "gone")
      PROVE  [Next]_vars
  BY <1>2 DEF Ends, Next, indexVars, vars
<1>3. ASSUME NEW r \in Requests,
             Post(r) \/ Enter(r) \/ Plan(r) \/ Search(r) \/ Browse(r) \/ Answer(r)
      PROVE  UNCHANGED vars
  BY <1>3 DEF Post, Enter, Plan, Search, Browse, Answer, indexVars, vars
<1>4. ASSUME NEW r \in Requests, BeginSearch(r) \/ StoreSearch(r)
      PROVE  Next
  BY <1>4, ChatConstants DEF BeginSearch, StoreSearch, Next
<1>5. CASE Process
  BY <1>5 DEF Process, Next
<1>6. CASE Change
  BY <1>6 DEF Change, Next
<1>7. CASE Narrate
  BY <1>7 DEF Narrate, indexVars, vars
<1> QED BY <1>1, <1>2, <1>3, <1>4, <1>5, <1>6, <1>7
        DEF ChatNext, ModelFails, BrowseFails, Disconnect

LEMMA ChatRefinesInsightStep ==
  ASSUME [ChatNext]_chatVars
  PROVE  [InsightNext]_insightVars
<1>1. CASE UNCHANGED chatVars
  BY <1>1 DEF chatVars
<1>2. ASSUME NEW r \in Requests,
             \/ Post(r) \/ Enter(r) \/ Plan(r) \/ BeginSearch(r) \/ StoreSearch(r)
             \/ Search(r) \/ Browse(r) \/ Answer(r)
             \/ ModelFails(r) \/ BrowseFails(r) \/ Disconnect(r)
      PROVE  UNCHANGED insightVars
  BY <1>2 DEF Post, Enter, Plan, BeginSearch, StoreSearch, Search, Browse, Answer,
              ModelFails, BrowseFails, Disconnect, Ends
<1>3. CASE Process \/ Change
  BY <1>3 DEF Process, Change
<1>4. CASE Narrate
  BY <1>4 DEF Narrate
<1> QED BY <1>1, <1>2, <1>3, <1>4 DEF ChatNext

\* Whatever the requests do between the reads and writes of a reconciliation, the
\* index is reconciled as ChatIndex says.
THEOREM ChatImplementsIndex == ChatSpec => Spec
<1>1. ChatInit => Init
  BY DEF ChatInit
<1>2. [ChatNext]_chatVars => [Next]_vars
  BY ChatRefinesIndexStep
<1> QED BY <1>1, <1>2, PTL DEF ChatSpec, Spec

\* The chat service only reads the insights.
THEOREM ChatImplementsInsights == ChatSpec => InsightSpec
<1>1. ChatInit => InsightInit
  BY DEF ChatInit
<1>2. [ChatNext]_chatVars => [InsightNext]_insightVars
  BY ChatRefinesInsightStep
<1> QED BY <1>1, <1>2, PTL DEF ChatSpec, InsightSpec

\* So what is proved of both holds of the service.
THEOREM ChatKeepsPromises ==
  ChatSpec => ReconcileIsExact /\ KeepsEligibleMail /\ []FreshIsCurrent
BY ChatImplementsIndex, ChatImplementsInsights, ReconciliationsExact, EligibleMailKept,
   InsightsCurrent, PTL

-----------------------------------------------------------------------------
(* A turn is answered once *)

AskedBy == {"state", "turn", "question", "given"}

\* A request that was sent has a turn, and a turn holds at most one answer.
Shaped ==
  /\ DOMAIN requests = Requests /\ DOMAIN history = Turns
  /\ \A r \in Requests : requests[r].state # "unsent" =>
       AskedBy \subseteq DOMAIN requests[r] /\ requests[r].turn \in Turns
  /\ \A t \in Turns : \A s, u \in history[t] : s = u

\* One request of a turn is at work, and it has looked for a stored turn: there is
\* none, or none under its conversation.
Exclusive ==
  /\ \A p, r \in Working : requests[p].turn = requests[r].turn => p = r
  /\ \A r \in Working : \A s \in history[requests[r].turn] :
       requests[r].given \notin {None, s.conversation}

TurnInv == Shaped /\ Exclusive /\ TurnAnsweredOnce

\* What the outcome of a request says of the turn that is stored.
Honest(over, stored) ==
  CASE over.outcome \in {"answered", "lost"} ->
         stored = {over.response} /\ over.response.question = over.question
    [] over.outcome = "conflict" -> \E s \in stored : s.question # over.question
    [] over.outcome = "internal_error" ->
         \E s \in stored : over.given \notin {None, s.conversation}
    [] OTHER -> TRUE

LEMMA AnsweredOnceHonest ==
  /\ TurnAnsweredOnce <=> \A r \in Requests : requests[r].state = "over" =>
                            Honest(requests[r], history[requests[r].turn])
  /\ TurnAnsweredOnce' <=> \A r \in Requests : requests'[r].state = "over" =>
                             Honest(requests'[r], history'[requests'[r].turn])
BY DEF TurnAnsweredOnce, Honest

AtWork(request) == request.state \notin {"unsent", "waiting", "over"}

\* What one request becomes concerns no other.
LEMMA OneBecomes ==
  ASSUME Shaped, NEW r \in Requests, NEW request, Becomes(r, request)
  PROVE  /\ DOMAIN requests' = Requests /\ requests'[r] = request
         /\ \A p \in Requests : p # r => requests'[p] = requests[p]
         /\ Working' \ {r} = Working \ {r}
         /\ r \in Working' <=> AtWork(request)
<1>1. DOMAIN requests' = Requests /\ requests'[r] = request
      /\ \A p \in Requests : p # r => requests'[p] = requests[p]
  BY DEF Shaped, Becomes
<1> QED BY <1>1 DEF Working, AtWork

SameRequest(old, new) ==
  /\ AskedBy \subseteq DOMAIN new
  /\ new.turn = old.turn /\ new.question = old.question /\ new.given = old.given

\* A request at work goes on.
LEMMA GoesOn ==
  ASSUME TurnInv, NEW r \in Working, NEW request, Becomes(r, request), UNCHANGED history,
         SameRequest(requests[r], request), AtWork(request)
  PROVE  TurnInv'
<1> r \in Requests
  BY DEF Working
<1>1. /\ DOMAIN requests' = Requests /\ requests'[r] = request
      /\ \A p \in Requests : p # r => requests'[p] = requests[p]
      /\ Working' = Working
  BY OneBecomes DEF TurnInv
<1>2. Shaped'
  BY <1>1 DEF TurnInv, Shaped, SameRequest, AtWork, Working
<1>3. Exclusive'
  <2>1. \A p \in Requests : /\ requests'[p].turn = requests[p].turn
                            /\ requests'[p].given = requests[p].given
    BY <1>1 DEF SameRequest
  <2>2. Working \subseteq Requests
    BY DEF Working
  <2> QED BY <1>1, <2>1, <2>2 DEF TurnInv, Exclusive
<1>4. \A p \in Requests : requests'[p].state = "over" => p # r
  BY <1>1 DEF AtWork
<1>5. TurnAnsweredOnce'
  BY <1>1, <1>4, AnsweredOnceHonest DEF TurnInv
<1> QED BY <1>2, <1>3, <1>5 DEF TurnInv

\* A request is over and says what is true of what is stored.
LEMMA IsOver ==
  ASSUME TurnInv, NEW r \in Requests, requests[r].state # "unsent",
         NEW outcome, NEW response, Becomes(r, Over(requests[r], outcome, response)),
         UNCHANGED history,
         Honest(Over(requests[r], outcome, response), history[requests[r].turn])
  PROVE  TurnInv'
<1> DEFINE over == Over(requests[r], outcome, response)
<1>1. /\ AskedBy \subseteq DOMAIN over /\ over.turn = requests[r].turn /\ over.state = "over"
  BY DEF Over, AskedBy
<1>2. ~AtWork(over)
  BY <1>1 DEF AtWork
<1> HIDE DEF over
<1>3. /\ DOMAIN requests' = Requests /\ requests'[r] = over
      /\ \A p \in Requests : p # r => requests'[p] = requests[p]
      /\ Working' = Working \ {r}
  BY <1>2, OneBecomes DEF TurnInv, over
<1>4. Shaped'
  BY <1>1, <1>3 DEF TurnInv, Shaped
<1>5. \A p \in Working' : p \in Working /\ p # r /\ requests'[p] = requests[p]
  BY <1>3 DEF Working
<1>6. Exclusive'
  BY <1>5, Zenon DEF TurnInv, Exclusive
<1>7. Honest(requests'[r], history'[requests'[r].turn])
  BY <1>1, <1>3 DEF over
<1>8. TurnAnsweredOnce'
  BY <1>3, <1>7, AnsweredOnceHonest DEF TurnInv
<1> QED BY <1>4, <1>6, <1>8 DEF TurnInv

\* Failing says nothing of the stored turn.
LEMMA EndsKeeps ==
  ASSUME TurnInv, NEW r \in Requests, requests[r].state # "unsent",
         NEW outcome \in {"llm_provider_failed", "web_search_unavailable", "gone", "locked"},
         Becomes(r, Over(requests[r], outcome, None)), UNCHANGED history
  PROVE  TurnInv'
<1>1. Honest(Over(requests[r], outcome, None), history[requests[r].turn])
  BY DEF Honest, Over
<1> QED BY <1>1, IsOver

\* The lock of the turn is free: the request starts to work, is told what is stored,
\* or that it asked something else.
LEMMA EnterKeeps ==
  ASSUME TurnInv, NEW r \in Requests, Enter(r)
  PROVE  TurnInv'
<1> DEFINE request == requests[r]
           started == [request EXCEPT !.state = "planning"]
           completed == {stored \in history[request.turn] :
                           request.given \in {None, stored.conversation}}
<1>1. /\ request.state = "waiting" /\ TurnFree(request.turn) /\ UNCHANGED history
      /\ AskedBy \subseteq DOMAIN request /\ request.turn \in Turns
  BY DEF Enter, TurnInv, Shaped
<1>2. ASSUME completed = {}, Becomes(r, started)
      PROVE  TurnInv'
  <2>1. SameRequest(request, started) /\ started.state = "planning"
    BY <1>1 DEF SameRequest, AskedBy
  <2> HIDE DEF started
  <2>2. /\ DOMAIN requests' = Requests /\ requests'[r] = started
        /\ \A p \in Requests : p # r => requests'[p] = requests[p]
        /\ Working' \subseteq Working \cup {r} /\ Working \subseteq Requests
    BY <1>2, OneBecomes DEF TurnInv, Working
  <2>3. Shaped'
    BY <1>1, <2>1, <2>2 DEF TurnInv, Shaped, SameRequest
  <2>4. \A p \in Working : requests[p].turn # request.turn /\ p # r
    BY <1>1 DEF TurnFree, Working
  <2>5. \A p \in Requests : /\ requests'[p].turn = requests[p].turn
                            /\ requests'[p].given = requests[p].given
    BY <2>1, <2>2 DEF SameRequest
  <2>6. \A p \in Working', q \in Working' : requests'[p].turn = requests'[q].turn => p = q
    BY <2>2, <2>4, <2>5 DEF TurnInv, Exclusive
  <2>7. \A s \in history[request.turn] : request.given \notin {None, s.conversation}
    BY <1>2
  <2>8. Exclusive'
    BY <1>1, <2>2, <2>5, <2>6, <2>7 DEF TurnInv, Exclusive
  <2>9. TurnAnsweredOnce'
    BY <1>1, <2>1, <2>2, AnsweredOnceHonest DEF TurnInv
  <2> QED BY <2>3, <2>8, <2>9 DEF TurnInv
<1>3. ASSUME NEW stored \in completed,
             Becomes(r, IF SameTurn(stored, request) THEN Over(request, "answered", stored)
                        ELSE Over(request, "conflict", None))
      PROVE  TurnInv'
  <2>1. history[request.turn] = {stored}
    BY <1>1, <1>3 DEF TurnInv, Shaped
  <2>2. CASE SameTurn(stored, request)
    <3>1. Honest(Over(request, "answered", stored), history[request.turn])
      BY <2>1, <2>2 DEF Honest, Over, SameTurn
    <3> QED BY <1>1, <1>3, <2>2, <3>1, IsOver
  <2>3. CASE ~SameTurn(stored, request)
    <3>1. Honest(Over(request, "conflict", None), history[request.turn])
      BY <2>1, <2>3 DEF Honest, Over, SameTurn
    <3> QED BY <1>1, <1>3, <2>3, <3>1, IsOver
  <2> QED BY <2>2, <2>3
<1> QED BY <1>2, <1>3 DEF Enter

\* The answer is stored, or the turn is found taken, or the database locked.
LEMMA AnswerKeeps ==
  ASSUME TurnInv, NEW r \in Requests, Answer(r)
  PROVE  TurnInv'
<1> DEFINE request == requests[r]
<1>1. /\ request.state = "answering" /\ r \in Working
      /\ AskedBy \subseteq DOMAIN request /\ request.turn \in Turns
  BY DEF Answer, TurnInv, Shaped, Working
<1>2. CASE work.dirty
  BY <1>1, <1>2, EndsKeeps DEF Answer
<1>3. CASE ~work.dirty /\ Taken(request.turn)
  <2>1. Becomes(r, Over(request, "internal_error", None)) /\ UNCHANGED history
    BY <1>3 DEF Answer
  <2>2. \E s \in history[request.turn] : request.given \notin {None, s.conversation}
    BY <1>1, <1>3 DEF Taken, TurnInv, Exclusive
  <2>3. Honest(Over(request, "internal_error", None), history[request.turn])
    BY <2>2 DEF Honest, Over
  <2> QED BY <1>1, <2>1, <2>3, IsOver
<1>4. CASE ~work.dirty /\ ~Taken(request.turn)
  <2>1. PICK mail \in MailCited(request), web \in WebCited(request) :
          Stores(r, request.turn, Response(r, request, mail, web))
    BY <1>4 DEF Answer
  <2> DEFINE response == Response(r, request, mail, web)
  <2>2. response.question = request.question
    BY DEF Response
  <2> HIDE DEF response
  <2>3. PICK outcome \in {"answered", "lost"} : Becomes(r, Over(request, outcome, response))
    BY <2>1 DEF Stores, response
  <2>4. /\ DOMAIN history' = Turns /\ history[request.turn] = {}
        /\ history'[request.turn] = {response}
        /\ \A t \in Turns : t # request.turn => history'[t] = history[t]
    BY <1>1, <1>4, <2>1 DEF Stores, Taken, response, TurnInv, Shaped
  <2> DEFINE over == Over(request, outcome, response)
  <2>5. /\ AskedBy \subseteq DOMAIN over /\ over.turn = request.turn /\ over.state = "over"
        /\ ~AtWork(over)
    BY DEF Over, AskedBy, AtWork
  <2>6. Honest(over, {response})
    BY <2>2 DEF Over, Honest
  <2> HIDE DEF over
  <2>7. /\ DOMAIN requests' = Requests /\ requests'[r] = over
        /\ \A p \in Requests : p # r => requests'[p] = requests[p]
        /\ Working' = Working \ {r} /\ Working \subseteq Requests
    BY <2>3, <2>5, OneBecomes DEF TurnInv, over, Working
  <2>8. Shaped'
    BY <1>1, <2>4, <2>5, <2>7 DEF TurnInv, Shaped
  <2>9. \A p \in Working' : /\ requests'[p] = requests[p] /\ p \in Working
                            /\ requests[p].turn # request.turn
                            /\ requests[p].turn \in Turns
    <3>1. \A p \in Working' : requests'[p] = requests[p] /\ p \in Working
                              /\ requests[p].turn # request.turn
      BY <1>1, <2>7 DEF TurnInv, Exclusive
    <3> QED BY <3>1 DEF TurnInv, Shaped, Working
  <2>10. Exclusive'
    BY <2>4, <2>9 DEF TurnInv, Exclusive
  <2>11. ASSUME NEW p \in Requests, requests'[p].state = "over"
         PROVE  Honest(requests'[p], history'[requests'[p].turn])
    <3>1. CASE p = r
      BY <3>1, <2>4, <2>5, <2>6, <2>7
    <3>2. CASE p # r /\ requests[p].turn # request.turn
      <4>1. requests[p].turn \in Turns
        BY <2>7, <2>11, <3>2 DEF TurnInv, Shaped
      <4> QED BY <2>4, <2>7, <2>11, <3>2, <4>1, AnsweredOnceHonest DEF TurnInv
    <3>3. CASE p # r /\ requests[p].turn = request.turn
      <4>1. Honest(requests[p], {}) /\ requests'[p] = requests[p]
        BY <2>4, <2>7, <2>11, <3>3, AnsweredOnceHonest DEF TurnInv
      <4>2. requests[p].outcome \notin {"answered", "lost", "conflict", "internal_error"}
        BY <4>1 DEF Honest
      <4> QED BY <4>1, <4>2 DEF Honest
    <3> QED BY <3>1, <3>2, <3>3
  <2> QED BY <2>8, <2>10, <2>11, AnsweredOnceHonest DEF TurnInv
<1> QED BY <1>2, <1>3, <1>4

-----------------------------------------------------------------------------
\* The request that holds the lock of the index is the one that reconciles.
LockHeld == \A r \in Requests : lock = r <=> requests[r].state = "reconciling"

LEMMA RequestTasks == Requests \subseteq Tasks /\ Free \notin Requests /\ None \notin Requests
BY ChatConstants, IndexConstants

\* Where a request that has reconciled, or goes on to, stands.
LEMMA ReconciledGoesOn ==
  ASSUME NEW old, NEW request, SameRequest(old, request), NEW indexed
  PROVE  /\ SameRequest(old, Searched(request, indexed))
         /\ Searched(request, indexed).state \in {"embedding", "browsing", "answering"}
         /\ SameRequest(old, [request EXCEPT !.state = "reconciling"])
         /\ [request EXCEPT !.state = "reconciling"].state = "reconciling"
<1>1. AskedBy \subseteq DOMAIN request /\ "state" \in DOMAIN request
  BY DEF SameRequest, AskedBy
<1>2. AfterSearch(request.plan) \in {"browsing", "answering"}
  BY DEF AfterSearch
<1>3. /\ SameRequest(old, [request EXCEPT !.state = "reconciling"])
      /\ [request EXCEPT !.state = "reconciling"].state = "reconciling"
  BY <1>1 DEF SameRequest, AskedBy
<1>4. CASE request.plan.mode = "semantic"
  <2>1. Searched(request, indexed) = [request EXCEPT !.state = "embedding"]
    BY <1>4 DEF Searched
  <2>2. /\ SameRequest(old, [request EXCEPT !.state = "embedding"])
        /\ [request EXCEPT !.state = "embedding"].state = "embedding"
    BY <1>1 DEF SameRequest, AskedBy
  <2> QED BY <1>3, <2>1, <2>2
<1>5. CASE request.plan.mode # "semantic"
  <2> DEFINE found == Found(request.plan.mode, indexed)
             state == AfterSearch(request.plan)
  <2> HIDE DEF found, state
  <2>1. Searched(request, indexed) = [request EXCEPT !.found = found, !.state = state]
    BY <1>5 DEF Searched, found, state
  <2>2. /\ SameRequest(old, [request EXCEPT !.found = found, !.state = state])
        /\ [request EXCEPT !.found = found, !.state = state].state = state
    BY <1>1 DEF SameRequest, AskedBy
  <2> QED BY <1>2, <1>3, <2>1, <2>2 DEF state
<1> QED BY <1>4, <1>5

\* Begin and StorePage leave the lock with the task or free it.
LEMMA LockAfter ==
  ASSUME NEW t \in Tasks, Begin(t) \/ StorePage(t)
  PROVE  lock \in {t, Free} /\ lock' \in {t, Free}
BY DEF Begin, StorePage, Continue

\* A request searches the mail: it goes on, and holds the lock until it has.
LEMMA SearchKeeps ==
  ASSUME TurnInv, LockHeld, NEW r \in Requests, BeginSearch(r) \/ StoreSearch(r)
  PROVE  TurnInv' /\ LockHeld'
<1>1. r \in Tasks /\ lock \in {r, Free} /\ lock' \in {r, Free} /\ UNCHANGED history
  BY RequestTasks, LockAfter DEF BeginSearch, StoreSearch
<1>2. /\ requests[r].state \in {"retrieving", "reconciling"} /\ r \in Working
      /\ AskedBy \subseteq DOMAIN requests[r]
  BY DEF BeginSearch, StoreSearch, StorePage, LockHeld, TurnInv, Shaped, Working
<1>3. PICK request : /\ Reconciled(r, request) /\ SameRequest(requests[r], request)
                     /\ request.state \in {"retrieving", "reconciling"}
  <2>1. CASE BeginSearch(r)
    <3>1. [requests[r] EXCEPT !.seen = eligible].state \in {"retrieving", "reconciling"}
          /\ SameRequest(requests[r], [requests[r] EXCEPT !.seen = eligible])
      BY <1>2 DEF SameRequest, AskedBy
    <3> QED BY <2>1, <3>1 DEF BeginSearch
  <2>2. CASE StoreSearch(r)
    BY <1>2, <2>2 DEF StoreSearch, SameRequest
  <2> QED BY <2>1, <2>2
<1> DEFINE old == requests[r]
<1>a. SameRequest(old, request)
  BY <1>3
<1> HIDE DEF old
<1>4. PICK new : /\ Becomes(r, new) /\ SameRequest(old, new) /\ AtWork(new)
                 /\ lock' = r <=> new.state = "reconciling"
  <2>1. CASE lock' = Free
    <3>1. PICK indexed : indexed = index' /\ Becomes(r, Searched(request, indexed))
      BY <1>3, <2>1 DEF Reconciled
    <3>2. SameRequest(old, Searched(request, indexed))
          /\ Searched(request, indexed).state \in {"embedding", "browsing", "answering"}
      BY <1>a, ReconciledGoesOn
    <3> QED BY <2>1, <3>1, <3>2, RequestTasks DEF AtWork
  <2>2. CASE lock' = r /\ lock' # Free
    <3>1. Becomes(r, [request EXCEPT !.state = "reconciling"])
      BY <1>3, <2>2 DEF Reconciled
    <3>2. SameRequest(old, [request EXCEPT !.state = "reconciling"])
          /\ [request EXCEPT !.state = "reconciling"].state = "reconciling"
      BY <1>a, ReconciledGoesOn
    <3> QED BY <2>2, <3>1, <3>2 DEF AtWork
  <2> QED BY <1>1, <2>1, <2>2
<1>5. TurnInv'
  BY <1>1, <1>2, <1>4, GoesOn DEF old
<1>6. requests'[r] = new /\ \A p \in Requests : p # r => requests'[p] = requests[p]
  BY <1>4, OneBecomes DEF TurnInv
<1>7. \A p \in Requests : p # r => lock # p /\ lock' # p
  BY <1>1, RequestTasks
<1>8. LockHeld'
  BY <1>4, <1>6, <1>7 DEF LockHeld
<1> QED BY <1>5, <1>8

\* A request that has the lock, or nobody has it from a request.
LEMMA LockKept ==
  ASSUME Shaped, LockHeld, UNCHANGED lock, NEW r \in Requests, NEW new, Becomes(r, new),
         requests[r].state # "reconciling", new.state # "reconciling"
  PROVE  LockHeld'
<1>1. requests'[r] = new /\ \A p \in Requests : p # r => requests'[p] = requests[p]
  BY OneBecomes
<1> QED BY <1>1 DEF LockHeld

\* A request that ends gives the lock back.
LEMMA EndKeeps ==
  ASSUME TurnInv, LockHeld, NEW r \in Requests, requests[r].state # "unsent",
         NEW outcome \in {"llm_provider_failed", "web_search_unavailable", "gone"},
         Ends(r, outcome)
  PROVE  TurnInv' /\ LockHeld'
<1> DEFINE over == Over(requests[r], outcome, None)
<1>1. Becomes(r, over) /\ UNCHANGED history /\ over.state = "over"
  BY DEF Ends, Over
<1>2. TurnInv'
  BY <1>1, EndsKeeps
<1> HIDE DEF over
<1>3. requests'[r] = over /\ \A p \in Requests : p # r => requests'[p] = requests[p]
  BY <1>1, OneBecomes DEF TurnInv
<1>4. IF lock = r THEN lock' = Free ELSE lock' = lock
  BY DEF Ends, Abandon, indexVars
<1>5. LockHeld'
  BY <1>1, <1>3, <1>4, RequestTasks DEF LockHeld
<1> QED BY <1>2, <1>5

\* Steps that leave the requests where they are.
LEMMA OthersKeep ==
  ASSUME TurnInv, LockHeld, DOMAIN requests' = Requests, UNCHANGED history,
         \A r \in Requests : /\ requests'[r].state = requests[r].state
                             /\ requests[r].state = "over" => requests'[r] = requests[r]
                             /\ requests[r].state # "unsent" =>
                                  SameRequest(requests[r], requests'[r]),
         UNCHANGED lock \/ (lock \notin Requests /\ lock' \notin Requests)
  PROVE  TurnInv' /\ LockHeld'
<1>1. Working' = Working /\ Working \subseteq Requests
  BY DEF Working
<1>2. \A r \in Working : /\ requests'[r].turn = requests[r].turn
                         /\ requests'[r].given = requests[r].given
  BY DEF Working, SameRequest
<1>3. Shaped'
  BY DEF TurnInv, Shaped, SameRequest
<1>4. Exclusive'
  BY <1>1, <1>2 DEF TurnInv, Exclusive
<1>5. TurnAnsweredOnce'
  BY AnsweredOnceHonest DEF TurnInv
<1>6. LockHeld'
  BY DEF LockHeld
<1> QED BY <1>3, <1>4, <1>5, <1>6 DEF TurnInv

LEMMA TurnStep ==
  ASSUME TurnInv, LockHeld, [ChatNext]_chatVars
  PROVE  TurnInv' /\ LockHeld'
<1>1. CASE UNCHANGED chatVars
  <2>1. UNCHANGED <<requests, history, lock>>
    BY <1>1 DEF chatVars, indexVars
  <2> QED BY <2>1, OthersKeep DEF TurnInv, Shaped, SameRequest
<1>2. ASSUME NEW r \in Requests, Post(r) PROVE TurnInv' /\ LockHeld'
  <2>1. PICK turn \in Turns, q \in Questions, given \in {None} \cup Requests :
          Becomes(r, Sent(turn, q, given))
    BY <1>2 DEF Post
  <2> DEFINE new == Sent(turn, q, given)
  <2>2. new.state = "waiting" /\ AskedBy \subseteq DOMAIN new /\ new.turn = turn
    BY DEF Sent, AskedBy
  <2> HIDE DEF new
  <2>3. UNCHANGED <<history, lock>> /\ requests[r].state = "unsent"
    BY <1>2 DEF Post, Unsent, indexVars
  <2>4. /\ DOMAIN requests' = Requests /\ requests'[r] = new
        /\ \A p \in Requests : p # r => requests'[p] = requests[p]
        /\ Working' = Working
    BY <2>1, <2>2, <2>3, OneBecomes DEF new, TurnInv, AtWork, Working
  <2>5. Shaped'
    BY <2>2, <2>3, <2>4 DEF TurnInv, Shaped
  <2>6. \A p \in Working : p \in Requests /\ requests'[p] = requests[p]
    BY <2>2, <2>4 DEF Working
  <2>7. Exclusive'
    BY <2>3, <2>4, <2>6 DEF TurnInv, Exclusive
  <2>8. TurnAnsweredOnce'
    BY <2>2, <2>3, <2>4, AnsweredOnceHonest DEF TurnInv
  <2>9. LockHeld'
    BY <2>2, <2>3, <2>4 DEF LockHeld
  <2> QED BY <2>5, <2>7, <2>8, <2>9 DEF TurnInv
<1>3. ASSUME NEW r \in Requests, Enter(r) PROVE TurnInv' /\ LockHeld'
  <2>1. UNCHANGED lock /\ requests[r].state = "waiting"
        /\ AskedBy \subseteq DOMAIN requests[r]
    BY <1>3 DEF Enter, indexVars, TurnInv, Shaped
  <2>2. \E new : Becomes(r, new) /\ new.state # "reconciling"
    <3>1. [requests[r] EXCEPT !.state = "planning"].state = "planning"
      BY <2>1 DEF AskedBy
    <3>2. \A outcome, response : Over(requests[r], outcome, response).state = "over"
      BY DEF Over
    <3> QED BY <1>3, <3>1, <3>2 DEF Enter
  <2> QED BY <1>3, <2>1, <2>2, EnterKeeps, LockKept DEF TurnInv
<1>4. ASSUME NEW r \in Requests, Plan(r) PROVE TurnInv' /\ LockHeld'
  <2>1. /\ UNCHANGED <<lock, history>> /\ requests[r].state = "planning" /\ r \in Working
        /\ AskedBy \subseteq DOMAIN requests[r]
    BY <1>4 DEF Plan, indexVars, TurnInv, Shaped, Working
  <2>2. CASE Becomes(r, Over(requests[r], "llm_provider_failed", None))
    <3>1. Over(requests[r], "llm_provider_failed", None).state = "over"
      BY DEF Over
    <3> QED BY <2>1, <2>2, <3>1, EndsKeeps, LockKept DEF TurnInv
  <2>3. ASSUME NEW state \in {"retrieving", "browsing", "answering"}, NEW plan, NEW rows, NEW read,
               Becomes(r, [requests[r] EXCEPT !.state = state, !.plan = plan, !.rows = rows,
                                              !.read = read])
        PROVE  TurnInv' /\ LockHeld'
    <3> DEFINE new == [requests[r] EXCEPT !.state = state, !.plan = plan, !.rows = rows,
                                          !.read = read]
    <3>1. SameRequest(requests[r], new) /\ new.state = state
      BY <2>1 DEF SameRequest, AskedBy
    <3> HIDE DEF new
    <3>2. AtWork(new) /\ new.state # "reconciling" /\ Becomes(r, new)
      BY <2>3, <3>1 DEF AtWork, new
    <3> QED BY <2>1, <3>1, <3>2, GoesOn, LockKept DEF TurnInv
  <2>4. \A plan : (IF "R" \in plan.tools THEN "retrieving" ELSE AfterSearch(plan))
                 \in {"retrieving", "browsing", "answering"}
    BY DEF AfterSearch
  <2> QED BY <1>4, <2>2, <2>3, <2>4 DEF Plan
<1>5. ASSUME NEW r \in Requests, BeginSearch(r) \/ StoreSearch(r) PROVE TurnInv' /\ LockHeld'
  BY <1>5, SearchKeeps
<1>6. ASSUME NEW r \in Requests, Search(r) PROVE TurnInv' /\ LockHeld'
  <2>1. /\ UNCHANGED <<lock, history>> /\ requests[r].state = "embedding" /\ r \in Working
        /\ AskedBy \subseteq DOMAIN requests[r]
    BY <1>6 DEF Search, indexVars, TurnInv, Shaped, Working
  <2>2. PICK found : Becomes(r, [requests[r] EXCEPT !.found = found,
                                      !.state = AfterSearch(requests[r].plan)])
    BY <1>6 DEF Search
  <2> DEFINE new == [requests[r] EXCEPT !.found = found, !.state = AfterSearch(requests[r].plan)]
  <2>3. SameRequest(requests[r], new) /\ new.state \in {"browsing", "answering"}
    BY <2>1 DEF SameRequest, AskedBy, AfterSearch
  <2> HIDE DEF new
  <2>4. AtWork(new) /\ new.state # "reconciling" /\ Becomes(r, new)
    BY <2>2, <2>3 DEF AtWork, new
  <2> QED BY <2>1, <2>3, <2>4, GoesOn, LockKept DEF TurnInv
<1>7. ASSUME NEW r \in Requests, Browse(r) PROVE TurnInv' /\ LockHeld'
  <2>1. /\ UNCHANGED <<lock, history>> /\ requests[r].state = "browsing" /\ r \in Working
        /\ AskedBy \subseteq DOMAIN requests[r]
    BY <1>7 DEF Browse, indexVars, TurnInv, Shaped, Working
  <2>2. PICK web : Becomes(r, [requests[r] EXCEPT !.web = web, !.state = "answering"])
    BY <1>7 DEF Browse
  <2> DEFINE new == [requests[r] EXCEPT !.web = web, !.state = "answering"]
  <2>3. SameRequest(requests[r], new) /\ new.state = "answering"
    BY <2>1 DEF SameRequest, AskedBy
  <2> HIDE DEF new
  <2>4. AtWork(new) /\ new.state # "reconciling" /\ Becomes(r, new)
    BY <2>2, <2>3 DEF AtWork, new
  <2> QED BY <2>1, <2>3, <2>4, GoesOn, LockKept DEF TurnInv
<1>8. ASSUME NEW r \in Requests, Answer(r) PROVE TurnInv' /\ LockHeld'
  <2>1. UNCHANGED lock /\ requests[r].state = "answering"
    BY <1>8 DEF Answer, indexVars
  <2>2. \E outcome, response : Becomes(r, Over(requests[r], outcome, response))
    BY <1>8 DEF Answer, Stores
  <2>3. \A outcome, response : Over(requests[r], outcome, response).state = "over"
    BY DEF Over
  <2> QED BY <1>8, <2>1, <2>2, <2>3, AnswerKeeps, LockKept DEF TurnInv
<1>9. ASSUME NEW r \in Requests, ModelFails(r) \/ BrowseFails(r) \/ Disconnect(r)
      PROVE  TurnInv' /\ LockHeld'
  BY <1>9, EndKeeps DEF ModelFails, BrowseFails, Disconnect
<1>10. CASE Process
  <2>1. UNCHANGED <<requests, history>>
    BY <1>10 DEF Process
  <2>2. lock \notin Requests /\ lock' \notin Requests
    <3>1. ASSUME NEW t \in Tasks \ Requests, Begin(t) \/ StorePage(t)
          PROVE  lock \notin Requests /\ lock' \notin Requests
      BY <3>1, LockAfter, RequestTasks
    <3> QED BY <1>10, <3>1, RequestTasks DEF Process, Abandon
  <2> QED BY <2>1, <2>2, OthersKeep DEF TurnInv, Shaped, SameRequest
<1>11. CASE Change
  <2>1. UNCHANGED <<lock, history>>
    BY <1>11 DEF Change, ChangeEligible
  <2>2. DOMAIN requests' = Requests
    BY <1>11 DEF Change
  <2>3. ASSUME NEW r \in Requests
        PROVE  /\ requests'[r].state = requests[r].state
               /\ requests[r].state = "over" => requests'[r] = requests[r]
               /\ requests[r].state # "unsent" => SameRequest(requests[r], requests'[r])
    <3>1. CASE requests'[r] = requests[r]
      BY <3>1 DEF TurnInv, Shaped, SameRequest
    <3>2. CASE Searching(r) /\ requests'[r] = [requests[r] EXCEPT !.seen = @ \cup eligible',
                                                                 !.quiet = FALSE]
      <4>1. AskedBy \subseteq DOMAIN requests[r] /\ requests[r].state # "over"
        BY <3>2 DEF Searching, TurnInv, Shaped
      <4> QED BY <3>2, <4>1 DEF SameRequest, AskedBy
    <3> QED BY <1>11, <3>1, <3>2 DEF Change
  <2> QED BY <2>1, <2>2, <2>3, OthersKeep
<1>12. CASE Narrate
  <2>1. UNCHANGED <<requests, history, lock>>
    BY <1>12 DEF Narrate, indexVars
  <2> QED BY <2>1, OthersKeep DEF TurnInv, Shaped, SameRequest
<1> QED BY <1>1, <1>2, <1>3, <1>4, <1>5, <1>6, <1>7, <1>8, <1>9, <1>10, <1>11, <1>12
        DEF ChatNext

LEMMA TurnStarts == ChatInit => TurnInv /\ LockHeld
BY RequestTasks DEF ChatInit, Init, Unsent, TurnInv, Shaped, Exclusive, TurnAnsweredOnce,
                    LockHeld, Working

\* However requests of one turn are repeated, meet, fail and lose their clients, what
\* they are told is one stored answer.
THEOREM TurnsAnsweredOnce == ChatSpec => []TurnAnsweredOnce
<1>1. TurnInv /\ LockHeld /\ [ChatNext]_chatVars => TurnInv' /\ LockHeld'
  BY TurnStep
<1>2. TurnInv => TurnAnsweredOnce
  BY DEF TurnInv
<1> QED BY TurnStarts, <1>1, <1>2, PTL DEF ChatSpec

-----------------------------------------------------------------------------
(* What is stored holds *)

\* What the answer relies on of a plan.
SoundPlan(plan) ==
  /\ plan.route \in DOMAIN ValidTools
  /\ "S" \in plan.tools => plan.route \in {"quantitative", "mixed"}
  /\ plan.mode \in Modes
  /\ plan.mode # "semantic" => "R" \in plan.tools

LEMMA PlanFields ==
  ASSUME NEW plan \in Plans
  PROVE  /\ DOMAIN plan = {"route", "tools", "template", "mode"}
         /\ plan.route \in DOMAIN ValidTools /\ plan.tools \in ValidTools[plan.route]
         /\ plan.mode \in Modes
         /\ plan.mode # "semantic" => "R" \in plan.tools
<1>1. PICK route \in DOMAIN ValidTools : plan \in UNION {PlansOf(route, tools) : tools \in ValidTools[route]}
  BY DEF Plans
<1>2. PICK tools \in ValidTools[route] : plan \in PlansOf(route, tools)
  BY <1>1
<1> HIDE DEF ValidTools
<1>3. /\ DOMAIN plan = {"route", "tools", "template", "mode"}
      /\ plan.route = route /\ plan.tools = tools
      /\ plan.mode \in Modes
      /\ plan.mode # "semantic" => "R" \in plan.tools
  BY <1>2 DEF PlansOf, Modes
<1> QED BY <1>1, <1>2, <1>3

\* Every plan that is carried out is sound, however the question corrects it.
LEMMA PlansAreSound ==
  ASSUME NEW p \in Plans, NEW q, Corrected(p, q) # None
  PROVE  SoundPlan(Corrected(p, q))
<1> DEFINE moved == p.route = "conversation" /\ q.sourced
           taken == IF moved THEN [p EXCEPT !.route = "web", !.tools = {"W"}] ELSE p
           trusted == taken.route \notin {"conversation", "web"}
<1>1. /\ DOMAIN p = {"route", "tools", "template", "mode"} /\ p.mode \in Modes
      /\ p.mode # "semantic" => "R" \in p.tools
  BY PlanFields
<1>0. /\ DOMAIN ValidTools = {"conversation", "quantitative", "content", "web", "mixed"}
      /\ \A tools \in ValidTools["conversation"] : tools = {}
      /\ \A tools \in ValidTools["content"] \cup ValidTools["web"] : "S" \notin tools
      /\ p.route \in DOMAIN ValidTools /\ p.tools \in ValidTools[p.route]
  <2>1. ValidTools["conversation"] = {{}} /\ ValidTools["content"] = {{"R"}, {"I"}}
        /\ ValidTools["web"] = {{"W"}}
        /\ DOMAIN ValidTools = {"conversation", "quantitative", "content", "web", "mixed"}
    BY DEF ValidTools
  <2>2. p.route \in DOMAIN ValidTools /\ p.tools \in ValidTools[p.route]
    BY PlanFields
  <2> QED BY <2>1, <2>2
<1>2. /\ p.route = "conversation" => p.tools = {}
      /\ "S" \in p.tools => p.route \in {"quantitative", "mixed"}
  BY <1>0
<1>3. SoundPlan(taken) /\ DOMAIN taken = {"route", "tools", "template", "mode"}
  BY <1>1, <1>2, <1>0 DEF SoundPlan
<1> HIDE DEF taken
<1>4. CASE trusted /\ RouteOf(q) = "quantitative"
  <2>1. Corrected(p, q) = [route |-> "quantitative", tools |-> {"S"}, template |-> q.template,
                           mode |-> "semantic"]
    BY <1>4 DEF Corrected, taken
  <2> QED BY <1>0, <2>1 DEF SoundPlan, Modes
<1>5. CASE trusted /\ RouteOf(q) = "mixed"
  <2> DEFINE mixed == [taken EXCEPT !.route = "mixed", !.tools = @ \cup {"S"},
                                    !.template = q.template]
  <2>1. Corrected(p, q) = mixed
    BY <1>5 DEF Corrected, taken
  <2>2. mixed.route = "mixed" /\ mixed.tools = taken.tools \cup {"S"} /\ mixed.mode = taken.mode
    BY <1>3
  <2> QED BY <1>0, <1>3, <2>1, <2>2 DEF SoundPlan
<1>6. CASE ~trusted \/ RouteOf(q) \notin {"quantitative", "mixed"}
  <2>1. Corrected(p, q) = taken
    BY <1>6 DEF Corrected, taken
  <2> QED BY <1>3, <2>1
<1> QED BY <1>4, <1>5, <1>6

\* A search by the text finds mail of the index it reads.
LEMMA FoundInIndex ==
  ASSUME NEW mode \in Modes \ {"semantic"}, NEW mail
  PROVE  Found(mode, mail) \subseteq mail
<1>1. PerCompany(mail) \subseteq mail
  BY DEF PerCompany, Newest, Mentioning
<1>2. Mentioning(mail) \subseteq mail /\ LatestOf(mail) \subseteq mail
  BY DEF Mentioning, LatestOf, Newest
<1> QED BY <1>1, <1>2 DEF Found, Modes

WorkFields == AskedBy \cup {"plan", "rows", "read", "web", "found", "seen", "quiet"}

Before == {"waiting", "planning"}
NotSearched == {"retrieving", "reconciling", "embedding"}

\* What a request has found is backed by the mail that was eligible while it searched.
Backed(request) ==
  /\ WorkFields \subseteq DOMAIN request
  /\ request.state \in Before \cup NotSearched => request.found = {}
  /\ request.state \notin Before =>
       /\ SoundPlan(request.plan)
       /\ request.rows # "none" => "S" \in request.plan.tools /\ request.plan.template # "metric"
  /\ request.state = "reconciling" =>
       /\ eligible \cup work.draft \cup work.pending \subseteq request.seen
       /\ request.quiet => request.seen = eligible /\ work.seen = eligible
  /\ request.state = "embedding" =>
       /\ request.plan.mode = "semantic"
       /\ index \cup eligible \subseteq request.seen
       /\ lock # Free => work.draft \cup work.pending \subseteq request.seen
  /\ request.found \subseteq request.seen /\ request.seen \subseteq Mail
  /\ request.state \notin Before \cup NotSearched /\ request.plan.mode # "semantic" /\ request.quiet =>
       request.found = Found(request.plan.mode, request.seen)

AtAll(request) == request.state \notin {"unsent", "over"}
AllBacked == \A r \in Requests : AtAll(requests[r]) => Backed(requests[r])

AnswerInv == TurnInv /\ LockHeld /\ IndexInv /\ AllBacked

-----------------------------------------------------------------------------
\* Only one message is the newest.
LEMMA NewestIsOne ==
  ASSUME NEW mail \in SUBSET Mail, NEW e \in Newest(mail), NEW f \in Newest(mail)
  PROVE  e = f
<1>1. e \in Nat /\ f \in Nat /\ e <= f /\ f <= e
  BY IndexConstants DEF Newest
<1> QED BY <1>1

\* The response to a request that is backed is supported by what was eligible.
LEMMA ResponseSupported ==
  ASSUME NEW r, NEW request, Backed(request), request.state = "answering",
         NEW mail \in MailCited(request), NEW web \in WebCited(request)
  PROVE  Supported(request, Response(r, request, mail, web))
<1> DEFINE response == Response(r, request, mail, web)
           S == "S" \in request.plan.tools
           metric == request.plan.template = "metric"
<1>1. /\ request.found \subseteq request.seen /\ request.seen \subseteq Mail
      /\ SoundPlan(request.plan)
      /\ request.rows # "none" => S /\ ~metric
      /\ request.plan.mode # "semantic" /\ request.quiet =>
           request.found = Found(request.plan.mode, request.seen)
  BY DEF Backed, Before, NotSearched
<1>2. /\ response.mail = mail /\ response.kind = KindOf(request, mail, web)
      /\ response.route = request.plan.route
      /\ response.others = IF Filtered(request.plan) THEN Mentioned(request, web)
                           ELSE Collected(request)
  BY DEF Response
<1> HIDE DEF response
<1>3. /\ mail \subseteq request.found
      /\ request.plan.mode \in Exhaustive => mail = request.found
  BY DEF MailCited
<1>4. ASSUME request.quiet, request.plan.mode # "semantic"
      PROVE  mail \in {Found(request.plan.mode, request.seen)}
                        \cup (IF request.plan.mode = "latest" THEN {{}} ELSE {})
  <2>1. CASE request.plan.mode \in Exhaustive
    BY <1>1, <1>3, <1>4, <2>1
  <2>2. CASE request.plan.mode = "latest"
    <3>1. request.found = Newest({e \in request.seen \ Outbound : Company[e] = Asked})
      BY <1>1, <1>4, <2>2 DEF Found, LatestOf
    <3>2. \A e \in request.found, f \in request.found : e = f
      <4>1. {e \in request.seen \ Outbound : Company[e] = Asked} \in SUBSET Mail
        BY <1>1
      <4> QED BY <3>1, <4>1, NewestIsOne
    <3>3. mail = {} \/ mail = request.found
      BY <1>3, <3>2
    <3> QED BY <1>1, <1>4, <2>2, <3>3
  <2> QED BY <1>1, <1>4, <2>1, <2>2 DEF SoundPlan, Modes, Exhaustive
<1>5. ASSUME response.kind = "grounded", response.route # "quantitative",
             ~(response.route = "mixed" /\ ~metric /\ request.rows # "waiting")
      PROVE  mail # {} \/ response.others # {}
  <2>1. /\ "metric" \in Collected(request) <=> S /\ metric
        /\ "application" \in Collected(request) <=> request.rows # "none"
        /\ "insight" \in Collected(request) <=> request.read = "cited"
        /\ "web" \in Collected(request) <=> request.web
        /\ Collected(request) \subseteq {"metric", "application", "insight", "web"}
    BY DEF Collected
  <2>2. /\ "metric" \in Mentioned(request, web) <=> "metric" \in Collected(request)
        /\ "insight" \in Mentioned(request, web) <=>
             "insight" \in Collected(request) /\ ~Written(request)
        /\ "web" \in Mentioned(request, web) <=> "web" \in Collected(request) /\ web
        /\ "application" \in Mentioned(request, web) <=> request.rows = "waiting"
    BY <2>1 DEF Mentioned
  <2>3. S => metric \/ request.rows = "waiting"
    BY <1>1, <1>2, <1>5 DEF SoundPlan
  <2>4. CASE S
    <3>1. "metric" \in response.others \/ "application" \in response.others
      BY <1>2, <2>1, <2>2, <2>3, <2>4
    <3> QED BY <3>1
  <2>5. CASE ~S /\ Listed(request)
    BY <1>3, <2>5 DEF Listed
  <2>6. CASE ~S /\ ~Listed(request) /\ Written(request)
    <3>1. ~(IF request.found # {} THEN mail = {} ELSE ~web)
      BY <1>2, <1>5, <2>6 DEF KindOf
    <3>2. CASE request.found # {}
      BY <3>1, <3>2
    <3>3. CASE request.found = {} /\ web
      <4>1. request.web
        BY <2>6, <3>3 DEF Written
      <4>2. "web" \in response.others
        BY <1>2, <2>1, <2>2, <3>3, <4>1
      <4> QED BY <4>2
    <3> QED BY <3>1, <3>2, <3>3
  <2>7. CASE ~S /\ ~Listed(request) /\ ~Written(request)
    <3>1. ~request.web /\ request.rows = "none"
      BY <1>1, <2>7 DEF Written
    <3>2. request.plan.route \in {"content", "web", "mixed"} => Collected(request) # {}
      BY <1>2, <1>5, <2>7 DEF KindOf
    <3>3. CASE request.plan.route \in {"content", "web", "mixed"}
      <4>1. "insight" \in Collected(request)
        BY <2>1, <2>7, <3>1, <3>2, <3>3
      <4>2. "insight" \in response.others
        BY <1>2, <2>2, <2>7, <4>1
      <4> QED BY <4>2
    <3>4. CASE request.plan.route = "conversation"
      BY <1>2, <1>5, <3>4 DEF KindOf
    <3> QED BY <1>1, <1>2, <1>5, <3>3, <3>4 DEF SoundPlan, ValidTools
  <2> QED BY <2>4, <2>5, <2>6, <2>7
<1> QED BY <1>1, <1>2, <1>3, <1>4, <1>5 DEF Supported, response

-----------------------------------------------------------------------------
\* What a step of a reconciliation writes is mail that was indexed or is eligible.
LEMMA ContinueWithin ==
  ASSUME NEW S, NEW t \in Tasks, NEW seen, NEW indexed, NEW from, NEW dirty,
         Continue(t, seen, indexed, from, dirty),
         eligible \subseteq S, indexed \subseteq S
  PROVE  /\ lock' = Free => index' = indexed
         /\ lock' # Free => /\ index' = index /\ work'.seen = seen
                            /\ work'.draft \cup work'.pending \subseteq S
<1> DEFINE missing == Missing(from, Cardinality(seen), indexed)
<1>1. missing \subseteq S
  BY DEF Missing
<1>2. CASE index' = indexed /\ lock' = Free
  BY <1>2
<1>3. ASSUME NEW e \in missing, lock' = t, UNCHANGED index,
             work' = [seen |-> seen, draft |-> indexed, dirty |-> dirty,
                      page |-> PageOf(e, eligible),
                      pending |-> {f \in missing :
                                     PageOf(f, eligible) = PageOf(e, eligible)}]
      PROVE  lock' # Free /\ index' = index /\ work'.seen = seen
             /\ work'.draft \cup work'.pending \subseteq S
  BY <1>1, <1>3, IndexConstants
<1> QED BY <1>2, <1>3, Zenon DEF Continue

\* A reconciliation of any task leaves only such mail in the index.
LEMMA IndexWithin ==
  ASSUME NEW S, [Next]_vars, UNCHANGED eligible, index \cup eligible \subseteq S,
         lock # Free => work.draft \cup work.pending \subseteq S
  PROVE  /\ index' \cup eligible' \subseteq S
         /\ lock' # Free => work'.draft \cup work'.pending \subseteq S
<1>1. ASSUME NEW t \in Tasks, Begin(t)
      PROVE  index' \subseteq S /\ (lock' # Free => work'.draft \cup work'.pending \subseteq S)
  <2>1. PICK seen, indexed, dirty : Continue(t, seen, indexed, 0, dirty) /\ indexed \subseteq S
    BY <1>1 DEF Begin
  <2>2. /\ lock' = Free => index' = indexed
        /\ lock' # Free => index' = index /\ work'.draft \cup work'.pending \subseteq S
    BY <2>1, ContinueWithin
  <2> QED BY <2>1, <2>2
<1>2. ASSUME NEW t \in Tasks, StorePage(t)
      PROVE  index' \subseteq S /\ (lock' # Free => work'.draft \cup work'.pending \subseteq S)
  <2>1. PICK seen, indexed, from : Continue(t, seen, indexed, from, TRUE) /\ indexed \subseteq S
    BY <1>2, IndexConstants DEF StorePage
  <2>2. /\ lock' = Free => index' = indexed
        /\ lock' # Free => index' = index /\ work'.draft \cup work'.pending \subseteq S
    BY <2>1, ContinueWithin
  <2> QED BY <2>1, <2>2
<1>3. CASE Abandon
  BY <1>3 DEF Abandon
<1>4. CASE UNCHANGED vars \/ ChangeEligible
  BY <1>4 DEF vars, ChangeEligible
<1> QED BY <1>1, <1>2, <1>3, <1>4 DEF Next

\* A request stays backed while the others reconcile.
LEMMA StaysBacked ==
  ASSUME NEW request, Backed(request),
         \/ UNCHANGED <<eligible, index, lock, work>>
         \/ [Next]_vars /\ UNCHANGED eligible /\ request.state # "reconciling"
         \/ request.state \notin {"reconciling", "embedding"}
  PROVE  Backed(request)'
<1>1. CASE UNCHANGED <<eligible, index, lock, work>>
  BY <1>1 DEF Backed
<1>2. CASE [Next]_vars /\ UNCHANGED eligible /\ request.state = "embedding"
  <2>1. /\ index' \cup eligible' \subseteq request.seen
        /\ lock' # Free => work'.draft \cup work'.pending \subseteq request.seen
    BY <1>2, IndexWithin DEF Backed
  <2> QED BY <1>2, <2>1 DEF Backed
<1>3. CASE request.state \notin {"reconciling", "embedding"}
  BY <1>3 DEF Backed
<1> QED BY <1>1, <1>2, <1>3

\* One request moves: the others stay backed.
LEMMA OneBacked ==
  ASSUME TurnInv, LockHeld, AllBacked, NEW r \in Requests, NEW new, Becomes(r, new),
         AtAll(new) => Backed(new)',
         \/ UNCHANGED indexVars
         \/ [Next]_vars /\ UNCHANGED eligible /\ lock \in {r, Free}
  PROVE  AllBacked'
<1>1. requests'[r] = new /\ \A p \in Requests : p # r => requests'[p] = requests[p]
  BY OneBecomes DEF TurnInv
<1>2. ASSUME NEW p \in Requests, p # r, AtAll(requests[p])
      PROVE  Backed(requests[p])'
  <2>1. PICK request : request = requests[p] /\ request = requests'[p]
    BY <1>1, <1>2
  <2>2. Backed(request)
    BY <1>2, <2>1 DEF AllBacked
  <2>3. UNCHANGED indexVars \/ request.state # "reconciling"
    BY <1>2, <2>1, RequestTasks DEF LockHeld
  <2>4. Backed(request)'
    BY <2>2, <2>3, StaysBacked DEF indexVars
  <2> QED BY <2>1, <2>4
<1> QED BY <1>1, <1>2 DEF AllBacked, AtAll

\* What a request becomes when its reconciliation goes on or has committed.
LEMMA SearchedBacked ==
  ASSUME NEW request, WorkFields \subseteq DOMAIN request, request.found = {},
         SoundPlan(request.plan),
         request.rows # "none" => "S" \in request.plan.tools /\ request.plan.template # "metric",
         request.seen \subseteq Mail, eligible' \subseteq request.seen,
         NEW new,
         IF lock' = Free
         THEN /\ new = Searched(request, index') /\ index' \subseteq request.seen
              /\ request.quiet => index' = request.seen
         ELSE /\ new = [request EXCEPT !.state = "reconciling"]
              /\ work'.draft \cup work'.pending \subseteq request.seen
              /\ request.quiet => request.seen = eligible' /\ work'.seen = eligible'
  PROVE  Backed(new)'
<1>0. {"state", "plan", "rows", "web", "found", "seen", "quiet"} \subseteq DOMAIN request
  BY DEF WorkFields, AskedBy
<1>1. CASE lock' # Free
  <2>1. /\ DOMAIN new = DOMAIN request /\ new.state = "reconciling"
        /\ new.found = request.found /\ new.plan = request.plan /\ new.rows = request.rows
        /\ new.seen = request.seen /\ new.quiet = request.quiet
    BY <1>0, <1>1
  <2> QED BY <1>1, <2>1 DEF Backed, Before, NotSearched
<1>2. CASE lock' = Free /\ request.plan.mode = "semantic"
  <2>1. new = [request EXCEPT !.state = "embedding"]
    BY <1>2 DEF Searched
  <2>2. /\ DOMAIN new = DOMAIN request /\ new.state = "embedding"
        /\ new.found = request.found /\ new.plan = request.plan /\ new.rows = request.rows
        /\ new.seen = request.seen /\ new.quiet = request.quiet
    BY <1>0, <2>1
  <2> QED BY <1>2, <2>2 DEF Backed, Before, NotSearched
<1>3. CASE lock' = Free /\ request.plan.mode # "semantic"
  <2>1. PICK indexed : indexed = index'
    OBVIOUS
  <2> DEFINE found == Found(request.plan.mode, indexed)
             state == AfterSearch(request.plan)
  <2>2. state \in {"browsing", "answering"}
    BY DEF AfterSearch
  <2>3. request.plan.mode \in Modes \ {"semantic"}
    BY <1>3 DEF SoundPlan
  <2>4. found \subseteq indexed
    BY <2>3, FoundInIndex
  <2>5. new = [request EXCEPT !.found = found, !.state = state]
    BY <1>3, <2>1 DEF Searched
  <2>6. request.quiet => found = Found(request.plan.mode, request.seen)
    BY <1>3, <2>1
  <2> HIDE DEF found, state
  <2>7. /\ DOMAIN new = DOMAIN request /\ new.state = state
        /\ new.found = found /\ new.plan = request.plan /\ new.rows = request.rows
        /\ new.seen = request.seen /\ new.quiet = request.quiet
    BY <1>0, <2>5
  <2>8. found \subseteq request.seen
    BY <1>3, <2>1, <2>4
  <2> QED BY <2>2, <2>6, <2>7, <2>8 DEF Backed, Before, NotSearched
<1> QED BY <1>1, <1>2, <1>3

\* A search reads the index when it has just been made exact for what was eligible.
LEMMA SearchBacked ==
  ASSUME AnswerInv, NEW r \in Requests, BeginSearch(r) \/ StoreSearch(r)
  PROVE  AllBacked'
<1>1. r \in Tasks /\ lock \in {r, Free} /\ UNCHANGED eligible /\ Next
  BY RequestTasks, LockAfter, ChatRefinesIndexStep
     DEF BeginSearch, StoreSearch, Begin, StorePage, Next
<1>2. Commits(eligible) => index' = eligible
  BY <1>1, IndexStep DEF AnswerInv
<1>3. Backed(requests[r]) /\ requests[r].state \in {"retrieving", "reconciling"}
  BY DEF AnswerInv, AllBacked, AtAll, BeginSearch, StoreSearch, StorePage, LockHeld
<1>4. eligible \subseteq Mail
  BY DEF AnswerInv, IndexInv, TypeOK
<1>5. PICK request, new :
        /\ Becomes(r, new) /\ WorkFields \subseteq DOMAIN request
        /\ request.found = {} /\ request.plan = requests[r].plan
        /\ request.rows = requests[r].rows
        /\ request.seen \subseteq Mail /\ eligible' \subseteq request.seen
        /\ IF lock' = Free
           THEN /\ new = Searched(request, index') /\ index' \subseteq request.seen
                /\ request.quiet => index' = request.seen
           ELSE /\ new = [request EXCEPT !.state = "reconciling"]
                /\ work'.draft \cup work'.pending \subseteq request.seen
                /\ request.quiet => request.seen = eligible' /\ work'.seen = eligible'
  <2>1. CASE BeginSearch(r)
    <3>1. PICK request : /\ request = [requests[r] EXCEPT !.seen = eligible]
                         /\ Reconciled(r, request) /\ Begin(r)
      BY <2>1 DEF BeginSearch
    <3>2. /\ DOMAIN request = DOMAIN requests[r] /\ request.seen = eligible
          /\ request.found = requests[r].found /\ request.plan = requests[r].plan
          /\ request.rows = requests[r].rows
      BY <1>3, <3>1 DEF Backed, WorkFields
    <3>3. requests[r].found = {} /\ WorkFields \subseteq DOMAIN requests[r]
      BY <1>3 DEF Backed, NotSearched
    <3>4. PICK indexed, dirty : /\ Continue(r, eligible, indexed, 0, dirty)
                                /\ indexed \subseteq eligible
      BY <3>1 DEF Begin
    <3>5. /\ lock' = Free => index' = indexed
          /\ lock' # Free => work'.seen = eligible /\ work'.draft \cup work'.pending \subseteq eligible
      BY <1>1, <3>4, ContinueWithin
    <3>6. lock' = Free => index' = eligible
      BY <1>1, <1>2, <3>1 DEF Commits
    <3>7. PICK new : /\ Becomes(r, new)
                     /\ new = IF lock' = Free THEN Searched(request, index')
                              ELSE [request EXCEPT !.state = "reconciling"]
      BY <3>1 DEF Reconciled
    <3> QED BY <1>1, <1>4, <3>2, <3>3, <3>5, <3>6, <3>7
  <2>2. CASE StoreSearch(r)
    <3>1. PICK request : request = requests[r] /\ Reconciled(r, request) /\ StorePage(r)
      BY <2>2 DEF StoreSearch
    <3>2. requests[r].state = "reconciling" /\ lock = r
      BY <3>1 DEF StorePage, AnswerInv, LockHeld
    <3>3. /\ WorkFields \subseteq DOMAIN request /\ request.found = {}
          /\ request.seen \subseteq Mail
          /\ eligible \cup work.draft \cup work.pending \subseteq request.seen
          /\ request.quiet => request.seen = eligible /\ work.seen = eligible
      BY <1>3, <3>1, <3>2 DEF Backed, NotSearched
    <3>4. PICK seen, indexed, from : /\ Continue(r, seen, indexed, from, TRUE)
                                     /\ seen = work.seen
                                     /\ indexed = work.draft \cup work.pending
      BY <3>1 DEF StorePage
    <3> DEFINE S == request.seen
    <3>a. eligible \subseteq S /\ indexed \subseteq S
      BY <3>3, <3>4
    <3> HIDE DEF S
    <3>5. /\ lock' = Free => index' = indexed
          /\ lock' # Free => work'.seen = seen /\ work'.draft \cup work'.pending \subseteq S
      <4>1. r \in Tasks /\ Continue(r, seen, indexed, from, TRUE)
        BY <1>1, <3>4
      <4> QED BY <4>1, <3>a, ContinueWithin
    <3>6. lock' = Free /\ work.seen = eligible => index' = eligible
      BY <1>1, <1>2, <3>1 DEF Commits
    <3>7. PICK new : /\ Becomes(r, new)
                     /\ new = IF lock' = Free THEN Searched(request, index')
                              ELSE [request EXCEPT !.state = "reconciling"]
      BY <3>1 DEF Reconciled
    <3> QED BY <1>1, <3>1, <3>3, <3>4, <3>5, <3>6, <3>7 DEF S
  <2> QED BY <2>1, <2>2
<1>6. /\ SoundPlan(request.plan)
      /\ request.rows # "none" => "S" \in request.plan.tools /\ request.plan.template # "metric"
  BY <1>3, <1>5 DEF Backed, Before
<1>7. Backed(new)'
  BY <1>5, <1>6, SearchedBacked
<1> QED BY <1>1, <1>5, <1>7, OneBacked DEF AnswerInv

LEMMA BackedStep ==
  ASSUME AnswerInv, [ChatNext]_chatVars
  PROVE  AllBacked'
<1> USE DEF AnswerInv
<1>1. CASE UNCHANGED <<requests, indexVars>>
  <2>1. ASSUME NEW r \in Requests, AtAll(requests'[r]) PROVE Backed(requests[r])'
    <3>1. PICK request : request = requests[r] /\ request = requests'[r]
      BY <1>1
    <3>2. Backed(request)
      BY <2>1, <3>1 DEF AllBacked
    <3>3. Backed(request)'
      BY <1>1, <3>2, StaysBacked DEF indexVars
    <3> QED BY <3>1, <3>3
  <2> QED BY <2>1 DEF AllBacked, AtAll
<1>2. ASSUME NEW r \in Requests, Post(r) PROVE AllBacked'
  <2>1. PICK turn, q, given, new : new = Sent(turn, q, given) /\ Becomes(r, new)
    BY <1>2 DEF Post
  <2>2. /\ DOMAIN new = WorkFields /\ new.state = "waiting" /\ new.found = {}
        /\ new.seen = {}
    BY <2>1 DEF Sent, WorkFields, AskedBy
  <2>3. Backed(new)'
    BY <2>2 DEF Backed, Before, NotSearched
  <2> QED BY <1>2, <2>1, <2>3, OneBacked DEF Post
\* What a request that is over was backed by does not matter.
<1>3. ASSUME NEW r \in Requests, NEW outcome, NEW response,
             Becomes(r, Over(requests[r], outcome, response)),
             \/ UNCHANGED indexVars
             \/ Abandon /\ lock = r
      PROVE  AllBacked'
  <2>1. PICK new : new = Over(requests[r], outcome, response) /\ Becomes(r, new)
    BY <1>3
  <2>2. ~AtAll(new)
    BY <2>1 DEF AtAll, Over
  <2>3. UNCHANGED indexVars \/ ([Next]_vars /\ UNCHANGED eligible /\ lock \in {r, Free})
    BY <1>3 DEF Abandon, Next
  <2> QED BY <2>1, <2>2, <2>3, OneBacked
<1>4. ASSUME NEW r \in Requests, Enter(r) PROVE AllBacked'
  <2>1. requests[r].state = "waiting" /\ UNCHANGED indexVars
    BY <1>4 DEF Enter
  <2>2. CASE Becomes(r, [requests[r] EXCEPT !.state = "planning"])
    <3>1. PICK request, new : /\ request = requests[r] /\ Becomes(r, new)
                              /\ new = [request EXCEPT !.state = "planning"]
      BY <2>2
    <3>2. Backed(request) /\ request.state = "waiting"
      BY <2>1, <3>1 DEF AllBacked, AtAll
    <3>3. /\ DOMAIN new = DOMAIN request /\ new.state = "planning"
          /\ new.found = request.found /\ new.seen = request.seen
      BY <3>1, <3>2 DEF Backed, WorkFields, AskedBy
    <3>4. Backed(new)'
      BY <3>2, <3>3 DEF Backed, Before, NotSearched
    <3> QED BY <2>1, <3>1, <3>4, OneBacked
  <2> QED BY <1>3, <1>4, <2>1, <2>2 DEF Enter
<1>5. ASSUME NEW r \in Requests, Plan(r) PROVE AllBacked'
  <2>1. requests[r].state = "planning" /\ UNCHANGED indexVars
    BY <1>5 DEF Plan
  <2>2. PICK p, plan :
          /\ p \in Plans /\ plan = Corrected(p, requests[r].question)
          /\ IF plan = None THEN Becomes(r, Over(requests[r], "llm_provider_failed", None))
             ELSE \E rows \in RowsOf(plan) :
                    Becomes(r, [requests[r] EXCEPT
                      !.state = IF "R" \in plan.tools THEN "retrieving" ELSE AfterSearch(plan),
                      !.plan = plan, !.rows = rows,
                      !.read = IF "I" \in plan.tools THEN Reading ELSE "unused"])
    BY <1>5 DEF Plan
  <2>3. CASE plan # None
    <3>a. PICK state : state = IF "R" \in plan.tools THEN "retrieving" ELSE AfterSearch(plan)
      OBVIOUS
    <3>b. PICK request, read : /\ request = requests[r]
                               /\ read = IF "I" \in plan.tools THEN Reading ELSE "unused"
      OBVIOUS
    <3>c. PICK rows, new :
            /\ rows \in RowsOf(plan) /\ Becomes(r, new)
            /\ new = [request EXCEPT !.state = state, !.plan = plan, !.rows = rows,
                                      !.read = read]
      BY <2>2, <2>3, <3>a, <3>b
    <3>1. rows # "none" => "S" \in plan.tools /\ plan.template # "metric"
      BY <3>c DEF RowsOf
    <3>2. Backed(request) /\ request.state = "planning"
      BY <2>1, <3>b DEF AllBacked, AtAll
    <3>3. SoundPlan(plan)
      BY <2>2, <2>3, PlansAreSound
    <3>4. /\ state \in {"retrieving", "browsing", "answering"}
          /\ state # "retrieving" => plan.mode = "semantic"
      BY <3>a, <3>3 DEF AfterSearch, SoundPlan
    <3>5. /\ DOMAIN new = DOMAIN request /\ new.state = state /\ new.plan = plan
          /\ new.rows = rows
          /\ new.found = request.found /\ new.seen = request.seen
      BY <3>2, <3>c DEF Backed, WorkFields, AskedBy
    <3>6. request.found = {} /\ WorkFields \subseteq DOMAIN request /\ request.seen \subseteq Mail
      BY <3>2 DEF Backed, Before
    <3>7. Backed(new)'
      BY <3>1, <3>3, <3>4, <3>5, <3>6 DEF Backed, Before, NotSearched
    <3> QED BY <2>1, <3>c, <3>7, OneBacked
  <2> QED BY <1>3, <2>1, <2>2, <2>3
<1>6. ASSUME NEW r \in Requests, Search(r) PROVE AllBacked'
  <2>1. requests[r].state = "embedding" /\ UNCHANGED indexVars
    BY <1>6 DEF Search
  <2>a. PICK request, state : request = requests[r] /\ state = AfterSearch(requests[r].plan)
    OBVIOUS
  <2>2. PICK found, new :
          /\ found \in SUBSET index /\ Becomes(r, new)
          /\ request = requests[r] /\ state = AfterSearch(request.plan)
          /\ new = [request EXCEPT !.found = found, !.state = state]
    BY <1>6, <2>a DEF Search
  <2>3. Backed(request) /\ request.state = "embedding" /\ state \in {"browsing", "answering"}
    BY <2>1, <2>2 DEF AllBacked, AtAll, AfterSearch
  <2>4. /\ DOMAIN new = DOMAIN request /\ new.state = state /\ new.plan = request.plan
        /\ new.rows = request.rows /\ new.found = found /\ new.seen = request.seen
    BY <2>2, <2>3 DEF Backed, WorkFields, AskedBy
  <2>5. Backed(new)'
    BY <2>2, <2>3, <2>4 DEF Backed, Before, NotSearched
  <2> QED BY <2>1, <2>2, <2>5, OneBacked
<1>7. ASSUME NEW r \in Requests, Browse(r) PROVE AllBacked'
  <2>1. requests[r].state = "browsing" /\ UNCHANGED indexVars
    BY <1>7 DEF Browse
  <2>2. PICK request, new, web :
          /\ request = requests[r] /\ Becomes(r, new)
          /\ new = [request EXCEPT !.web = web, !.state = "answering"]
    BY <1>7 DEF Browse
  <2>3. Backed(request) /\ request.state = "browsing"
    BY <2>1, <2>2 DEF AllBacked, AtAll
  <2>4. /\ DOMAIN new = DOMAIN request /\ new.state = "answering" /\ new.plan = request.plan
        /\ new.rows = request.rows /\ new.found = request.found /\ new.seen = request.seen
        /\ new.quiet = request.quiet
    BY <2>2, <2>3 DEF Backed, WorkFields, AskedBy
  <2>5. Backed(new)'
    BY <2>3, <2>4 DEF Backed, Before, NotSearched
  <2> QED BY <2>1, <2>2, <2>5, OneBacked
<1>8. ASSUME NEW r \in Requests, Answer(r) PROVE AllBacked'
  BY <1>3, <1>8 DEF Answer, Stores
<1>9. ASSUME NEW r \in Requests, ModelFails(r) \/ BrowseFails(r) \/ Disconnect(r)
      PROVE  AllBacked'
  BY <1>3, <1>9 DEF ModelFails, BrowseFails, Disconnect, Ends
<1>10. CASE Process
  <2>1. /\ UNCHANGED requests /\ [Next]_vars /\ UNCHANGED eligible
        /\ \A r \in Requests : requests[r].state # "reconciling"
    <3>1. lock \notin Requests
      BY <1>10, LockAfter, RequestTasks DEF Process
    <3> QED BY <1>10, <3>1, ChatRefinesIndexStep DEF Process, Begin, StorePage, Abandon, LockHeld
  <2>2. ASSUME NEW r \in Requests, AtAll(requests'[r]) PROVE Backed(requests[r])'
    <3>1. PICK request : request = requests[r] /\ request = requests'[r]
      BY <2>1
    <3>2. Backed(request) /\ request.state # "reconciling"
      BY <2>1, <2>2, <3>1 DEF AllBacked
    <3>3. Backed(request)'
      BY <2>1, <3>2, StaysBacked
    <3> QED BY <3>1, <3>3
  <2> QED BY <2>2 DEF AllBacked, AtAll
<1>11. CASE Change
  <2>1. UNCHANGED <<index, lock, work>> /\ eligible' \subseteq Mail
    BY <1>11 DEF Change, ChangeEligible
  <2>2. ASSUME NEW r \in Requests, AtAll(requests'[r]) PROVE Backed(requests[r])'
    <3>1. PICK request, new : request = requests[r] /\ new = requests'[r]
      OBVIOUS
    <3>2. CASE new = request /\ (eligible' = eligible \/ ~Searching(r))
      <4>1. Backed(request)
        BY <2>2, <3>1, <3>2 DEF AllBacked
      <4>2. Backed(request)'
        BY <2>1, <3>1, <3>2, <4>1, StaysBacked DEF Searching
      <4> QED BY <3>1, <3>2, <4>2
    <3>3. CASE Searching(r) /\ new = [request EXCEPT !.seen = @ \cup eligible', !.quiet = FALSE]
      <4>1. PICK mail : mail = request.seen \cup eligible'
        OBVIOUS
      <4>2. Backed(request) /\ request.state \in {"reconciling", "embedding"}
        BY <3>1, <3>3 DEF AllBacked, AtAll, Searching
      <4>3. new = [request EXCEPT !.seen = mail, !.quiet = FALSE]
        BY <3>3, <4>1, <4>2 DEF Backed, WorkFields
      <4>4. /\ DOMAIN new = DOMAIN request /\ new.state = request.state
            /\ new.plan = request.plan /\ new.rows = request.rows
            /\ new.found = request.found /\ new.seen = mail /\ new.quiet = FALSE
        BY <4>2, <4>3 DEF Backed, WorkFields, AskedBy
      <4>5. Backed(new)'
        BY <2>1, <4>1, <4>2, <4>4 DEF Backed, Before, NotSearched
      <4> QED BY <3>1, <4>5
    <3> QED BY <1>11, <3>1, <3>2, <3>3 DEF Change
  <2> QED BY <2>2 DEF AllBacked, AtAll
<1>12. CASE Narrate \/ UNCHANGED chatVars
  BY <1>1, <1>12 DEF Narrate, chatVars
<1> QED BY <1>2, <1>4, <1>5, <1>6, <1>7, <1>8, <1>9, <1>10, <1>11, <1>12, SearchBacked
        DEF ChatNext

LEMMA AnswerStarts == ChatInit => AnswerInv
<1>1. ChatInit => IndexInv
  BY DEF ChatInit, Init, IndexInv, TypeOK, PagesRead, DraftKeepsEligible, Idle, Work
<1>2. ChatInit => AllBacked
  BY DEF ChatInit, Unsent, AllBacked, AtAll
<1> QED BY <1>1, <1>2, TurnStarts DEF AnswerInv

LEMMA AnswerStep ==
  ASSUME AnswerInv, [ChatNext]_chatVars
  PROVE  AnswerInv'
BY TurnStep, BackedStep, ChatRefinesIndexStep, IndexStep DEF AnswerInv

\* The one step that stores a turn stores a response that is supported.
LEMMA StoresSupported ==
  ASSUME AnswerInv, [ChatNext]_chatVars, NEW t \in Turns, NEW response \in history'[t] \ history[t]
  PROVE  \E r \in Working : requests[r].turn = t /\ Supported(requests[r], response)
<1>1. PICK r \in Requests : Answer(r)
  BY DEF ChatNext, Post, Enter, Plan, BeginSearch, StoreSearch, Search, Browse, ModelFails,
         BrowseFails, Disconnect, Ends, Process, Change, Narrate, chatVars
<1>2. PICK request : request = requests[r]
  OBVIOUS
<1>3. /\ request.state = "answering" /\ r \in Working /\ Backed(request)
      /\ DOMAIN history = Turns
  BY <1>1, <1>2 DEF Answer, Working, AnswerInv, AllBacked, AtAll, TurnInv, Shaped
<1>4. PICK mail, web, stored :
        /\ mail \in MailCited(request) /\ web \in WebCited(request)
        /\ stored = Response(r, request, mail, web)
        /\ history' = [history EXCEPT ![request.turn] = {stored}]
  BY <1>1, <1>2 DEF Answer, Stores
<1>5. t = request.turn /\ response = stored
  BY <1>3, <1>4
<1>6. Supported(request, stored)
  BY <1>3, <1>4, ResponseSupported
<1> QED BY <1>2, <1>3, <1>5, <1>6

\* Whatever mail becomes eligible or ceases to be, and whoever else reconciles: what a
\* stored answer cites was eligible while it was searched, nothing that an exhaustive
\* answer should cite is missing, and a grounded answer cites something.
THEOREM StoredAnswersHold == ChatSpec => AnswersHold
<1>1. AnswerInv /\ [ChatNext]_chatVars => AnswerInv'
  BY AnswerStep
<1>2. AnswerInv /\ [ChatNext]_chatVars =>
        [\A t \in Turns : \A response \in history'[t] \ history[t] :
           \E r \in Working : requests[r].turn = t /\ Supported(requests[r], response)]_chatVars
  BY StoresSupported
<1> QED BY AnswerStarts, <1>1, <1>2, PTL DEF ChatSpec, AnswersHold
=============================================================================
