-------------------------------- MODULE Chat --------------------------------
(***************************************************************************)
(* Chat turns: ChatService and ChatGraph.  A turn is planned by the        *)
(* language model, corrected by the wording of the question, answered from *)
(* the tools it names, and stored in one transaction at its end; a request *)
(* that repeats a stored turn is answered from storage.  Requests of one   *)
(* turn wait for one another.  The search tool reconciles the index of     *)
(* ChatIndex first and the insight tool reads the cache of Insights.       *)
(***************************************************************************)
EXTENDS ChatIndex, Insights

CONSTANTS
  DefaultLimit,  \* max_evidence_items when none is given
  Requests,      \* POST /chat requests, each sent once
  Turns,         \* the turn ids of the clients
  Questions,     \* the wordings there are
  Mentions,      \* the mail an exhaustive search finds
  Company,       \* mail -> the company of its application, if it has one
  Asked,         \* the company that is asked about
  Outbound,      \* the mail the user sent
  None           \* no plan, no turn, no conversation, no company

Templates == {"metric", "live", "list"}
Modes == {"semantic", "latest", "exhaustive", "companies"}
Exhaustive == {"exhaustive", "companies"}

\* A question, by the groups of terms that occur in it, and the template it names.
Question == [quantitative: BOOLEAN, content: BOOLEAN, insight: BOOLEAN,
             explicit: BOOLEAN, sourced: BOOLEAN, template: Templates]

ASSUME ChatConstants ==
  /\ Requests \subseteq Tasks /\ Questions \subseteq Question
  /\ Mentions \subseteq Mail /\ Outbound \subseteq Mail /\ DOMAIN Company = Mail
  /\ DefaultLimit \in Limits
  /\ None \notin Requests \cup Turns \cup {Asked}

VARIABLES
  requests,     \* what each request does
  history       \* turn id -> the turn that is stored under it, if any

indexVars == <<eligible, index, lock, work>>
chatVars == <<indexVars, insightVars, requests, history>>

-----------------------------------------------------------------------------
(* Plans.  S is the structured query, R retrieval, I the cached insight, W  *)
(* the web search.                                                          *)

\* The tools a model's plan of each route may name.
ValidTools ==
  [conversation |-> {{}}, quantitative |-> {{"S"}}, content |-> {{"R"}, {"I"}}, web |-> {{"W"}},
   mixed |-> {{"S", "R"}, {"S", "I"}, {"S", "W"}, {"S", "R", "W"}, {"S", "I", "W"}}]

\* What the tools of a plan do not use has one value.
PlansOf(route, tools) ==
  [route: {route}, tools: {tools},
   template: IF "S" \in tools THEN Templates ELSE {"metric"},
   mode: IF "R" \in tools THEN Modes ELSE {"semantic"}]

Plans == UNION {UNION {PlansOf(r, tools) : tools \in ValidTools[r]} : r \in DOMAIN ValidTools}

\* route_question
RouteOf(q) ==
  CASE q.insight /\ q.explicit -> "mixed"
    [] q.insight /\ ~q.explicit -> "content"
    [] ~q.insight /\ q.quantitative /\ q.content -> "mixed"
    [] ~q.insight /\ q.quantitative /\ ~q.content -> "quantitative"
    [] OTHER -> "content"

\* The plan that is carried out, or None where the model left out the content tool
\* of a question that needs one.
Corrected(plan, q) ==
  LET taken == IF plan.route = "conversation" /\ q.sourced
               THEN [plan EXCEPT !.route = "web", !.tools = {"W"}] ELSE plan
      trusted == taken.route \notin {"conversation", "web"}
  IN  CASE trusted /\ RouteOf(q) = "quantitative" ->
             [route |-> "quantitative", tools |-> {"S"}, template |-> q.template,
              mode |-> "semantic"]
        [] trusted /\ RouteOf(q) = "mixed" ->
             IF taken.tools \ {"S"} = {} THEN None
             ELSE [taken EXCEPT !.route = "mixed", !.tools = @ \cup {"S"},
                                !.template = q.template]
        [] OTHER -> taken

-----------------------------------------------------------------------------
(* Requests *)

Unsent == [state |-> "unsent"]

\* A request at work: the turn it is for, the conversation it was given, the plan,
\* and what the tools have found.  `seen` and `quiet` are history: the mail that was
\* eligible at some time since the reconciliation began, until the search was done,
\* and whether that has stayed the same.
Sent(turn, q, given) ==
  [state |-> "waiting", turn |-> turn, question |-> q, given |-> given,
   plan |-> None, rows |-> "none", read |-> "unused", web |-> FALSE, found |-> {},
   seen |-> {}, quiet |-> TRUE]

\* How a request ends.  Lost: the client is gone when the turn is stored.  Locked and
\* internal_error are reported as one.
Over(request, outcome, response) ==
  [state |-> "over", turn |-> request.turn, question |-> request.question,
   given |-> request.given, outcome |-> outcome, response |-> response]

Working == {r \in Requests : requests[r].state \notin {"unsent", "waiting", "over"}}
Becomes(r, request) == requests' = [requests EXCEPT ![r] = request]

ChatInit ==
  /\ Init /\ InsightInit
  /\ requests = [r \in Requests |-> Unsent]
  /\ history = [t \in Turns |-> {}]

\* A conversation is named after the request that opens it.
Post(r) ==
  /\ requests[r] = Unsent
  /\ \E turn \in Turns, q \in Questions, given \in {None} \cup Requests :
       Becomes(r, Sent(turn, q, given))
  /\ UNCHANGED <<indexVars, insightVars, history>>

\* MUTANT: requests of one turn do not wait for one another.
TurnFree_Always(turn) == TRUE

TurnFree(turn) == \A p \in Working : requests[p].turn # turn

SameTurn(stored, request) == stored.question = request.question

\* The turn lock is free.  A stored turn is looked up under the conversation that is
\* given, if one is, and replayed if the question is the same.
Enter(r) ==
  /\ requests[r].state = "waiting"
  /\ TurnFree(requests[r].turn)
  /\ LET request == requests[r]
         completed == {stored \in history[request.turn] :
                         request.given \in {None, stored.conversation}}
     IN  \/ /\ completed = {}
            /\ Becomes(r, [request EXCEPT !.state = "planning"])
         \/ \E stored \in completed :
              Becomes(r, IF SameTurn(stored, request) THEN Over(request, "answered", stored)
                         ELSE Over(request, "conflict", None))
  /\ UNCHANGED <<indexVars, insightVars, history>>

-----------------------------------------------------------------------------
(* The graph *)

\* Where a request stands when the mail is searched, or need not be.
AfterSearch(plan) == IF "W" \in plan.tools THEN "browsing" ELSE "answering"

\* CachedInsightTool.run: the hash is compared with that of the data now, at the
\* default number of evidence items.
Reading ==
  CASE insight = Absent -> "missing"
    [] insight # Absent /\ (insight.stale \/ insight.inputs # Inputs(DefaultLimit)) -> "stale"
    [] OTHER -> IF insight.cites THEN "cited" ELSE "uncited"

\* The applications a structured query finds: none, some, or for "live" some that wait
\* for the employer, which the answer names.  Those that do not wait are rows as well.
RowsOf(plan) ==
  {"none"} \cup {rows \in {"others", "waiting"} :
                   /\ "S" \in plan.tools
                   /\ (rows = "others" /\ plan.template = "list") \/ plan.template = "live"}

\* The model's plan has arrived and is valid, at the first or the second attempt.
\* The structured query and the cached insight are read without a wait.
Plan(r) ==
  /\ requests[r].state = "planning"
  /\ \E plan \in {Corrected(p, requests[r].question) : p \in Plans} :
       IF plan = None THEN Becomes(r, Over(requests[r], "llm_provider_failed", None))
       ELSE \E rows \in RowsOf(plan) :
              Becomes(r, [requests[r] EXCEPT
                !.state = IF "R" \in plan.tools THEN "retrieving" ELSE AfterSearch(plan),
                !.plan = plan, !.rows = rows,
                !.read = IF "I" \in plan.tools THEN Reading ELSE "unused"])
  /\ UNCHANGED <<indexVars, insightVars, history>>

Mentioning(mail) == mail \cap Mentions
Newest(mail) == {e \in mail : \A f \in mail : f <= e}

\* One message of each company whose mail mentions the term, the newest.
PerCompany(mail) ==
  UNION {Newest({e \in Mentioning(mail) : Company[e] = c}) :
           c \in {Company[e] : e \in Mail} \ {None}}

\* The newest message that the user received from the company.
LatestOf(mail) == Newest({e \in mail \ Outbound : Company[e] = Asked})

\* What a search by the text finds in the mail of an index.
Found(mode, mail) ==
  CASE mode = "exhaustive" -> Mentioning(mail)
    [] mode = "companies" -> PerCompany(mail)
    [] mode = "latest" -> LatestOf(mail)

\* With the index committed, the search starts: by the text at once, or with the
\* embedding of the question.
Searched(request, indexed) ==
  IF request.plan.mode = "semantic" THEN [request EXCEPT !.state = "embedding"]
  ELSE [request EXCEPT !.found = Found(request.plan.mode, indexed),
                       !.state = AfterSearch(request.plan)]

Reconciled(r, request) ==
  Becomes(r, IF lock' = Free THEN Searched(request, index')
             ELSE [request EXCEPT !.state = "reconciling"])

BeginSearch(r) ==
  /\ requests[r].state = "retrieving"
  /\ Begin(r)
  /\ Reconciled(r, [requests[r] EXCEPT !.seen = eligible])
  /\ UNCHANGED <<insightVars, history>>

StoreSearch(r) ==
  /\ StorePage(r)
  /\ Reconciled(r, requests[r])
  /\ UNCHANGED <<insightVars, history>>

\* The question is embedded: the nearest chunks, if any is near enough.
Search(r) ==
  /\ requests[r].state = "embedding"
  /\ \E found \in SUBSET index :
       Becomes(r, [requests[r] EXCEPT !.found = found,
                                      !.state = AfterSearch(requests[r].plan)])
  /\ UNCHANGED <<indexVars, insightVars, history>>

Browse(r) ==
  /\ requests[r].state = "browsing"
  /\ \E web \in BOOLEAN :
       Becomes(r, [requests[r] EXCEPT !.web = web, !.state = "answering"])
  /\ UNCHANGED <<indexVars, insightVars, history>>

-----------------------------------------------------------------------------
(* The answer *)

\* What the answer says of the mail and of the web that were found, and cites.  The
\* language model cites some of what it was given, or refuses; the exhaustive
\* answer names all of it.  A model's answer has no room for the insight.
MailCited(request) ==
  IF request.found = {} THEN {{}}
  ELSE IF request.plan.mode \in Exhaustive THEN {request.found} ELSE SUBSET request.found

Written(request) == request.found # {} \/ request.web
Listed(request) == request.found # {} /\ request.plan.mode \in Exhaustive
WebCited(request) == IF request.web /\ ~Listed(request) THEN BOOLEAN ELSE {FALSE}

\* The citations that are not mail before the answer is known, and those its text
\* mentions: every row is collected, and of them the waiting ones are mentioned.
Collected(request) ==
  {c \in {"metric", "application", "insight", "web"} :
     CASE c = "metric" -> "S" \in request.plan.tools /\ request.plan.template = "metric"
       [] c = "application" -> request.rows # "none"
       [] c = "insight" -> request.read = "cited"
       [] c = "web" -> request.web}

Mentioned(request, web) ==
  {c \in Collected(request) :
     CASE c = "metric" -> TRUE
       [] c = "application" -> request.rows = "waiting"
       [] c = "insight" -> ~Written(request)
       [] c = "web" -> web}

\* Citations that the text does not mention are dropped after a search of the mail
\* or the web, and from a list of those that are waiting.
Filtered(plan) ==
  plan.tools \cap {"R", "W"} # {} \/ ("S" \in plan.tools /\ plan.template = "live")

KindOf(request, mail, web) ==
  IF request.plan.route = "conversation" THEN "conversation"
  ELSE CASE Listed(request) -> "grounded"
         [] ~Listed(request) /\ Written(request) ->
              IF "S" \notin request.plan.tools
                 /\ (IF request.found # {} THEN mail = {} ELSE ~web)
              THEN "refusal" ELSE "grounded"
         [] OTHER ->
              IF request.plan.route \in {"content", "web", "mixed"} /\ Collected(request) = {}
              THEN "refusal" ELSE "grounded"

\* The response to a request, citing `mail`, and the web if `web`.
Response(r, request, mail, web) ==
  [conversation |-> IF request.given = None THEN r ELSE request.given,
   question |-> request.question, route |-> request.plan.route,
   kind |-> KindOf(request, mail, web), mail |-> mail,
   others |-> IF Filtered(request.plan) THEN Mentioned(request, web) ELSE Collected(request)]

\* The turn is stored already: its unique index refuses another.
Taken(turn) == history[turn] # {}

\* The user's message, the tools and the answer, in one transaction of a connection
\* of its own.  The client may be gone by then.
Stores(r, turn, response) ==
  /\ history' = [history EXCEPT ![turn] = {response}]
  /\ \E outcome \in {"answered", "lost"} : Becomes(r, Over(requests[r], outcome, response))

\* The answer is complete.  A reconciliation that has written keeps the database
\* locked until it commits.
Answer(r) ==
  /\ requests[r].state = "answering"
  /\ LET request == requests[r]
     IN  CASE work.dirty ->
                Becomes(r, Over(request, "locked", None)) /\ UNCHANGED history
           [] ~work.dirty /\ Taken(request.turn) ->
                Becomes(r, Over(request, "internal_error", None)) /\ UNCHANGED history
           [] OTHER -> \E mail \in MailCited(request), web \in WebCited(request) :
                Stores(r, request.turn, Response(r, request, mail, web))
  /\ UNCHANGED <<indexVars, insightVars>>

\* A request ends early; if it was reconciling, without a commit.
Ends(r, outcome) ==
  /\ Becomes(r, Over(requests[r], outcome, None))
  /\ IF lock = r THEN Abandon ELSE UNCHANGED indexVars
  /\ UNCHANGED <<insightVars, history>>

\* The language model fails, answers invalidly, or cites what it was not given.
ModelFails(r) ==
  /\ requests[r].state \in {"planning", "reconciling", "embedding", "answering"}
  /\ Ends(r, "llm_provider_failed")

\* Web search is off, has no credential, fails, or answers invalidly.
BrowseFails(r) ==
  /\ requests[r].state = "browsing"
  /\ Ends(r, "web_search_unavailable")

\* The client disconnects, or the process ends.
Disconnect(r) ==
  /\ requests[r].state \notin {"unsent", "over"}
  /\ Ends(r, "gone")

-----------------------------------------------------------------------------
(* The others *)

\* The processing run reconciles too, and may fail.
Process ==
  /\ \/ \E t \in Tasks \ Requests : Begin(t) \/ StorePage(t)
     \/ lock \notin Requests /\ Abandon
  /\ UNCHANGED <<insightVars, requests, history>>

Searching(r) == requests[r].state \in {"reconciling", "embedding"}

Change ==
  /\ ChangeEligible
  /\ requests' = [r \in Requests |->
       IF Searching(r) /\ eligible' # eligible
       THEN [requests[r] EXCEPT !.seen = @ \cup eligible', !.quiet = FALSE]
       ELSE requests[r]]
  /\ UNCHANGED <<insightVars, history>>

\* Insights are generated, and their data change.
Narrate ==
  /\ ~work.dirty
  /\ InsightNext
  /\ UNCHANGED <<indexVars, requests, history>>

ChatNext ==
  \/ \E r \in Requests :
       \/ Post(r) \/ Enter(r) \/ Plan(r) \/ BeginSearch(r) \/ StoreSearch(r)
       \/ Search(r) \/ Browse(r) \/ Answer(r)
       \/ ModelFails(r) \/ BrowseFails(r) \/ Disconnect(r)
  \/ Process \/ Change \/ Narrate

ChatSpec == ChatInit /\ [][ChatNext]_chatVars

-----------------------------------------------------------------------------
(* A turn is answered once: whatever a client is told is the stored answer  *)
(* to its own question, a conflict is told only to one that asked something *)
(* else, and an answer is thrown away only while a reconciliation keeps the *)
(* database locked, or where the client named another conversation than the *)
(* stored turn's.                                                           *)
TurnAnsweredOnce ==
  \A r \in Requests : requests[r].state = "over" =>
    LET over == requests[r]
        stored == history[over.turn]
    IN  CASE over.outcome \in {"answered", "lost"} ->
               stored = {over.response} /\ over.response.question = over.question
          [] over.outcome = "conflict" -> \E s \in stored : s.question # over.question
          [] over.outcome = "internal_error" ->
               \E s \in stored : over.given \notin {None, s.conversation}
          [] OTHER -> TRUE

\* What the request's answer may cite and must.  An answer that next to something not
\* found only lists applications, or looked for waiting ones and found none, may cite
\* nothing.
Supported(request, response) ==
  /\ response.mail \subseteq request.seen
  /\ request.quiet /\ request.plan.mode # "semantic" =>
       response.mail \in {Found(request.plan.mode, request.seen)}
                           \cup (IF request.plan.mode = "latest" THEN {{}} ELSE {})
  /\ response.kind = "grounded" /\ response.route # "quantitative"
       /\ ~(response.route = "mixed" /\ request.plan.template # "metric"
              /\ request.rows # "waiting") =>
       response.mail # {} \/ response.others # {}

\* A stored answer cites only mail that was job mail at some time while it was
\* searched.  If that did not change meanwhile, an exhaustive answer cites every
\* message that mentions the term and a company's latest is the latest, whatever the
\* other reconciliations did.  A grounded answer cites something.
AnswersHold ==
  [][\A t \in Turns : \A response \in history'[t] \ history[t] :
       \E r \in Working : requests[r].turn = t /\ Supported(requests[r], response)]_chatVars
=============================================================================
