------------------------------ MODULE Insights ------------------------------
(***************************************************************************)
(* The cache of narrative insights: InsightGenerationService computes the  *)
(* facts and the cited evidence of one type of insight, waits for the      *)
(* language model, and stores the answer with the hash of what it was      *)
(* given.  Triggers of the database mark the stored insight stale when     *)
(* applications, their events or the mail they cite change.                *)
(***************************************************************************)
EXTENDS Integers, FiniteSets

CONSTANTS
  Applications,
  Items,        \* the events there may be, numbered in the order of their time
  Owner,        \* event -> its application
  FromMail,     \* the events that rest on a message
  Types,        \* the types of insight that are asked for
  Limits,       \* the max_evidence_items that are asked for
  Generators,   \* requests to regenerate
  Absent        \* no row, no event, no insight

Statuses == {"applied", "rejected"}
Kinds == {"feedback", "rejection"}

\* An application without events is one row of evidence, before any event.
NoItem == 0

ASSUME InsightConstants ==
  /\ Items \subseteq Nat \ {NoItem} /\ IsFiniteSet(Items)
  /\ Owner \in [Items -> Applications] /\ FromMail \subseteq Items
  /\ Limits \subseteq Nat \ {0}
  /\ Types \subseteq {"why_rejected", "recurring_feedback", "skill_gaps",
                      "strongest_weakest_signals", "role_fit", "weekly_actions", "story"}
  /\ Absent \notin Statuses \cup Kinds

VARIABLES
  status,       \* the status of each application
  timeline,     \* the type of each event
  bodies,       \* the events whose message has a retained body
  type,         \* the type of insight this behaviour follows
  insight,      \* its row in the cache
  generating    \* the regenerations that wait for the language model

source == <<status, timeline, bodies>>
insightVars == <<status, timeline, bodies, type, insight, generating>>

-----------------------------------------------------------------------------
(* What an insight is made from *)

Tracked == {a \in Applications : status[a] # Absent}
EventsOf(a) == {i \in Items : timeline[i] # Absent /\ Owner[i] = a}

\* The left join of applications, events and mail, with the columns that the
\* triggers have to watch.
Evidence ==
  LET row(a, i) == [application |-> a, item |-> i, status |-> status[a],
                    kind |-> IF i = NoItem THEN Absent ELSE timeline[i],
                    body |-> i \in bodies]
  IN  UNION {IF EventsOf(a) = {} THEN {row(a, NoItem)} ELSE {row(a, i) : i \in EventsOf(a)}
               : a \in Tracked}

InScope(row) ==
  CASE type = "recurring_feedback" -> row.kind = "feedback"
    [] type = "why_rejected" -> row.kind = "rejection"
    [] type = "skill_gaps" -> row.status = "rejected"
    [] type = "weekly_actions" -> row.status = "applied"
    [] type = "story" -> row.item # NoItem
    [] OTHER -> TRUE

Scoped == {row \in Evidence : InScope(row)}

\* The story and the weekly actions take the newest rows, the others the oldest.
Clipped(rows, limit) ==
  LET newer(r) == {s \in rows : s.item > r.item}
      older(r) == {s \in rows : s.item < r.item}
  IN  CASE type = "strongest_weakest_signals" -> rows
        [] type \in {"story", "weekly_actions"} -> {r \in rows : Cardinality(newer(r)) < limit}
        [] OTHER -> {r \in rows : Cardinality(older(r)) < limit}

ByStatus == [s \in Statuses |-> Cardinality({a \in Tracked : status[a] = s})]
ByKind == [k \in Kinds |-> Cardinality({i \in Items : timeline[i] = k})]
RejectedSkills == {a \in Tracked : status[a] = "rejected"}
RoleOutcomes(rows) == {<<r.application, r.status>> : r \in rows}

Facts ==
  [total |-> Cardinality(Tracked), statuses |-> ByStatus, kinds |-> ByKind,
   rejected |-> IF type = "skill_gaps" THEN RejectedSkills ELSE {},
   outcomes |-> IF type = "role_fit" THEN RoleOutcomes(Scoped) ELSE {}]

\* Stands for inputs_hash, which covers the rows that are clipped off too: two
\* packages have one hash only if they are equal.
Inputs(limit) ==
  [facts |-> Facts, evidence |-> Clipped(Scoped, limit), fingerprint |-> Scoped]

\* The citation ids an answer may use: of the evidence, and for role_fit of the
\* outcomes of each role, which are not clipped.
Allowed(inputs) ==
  IF type = "role_fit" THEN inputs.fingerprint ELSE inputs.evidence

Insufficient(inputs) ==
  type = "recurring_feedback" /\ Cardinality(inputs.evidence) < 2

-----------------------------------------------------------------------------
Ready == [state |-> "ready"]

InsightInit ==
  /\ status = [a \in Applications |-> Absent]
  /\ timeline = [i \in Items |-> Absent] /\ bodies = {}
  /\ type \in Types
  /\ insight = Absent
  /\ generating = [g \in Generators |-> Ready]

\* The citations of an answer that are kept with it: those that are evidence.
Kept(inputs, cites) == cites \cap inputs.evidence

\* The update of the one row of the type, or its insertion.  `overtaken` is history:
\* the data changed while the language model was at work.
Stored(inputs, limit, cites, overtaken) ==
  [inputs |-> inputs, limit |-> limit, stale |-> FALSE, overtaken |-> overtaken,
   cites |-> Kept(inputs, cites) # {}]

CacheHit(inputs) ==
  insight # Absent /\ insight.inputs = inputs /\ ~insight.stale

\* generate_insight up to the call of the language model, without force when the
\* caller is content with a fresh insight.
Regenerate(g, limit, force) ==
  LET inputs == Inputs(limit)
  IN  /\ generating[g] = Ready
      /\ force \/ ~CacheHit(inputs)
      /\ IF Insufficient(inputs)
         THEN /\ insight' = Stored(inputs, limit, inputs.evidence, FALSE)
              /\ UNCHANGED generating
         ELSE /\ generating' = [generating EXCEPT ![g] =
                   [state |-> "waiting", inputs |-> inputs, limit |-> limit,
                    overtaken |-> FALSE]]
              /\ UNCHANGED insight
      /\ UNCHANGED <<source, type>>

\* The citations of an answer that passes the validation: without evidence it may
\* only say so, which three weekly actions cannot.
Grounded(inputs) ==
  LET evidence == IF type = "weekly_actions" THEN inputs.evidence ELSE Allowed(inputs)
  IN  IF evidence = {} /\ type # "weekly_actions" THEN {{}} ELSE SUBSET evidence \ {{}}

\* The answer has arrived and is valid.
Generated(g) ==
  /\ generating[g] # Ready
  /\ \E cites \in Grounded(generating[g].inputs) :
       insight' = Stored(generating[g].inputs, generating[g].limit, cites,
                         generating[g].overtaken)
  /\ generating' = [generating EXCEPT ![g] = Ready]
  /\ UNCHANGED <<source, type>>

\* The provider fails, its answer is rejected, or the process ends.
GenerationFails(g) ==
  /\ generating[g] # Ready
  /\ generating' = [generating EXCEPT ![g] = Ready]
  /\ UNCHANGED <<source, type, insight>>

-----------------------------------------------------------------------------
(* The triggers, and the statements that fire them *)

Overtaken == [g \in Generators |-> IF generating[g] = Ready THEN Ready
                                   ELSE [generating[g] EXCEPT !.overtaken = TRUE]]

\* MUTANT: nothing watches the mail.
MarkStale_NotMail(watched) ==
  IF watched
  THEN /\ insight' = IF insight = Absent \/ bodies' # bodies THEN insight
                     ELSE [insight EXCEPT !.stale = TRUE]
       /\ generating' = Overtaken
  ELSE UNCHANGED <<insight, generating>>

MarkStale(watched) ==
  IF watched
  THEN /\ insight' = IF insight = Absent THEN insight ELSE [insight EXCEPT !.stale = TRUE]
       /\ generating' = Overtaken
  ELSE UNCHANGED <<insight, generating>>

\* An application is inserted, updated, or deleted with its events.
ChangeApplication(a) ==
  /\ \E s \in (Statuses \cup {Absent}) \ {status[a]} : status' = [status EXCEPT ![a] = s]
  /\ timeline' = [i \in Items |-> IF status'[Owner[i]] = Absent THEN Absent ELSE timeline[i]]
  /\ UNCHANGED <<bodies, type>>
  /\ MarkStale(TRUE)

\* An event of a tracked application is inserted, updated or deleted.
ChangeEvent(i) ==
  /\ status[Owner[i]] # Absent
  /\ \E k \in (Kinds \cup {Absent}) \ {timeline[i]} : timeline' = [timeline EXCEPT ![i] = k]
  /\ UNCHANGED <<status, bodies, type>>
  /\ MarkStale(TRUE)

\* The body of a message is retained or purged: watched only while an event
\* cites the message.
ChangeBody(i) ==
  /\ bodies' = IF i \in bodies THEN bodies \ {i} ELSE bodies \cup {i}
  /\ UNCHANGED <<status, timeline, type>>
  /\ MarkStale(timeline[i] # Absent)

InsightNext ==
  \/ \E g \in Generators, limit \in Limits, force \in BOOLEAN : Regenerate(g, limit, force)
  \/ \E g \in Generators : Generated(g) \/ GenerationFails(g)
  \/ \E a \in Applications : ChangeApplication(a)
  \/ \E i \in Items : ChangeEvent(i)
  \/ \E i \in FromMail : ChangeBody(i)

InsightSpec == InsightInit /\ [][InsightNext]_insightVars

-----------------------------------------------------------------------------
(* An insight that is listed as fresh was made from what its inputs still   *)
(* are, unless the data changed while the language model was writing it:   *)
(* then the save clears a stale mark that was deserved.                    *)
FreshIsCurrent ==
  insight # Absent /\ ~insight.stale /\ ~insight.overtaken =>
    insight.inputs = Inputs(insight.limit)
=============================================================================
