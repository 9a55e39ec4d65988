------------------------ MODULE ApplicationTimeline ------------------------
(***************************************************************************)
(* Applications and their timelines: the aggregation of accepted           *)
(* extractions, ghost inference, and the user's audited corrections        *)
(* (status and event edits, merge, split, lock reset).  Each of them is    *)
(* one database transaction without an await, hence one action.            *)
(*                                                                         *)
(* A mail is the number of the time it was sent at.  An identity stands    *)
(* for a normalised company and role, and a summary for them alone.        *)
(***************************************************************************)
EXTENDS Integers, FiniteSets

CONSTANTS
  Mail,            \* the messages, by their time of sending
  Thread,          \* [Mail -> thread ids]
  Identities,      \* companies and roles that occur
  Nobody,          \* no company and no role; no message
  Batches,         \* the sets of extractions that may be accepted together
  EventEdits,      \* the type, time and message a user may give an event
  EditStatuses,    \* the status a user may give an application
  GhostAfter,      \* ghost_threshold_days
  StaleAfter,      \* _STALE_APPLICATION_ATTEMPT_DAYS
  Clock,           \* bound: the times at which the program looks at the clock
  MaxCorrections   \* bound: what the user does

LifecycleTypes == {"applied", "assessment", "interview_scheduled", "rejection", "offer"}
AnchoredTypes == {"response", "feedback"}
ResponseLike == (LifecycleTypes \cup AnchoredTypes) \ {"applied"}
EventTypes == LifecycleTypes \cup AnchoredTypes \cup {"ghost_inferred"}
Statuses == {"applied", "in_review", "assessment", "interview", "offer", "rejected",
             "ghosted", "withdrawn"}
Horizon == CHOOSE t \in Clock : \A u \in Clock : u <= t
Times == 1 .. Horizon + GhostAfter

\* What validate_extraction_shape lets through: a lifecycle category has its own
\* event type, other job mail has a response, feedback or ("other") nothing to
\* tell, and mail that is not job-related ("none") never has.
FollowUpTypes == AnchoredTypes \cup {"other"}
ReadingTypes == LifecycleTypes \cup FollowUpTypes \cup {"none"}

Readings == [mail: Mail, type: ReadingTypes, at: Times, identity: Identities \cup {Nobody}]

ASSUME TimelineConstants ==
  /\ Clock \subseteq Nat \ {0} /\ \E t \in Clock : \A u \in Clock : u <= t
  /\ Mail \subseteq Times /\ IsFiniteSet(Mail) /\ DOMAIN Thread = Mail
  /\ Nobody \notin Mail \cup Identities
  /\ Batches \subseteq SUBSET Readings
  /\ \A batch \in Batches : \A q, r \in batch : q.mail = r.mail => q = r
  /\ EventEdits \subseteq [type: EventTypes, at: Times, email: Mail \cup {Nobody}]
  /\ EditStatuses \subseteq Statuses
  /\ {GhostAfter, StaleAfter} \subseteq Nat \ {0} /\ MaxCorrections \in Nat

VARIABLES
  apps,         \* applications: id -> status, first_seen_at, last_activity_at, ...
  events,       \* application_events
  corrections,  \* application_corrections: what kind, and the ids they are about
  conflicts,    \* application_correction_conflicts
  tasks,        \* interview_task_completions
  reading,      \* email_classifications: what each message was last read as
  now,          \* the clock
  corrected     \* what the user has done so far, counted

vars == <<apps, events, corrections, conflicts, tasks, reading, now, corrected>>

\* An event keeps the id it was made with, application included, when it moves.
Id(v) == <<v.origin, v.email, v.type, v.at>>
Event(app, email, type, at) ==
  [origin |-> app, app |-> app, email |-> email, type |-> type, at |-> at]

\* The id of an application is a hash of its grouping key, or of what it was split from;
\* attempt 0 is the first.
Application(thread, identity, attempt) == <<"key", thread, identity, attempt>>
IdentityOf(id) == id[3]
SplitApplication(source, ids) == <<"split", source, ids>>

EventsOf(a, table) == {v \in table : v.app = a}
Completed(v) == Id(v) \in {t.about : t \in tasks}
Locked(a) == a \in DOMAIN apps /\ apps[a].locked

\* (event_at, email_sent_at, classified_at): ghosts have the date alone.
Precedes(v, w) ==
  LET sent(x) == IF x.email = Nobody THEN x.at ELSE x.email
  IN  \/ v.at < w.at
      \/ v.at = w.at /\ sent(v) < sent(w)
      \/ v.at = w.at /\ sent(v) = sent(w) /\ v.email = Nobody /\ w.email # Nobody

Latest(table) == CHOOSE v \in table : \A w \in table : ~Precedes(v, w)
FirstAt(table) == CHOOSE t \in {v.at : v \in table} : \A v \in table : t <= v.at
LastAt(table) == CHOOSE t \in {v.at : v \in table} : \A v \in table : v.at <= t

StatusOf(type) ==
  CASE type = "applied" -> "applied"
    [] type = "response" -> "in_review"
    [] type = "assessment" -> "assessment"
    [] type = "interview_scheduled" -> "interview"
    [] type = "rejection" -> "rejected"
    [] type = "offer" -> "offer"
    [] type = "ghost_inferred" -> "ghosted"

\* Feedback has no status of its own; a response moves an early status only.
Transition(status, type) ==
  CASE type = "feedback" -> status
    [] type = "response" /\ status \notin {"applied", "in_review", "ghosted"} -> status
    [] OTHER -> StatusOf(type)

\* The timeline replayed in order from "applied": the last event that sets the
\* status whatever it was, and any response after it.
TimelineStatus(table) ==
  LET decisive == {v \in table : v.type \notin AnchoredTypes}
      base     == IF decisive = {} THEN "applied" ELSE StatusOf(Latest(decisive).type)
      answered == \E v \in table : /\ v.type = "response"
                                   /\ decisive # {} => Precedes(Latest(decisive), v)
  IN  IF answered THEN Transition(base, "response") ELSE base

-----------------------------------------------------------------------------
(* Aggregation: from accepted extractions to proposed events.              *)

InThread(thread) ==
  {a \in DOMAIN apps : \E v \in EventsOf(a, events) :
                         v.email # Nobody /\ Thread[v.email] = thread}

\* MUTANT: only what follows up on an application that exists is evidence.
Anchored_Bug(batch) ==
  {r \in batch : /\ r.type \in LifecycleTypes \cup AnchoredTypes
                 /\ r.type = "applied" \/ InThread(Thread[r.mail]) # {}}

\* Responses and feedback count only in the thread of an application.
Anchored(batch) ==
  {r \in batch :
     \/ r.type \in LifecycleTypes
     \/ /\ r.type \in AnchoredTypes
        /\ \/ InThread(Thread[r.mail]) # {}
           \/ \E q \in batch : q.type \in LifecycleTypes /\ Thread[q.mail] = Thread[r.mail]}

\* An extraction without company and role takes those of its thread, of the
\* latest before it or else of the earliest.
Inherited(r, batch) ==
  LET known == {[identity |-> apps[a].identity, at |-> apps[a].first] :
                  a \in {b \in InThread(Thread[r.mail]) : apps[b].identity # Nobody}}
               \cup {[identity |-> q.identity, at |-> q.at] :
                  q \in {p \in batch : p.identity # Nobody /\ Thread[p.mail] = Thread[r.mail]}}
      prior == {k \in known : k.at <= r.at}
  IN  CASE r.identity # Nobody \/ known = {} -> r.identity
        [] prior # {} -> (CHOOSE k \in prior : \A j \in prior : j.at <= k.at).identity
        [] OTHER -> (CHOOSE k \in known : \A j \in known : k.at <= j.at).identity

\* The attempts at a grouping key that exist.  Those whose id is not the key's own
\* get the key of an attempt started when they were first seen.
Attempts(thread, identity) ==
  {[attempt |-> IF a = Application(thread, identity, 0) THEN 0 ELSE apps[a].first,
    status  |-> apps[a].status, first |-> apps[a].first, last |-> apps[a].last,
    mail    |-> {v.email : v \in EventsOf(a, events)}] :
   a \in {b \in InThread(thread) : apps[b].identity = identity}}

StartsNewAttempt(type, status, inactivity) ==
  LET stale == inactivity >= StaleAfter
  IN  \/ type = "applied" /\ (status \in {"offer", "rejected", "ghosted", "withdrawn"} \/ stale)
      \/ /\ type \in {"assessment", "interview_scheduled", "offer"}
         /\ status \in {"offer", "rejected", "withdrawn"} \/ stale

NewAttempt(attempt, at) ==
  [attempt |-> attempt, status |-> "applied", first |-> at, last |-> at, mail |-> {}]

\* Puts one extraction to an attempt: the first that holds its message, else the one
\* under way at its time, unless that is over and the event opens another.
Assign(acc, r) ==
  LET held   == {a \in acc.attempts : r.mail \in a.mail}
      begun  == {a \in acc.attempts : a.first <= r.at}
      later  == {a \in acc.attempts : a.first > r.at}
      newest(set) == CHOOSE a \in set : \A b \in set : b.first <= a.first
      oldest(set) == CHOOSE a \in set : \A b \in set : a.first <= b.first
      chosen == CASE held # {}  -> oldest(held)
                  [] begun # {} -> newest(begun)
                  [] later # {} -> oldest(later)
                  [] OTHER      -> NewAttempt(0, r.at)
      over   == /\ held = {} /\ begun # {} /\ r.at > chosen.last
                /\ StartsNewAttempt(r.type, chosen.status, r.at - chosen.last)
      target == IF ~over THEN chosen
                ELSE IF later # {} THEN oldest(later) ELSE NewAttempt(r.at, r.at)
      after  == [target EXCEPT !.mail = @ \cup {r.mail},
                               !.last = IF r.at > @ THEN r.at ELSE @,
                               !.status = Transition(@, r.type)]
  IN  [attempts |-> (acc.attempts \ {target}) \cup {after},
       events   |-> acc.events \cup
                    {Event(Application(Thread[r.mail], r.identity, target.attempt),
                           r.mail, r.type, r.at)}]

\* The extractions of one key are assigned in the order of their events.
Partition(attempts, group) ==
  LET place(r) == Cardinality({q \in group : q.at < r.at \/ (q.at = r.at /\ q.mail < r.mail)})
      acc[n \in 0 .. Cardinality(group)] ==
        IF n = 0 THEN [attempts |-> attempts, events |-> {}]
        ELSE CHOOSE after \in {Assign(before, r) : before \in {acc[n - 1]},
                                              r \in {q \in group : place(q) = n - 1}} : TRUE
  IN  acc[Cardinality(group)]

\* The events a batch proposes, each under the application it would belong to.
Proposed(batch) ==
  LET anchored == Anchored(batch)
      results  == {[r EXCEPT !.identity = Inherited(r, anchored)] : r \in anchored}
      keys     == {<<Thread[r.mail], r.identity>> : r \in results}
      group(k) == {r \in results : <<Thread[r.mail], r.identity>> = k}
  IN  UNION {Partition(Attempts(k[1], k[2]), group(k)).events : k \in keys}

-----------------------------------------------------------------------------
(* Corrections protect what they touched.                                  *)

Edits(a) == UNION {c.about : c \in {d \in corrections : d.app = a /\ d.kind = "event_edit"}}
EventEdited(a, id) == id \in Edits(a)
MailEdited(a, email) == email # Nobody /\ \E id \in Edits(a) : id[2] = email
Protected(a, v) == EventEdited(a, Id(v)) \/ MailEdited(a, v.email)

MergedAway(a) == \E c \in corrections : c.kind = "merge" /\ a \in c.about

\* Events of reclassified messages that are no longer proposed.
Stale(batch, proposed) ==
  {v \in events : /\ \E r \in batch : r.mail = v.email
                  /\ \A p \in proposed : Id(p) # Id(v)}
Blocked(stale, proposed) ==
  {v \in stale : IF Locked(v.app)
                 THEN ~\E p \in proposed : p.email = v.email /\ p.app = v.app
                 ELSE Protected(v.app, v)}
\* MUTANTS: stale events are left; the user's edits are not looked at.
Deleted_Never(stale) == {}
Deleted_Unprotected(stale) == {v \in stale : ~Locked(v.app)}

Deleted(stale) == {v \in stale : ~Locked(v.app) /\ ~Protected(v.app, v)}

TimelineSummary(old, table) ==
  [old EXCEPT !.status = TimelineStatus(table), !.last = LastAt(table)]
\* MUTANT: after a deletion only the first date is refreshed.
RefreshedSummary_Bug(old, table) == [old EXCEPT !.first = FirstAt(table)]

RefreshedSummary(old, table) ==
  [TimelineSummary(old, table) EXCEPT !.first = FirstAt(table)]

\* A row as the evidence of a timeline gives it.  A row that exists keeps its first_seen_at.
UpsertedApplication(a, timeline) ==
  LET new == [status |-> "applied", first |-> FirstAt(timeline), last |-> 0,
              locked |-> FALSE, identity |-> IdentityOf(a)]
  IN  IF a \in DOMAIN apps
      THEN [TimelineSummary(apps[a], timeline) EXCEPT !.identity = IdentityOf(a)]
      ELSE TimelineSummary(new, timeline)

\* What a locked row says is not overwritten: unless it says the same, a conflict.
LockedMatches(a, timeline) ==
  apps[a].status = TimelineStatus(timeline) /\ apps[a].identity = IdentityOf(a)
SummaryRefused(a, timeline) == ~MergedAway(a) /\ Locked(a) /\ ~LockedMatches(a, timeline)

\* A new event is refused where the user edited one of its id or its message.
EventRefused(p, table) ==
  /\ ~\E v \in EventsOf(p.app, table) : Id(v) = Id(p)
  /\ Protected(p.app, p)

Conflict(app, mail) == [app |-> app, mail |-> mail]

\* MUTANT: an application goes with the first event it loses.
Emptied_Bug(affected, table) == affected

\* Applications that lost their last event.
Emptied(affected, table) == {a \in affected : EventsOf(a, table) = {}}

\* The tables after the deletions and insertions that are allowed: rows that lost
\* events are refreshed, and go with their last one.  Aggregation's connection does
\* not enforce foreign keys: what refers to a deleted row stays.
Persisted(deleted, upserted, inserted, contested, timeline) ==
  LET table    == (events \ deleted) \cup inserted
      affected == {v.app : v \in deleted} \ DOMAIN timeline
      row(a)   == CASE a \in upserted -> UpsertedApplication(a, timeline[a])
                    [] a \in affected -> RefreshedSummary(apps[a], EventsOf(a, table))
                    [] OTHER -> apps[a]
  IN  [apps      |-> [a \in (DOMAIN apps \cup upserted) \ Emptied(affected, table) |-> row(a)],
       events    |-> table,
       conflicts |-> conflicts \cup {Conflict(v.app, v.email) : v \in contested}]

\* Applications first, then the events of those that were not refused.
Upserted(proposed, blocked, deleted, timeline) ==
  LET left    == events \ deleted
      refused == {a \in DOMAIN timeline : SummaryRefused(a, timeline[a])}
      open    == {p \in proposed : ~MergedAway(p.app) /\ p.app \notin refused}
      barred  == {p \in open : EventRefused(p, left)}
  IN  Persisted(deleted, {a \in DOMAIN timeline : ~MergedAway(a) /\ ~Locked(a)},
                {p \in open \ barred : \A v \in left : Id(v) # Id(p)},
                blocked \cup barred \cup {p \in proposed : p.app \in refused}, timeline)

\* The evidence for each application that events are proposed for.
Timelines(proposed, left) ==
  [a \in {p.app : p \in proposed} |-> EventsOf(a, left) \cup EventsOf(a, proposed)]

\* Messages whose stale events are blocked are left out.
Reconciled(proposed, blocked, deleted) ==
  LET free == {p \in proposed : \A v \in blocked : v.email # p.email}
  IN  Upserted(free, blocked, deleted, Timelines(free, events \ deleted))

WithoutStale(proposed, stale) == Reconciled(proposed, Blocked(stale, proposed), Deleted(stale))
Replacing(batch, proposed) == WithoutStale(proposed, Stale(batch, proposed))

\* What one aggregation of a batch of accepted extractions makes of the tables.
Aggregated(batch) == Replacing(batch, Proposed(batch))

Aggregate(batch) ==
  /\ \E tables \in {Aggregated(batch)} :
       apps' = tables.apps /\ events' = tables.events /\ conflicts' = tables.conflicts
  /\ reading' = [m \in Mail |-> IF \E r \in batch : r.mail = m
                                THEN (CHOOSE r \in batch : r.mail = m).type
                                ELSE reading[m]]
  /\ UNCHANGED <<corrections, tasks, now, corrected>>

-----------------------------------------------------------------------------
(* Ghost inference.                                                        *)

Ghosts(table) == {v \in table : v.type = "ghost_inferred"}
Applied(table) == {v \in table : v.type = "applied"}
Answered(table) ==
  \E v \in table : v.type \in ResponseLike /\ Precedes(Latest(Applied(table)), v)

\* MUTANT: an answer that came in later does not retract the ghost.
Unfounded_Bug(a) ==
  LET others == EventsOf(a, events) \ Ghosts(events)
  IN  Applied(others) = {} \/ Latest(others).at + GhostAfter > now

\* The application's ghosts no longer follow from the rest of its timeline.
Unfounded(a) ==
  LET others == EventsOf(a, events) \ Ghosts(events)
      quiet  == (IF others = {} THEN apps[a].last ELSE Latest(others).at) + GhostAfter
  IN  \/ Applied(others) = {}
      \/ Answered(others)
      \/ quiet > now
      \/ {v.at : v \in Ghosts(EventsOf(a, events))} # {quiet}
      \/ Cardinality(Ghosts(EventsOf(a, events))) # 1

\* Only mail now read as follow-up or other: no evidence of an application.
OnlyFollowUps(table) ==
  /\ \E v \in table : v.email # Nobody /\ reading[v.email] \in FollowUpTypes
  /\ ~\E v \in table : v.email = Nobody \/ reading[v.email] \in LifecycleTypes \cup {"unread"}

GhostCandidate(a, left) ==
  LET table == EventsOf(a, left)
  IN  /\ Applied(table) # {} /\ LastAt(Applied(table)) + GhostAfter <= now
      /\ Ghosts(table) = {} /\ ~OnlyFollowUps(table)
      /\ ~Locked(a) /\ ~Answered(table)

\* First what no longer holds is retracted, then silent applications are ghosted.
Haunting ==
  LET haunted == {a \in DOMAIN apps : Ghosts(EventsOf(a, events)) # {} /\ ~Locked(a)}
      retracted == {a \in haunted :
                      /\ Unfounded(a)
                      /\ \A v \in Ghosts(EventsOf(a, events)) : ~EventEdited(a, Id(v))}
      left    == {v \in events : ~(v.app \in retracted /\ v.type = "ghost_inferred")}
      silent  == {a \in DOMAIN apps : GhostCandidate(a, left)}
      ghost(a) == Event(a, Nobody, "ghost_inferred", Latest(EventsOf(a, left)).at + GhostAfter)
      ghosted == {a \in silent : ~EventEdited(a, Id(ghost(a)))}
      table   == left \cup {g \in {ghost(a) : a \in ghosted} : \A v \in left : Id(v) # Id(g)}
      row(a)  == LET old == apps[a] mine == EventsOf(a, table)
                 IN  IF mine = {} THEN [old EXCEPT !.status = "applied"]
                     ELSE TimelineSummary(old, mine)
  IN  [events |-> table,
       apps   |-> [a \in DOMAIN apps |-> IF a \in retracted \cup ghosted THEN row(a) ELSE apps[a]]]

InferGhosts ==
  /\ \E tables \in {Haunting} : events' = tables.events /\ apps' = tables.apps
  /\ UNCHANGED <<corrections, conflicts, tasks, reading, now, corrected>>

-----------------------------------------------------------------------------
(* The user's corrections.                                                 *)

Correction(kind, app, about) == [kind |-> kind, app |-> app, about |-> about]

\* What a correction leaves alone.
Correct ==
  /\ corrected < MaxCorrections /\ corrected' = corrected + 1
  /\ UNCHANGED <<reading, now>>

EditStatus(a, status) ==
  /\ Correct
  /\ apps' = [apps EXCEPT ![a].status = status, ![a].locked = TRUE]
  /\ corrections' = corrections \cup {Correction("status_edit", a, {})}
  /\ UNCHANGED <<events, conflicts, tasks>>

\* Gives an event another type, time or message, and thereby another id; a completed
\* interview task keeps the old one.
EditEvent(v, edit) ==
  LET w     == Event(v.app, edit.email, edit.type, edit.at)
      table == (events \ {v}) \cup {w}
  IN  /\ Correct
      /\ <<v.email, v.type, v.at>> # <<w.email, w.type, w.at>>
      /\ (w.type = "ghost_inferred") <=> (w.email = Nobody)
      /\ \A u \in events : Id(u) # Id(w)
      /\ events' = table
      /\ apps' = [apps EXCEPT ![v.app] = [TimelineSummary(@, EventsOf(v.app, table))
                                            EXCEPT !.locked = TRUE]]
      /\ corrections' = corrections \cup {Correction("event_edit", v.app, {Id(v), Id(w)})}
      /\ UNCHANGED <<conflicts, tasks>>

MergedStatus(s, t) ==
  LET priority == <<"offer", "rejected", "withdrawn", "interview", "assessment",
                    "in_review", "ghosted", "applied">>
  IN  priority[CHOOSE n \in DOMAIN priority :
                 /\ priority[n] \in {s, t}
                 /\ \A k \in 1 .. n - 1 : priority[k] \notin {s, t}]

MergedSummary(t, s) ==
  [t EXCEPT !.status = MergedStatus(t.status, s.status),
            !.first = IF s.first < @ THEN s.first ELSE @,
            !.last = IF s.last > @ THEN s.last ELSE @,
            !.locked = TRUE]

\* What hangs on an application goes with it where foreign keys are enforced.
Cascade(gone, rows) == {x \in rows : x.app \notin gone}

Reassigned(rows, source, target) ==
  {IF x.app = source THEN [x EXCEPT !.app = target] ELSE x : x \in rows}

\* The source's events and corrections go to the target; its conflicts and its
\* completed interview tasks go with the source.
Merge(target, source) ==
  /\ Correct
  /\ target # source
  /\ apps' = [a \in DOMAIN apps \ {source} |->
                IF a = target THEN MergedSummary(apps[target], apps[source]) ELSE apps[a]]
  /\ events' = Reassigned(events, source, target)
  /\ corrections' = Reassigned(corrections, source, target)
                      \cup {Correction("merge", target, {source})}
  /\ conflicts' = Cascade({source}, conflicts)
  /\ tasks' = Cascade({source}, tasks)

\* The selected events become an application of their own; both are locked.
Split(source, selected, identity) ==
  LET target == SplitApplication(source, {Id(v) : v \in selected})
      rest   == EventsOf(source, events) \ selected
      fresh  == [status |-> "applied", first |-> 0, last |-> 0, locked |-> TRUE,
                 identity |-> identity]
      after  == RefreshedSummary(apps[source], rest)
  IN  /\ Correct
      /\ selected # {} /\ selected \subseteq EventsOf(source, events) /\ rest # {}
      /\ target \notin DOMAIN apps /\ ~MergedAway(target)
      /\ apps' = [a \in DOMAIN apps \cup {target} |->
                    CASE a = target -> RefreshedSummary(fresh, selected)
                      [] a = source ->
                           [after EXCEPT !.locked = TRUE,
                                         !.status = IF Locked(a) THEN apps[a].status ELSE @]
                      [] OTHER -> apps[a]]
      /\ events' = (events \ selected) \cup {[v EXCEPT !.app = target] : v \in selected}
      /\ corrections' = corrections \cup {Correction("split", source, {})}
      /\ UNCHANGED <<conflicts, tasks>>

ResetLock(a) ==
  LET mine == EventsOf(a, events)
  IN  /\ Correct
      /\ apps[a].locked
      /\ apps' = [apps EXCEPT ![a] = [IF mine = {} THEN @ ELSE RefreshedSummary(@, mine)
                                        EXCEPT !.locked = FALSE]]
      /\ corrections' = corrections \cup {Correction("reset_lock", a, {})}
      /\ UNCHANGED <<events, conflicts, tasks>>

\* AttentionService.complete.
CompleteInterview(v) ==
  /\ Correct
  /\ v.type = "interview_scheduled"
  /\ tasks' = IF Completed(v) THEN tasks ELSE tasks \cup {[app |-> v.app, about |-> Id(v)]}
  /\ UNCHANGED <<apps, events, corrections, conflicts>>

-----------------------------------------------------------------------------
Init ==
  /\ apps = <<>> /\ events = {} /\ corrections = {} /\ conflicts = {} /\ tasks = {}
  /\ reading = [m \in Mail |-> "unread"]
  /\ now \in Clock /\ corrected = 0

Tick ==
  /\ now' \in {t \in Clock : t > now}
  /\ UNCHANGED <<apps, events, corrections, conflicts, tasks, reading, corrected>>

\* Messages are read after they were sent.
Automatic ==
  \/ \E batch \in Batches : (\A r \in batch : r.mail <= now) /\ Aggregate(batch)
  \/ InferGhosts

Manual ==
  \/ \E a \in DOMAIN apps, s \in EditStatuses : EditStatus(a, s)
  \/ \E v \in events, e \in EventEdits : EditEvent(v, e)
  \/ \E s, t \in DOMAIN apps : Merge(t, s)
  \/ \E a \in DOMAIN apps, i \in Identities :
       \E selected \in SUBSET EventsOf(a, events) : Split(a, selected, i)
  \/ \E a \in DOMAIN apps : ResetLock(a)
  \/ \E v \in events : CompleteInterview(v)

Next == Automatic \/ Manual \/ Tick

Spec == Init /\ [][Next]_vars

-----------------------------------------------------------------------------
(* Properties.                                                             *)

Summaries == [status: Statuses, first: Times, last: Times, locked: BOOLEAN,
              identity: Identities \cup {Nobody}]

\* Rows are well-formed, ids are unique, an event has a message unless it is a ghost,
\* and no event is left without its application, which no foreign key sees to.
TypeOK ==
  /\ \A a \in DOMAIN apps : apps[a] \in Summaries
  /\ \A v \in events : /\ v.app \in DOMAIN apps
                       /\ v.type \in EventTypes /\ v.at \in Times
                       /\ IF v.type = "ghost_inferred" THEN v.email = Nobody
                                                       ELSE v.email \in Mail
  /\ \A v, w \in events : Id(v) = Id(w) => v = w
  /\ \A c \in conflicts : c.mail \in Mail
  /\ reading \in [Mail -> ReadingTypes \cup {"unread"}] /\ now \in Clock

\* Applications the user had no hand in: not corrected, nor split off.
Untouched == {a \in DOMAIN apps : a \notin {c.app : c \in corrections} /\ a[1] = "key"}

\* However often mail is read again and ghosts come and go, the status and last
\* activity of an application are those its timeline replays to.
AutomaticFollowsTimeline ==
  \A a \in Untouched :
    LET table == EventsOf(a, events)
    IN  table # {} => apps[a].status = TimelineStatus(table) /\ apps[a].last = LastAt(table)

\* A message tells one thing about the applications the user left alone: reading it
\* again replaces what it told before, in whatever attempt that was.
OneEventPerMail ==
  \A v, w \in {u \in events : u.email # Nobody /\ u.app \in Untouched} :
    v.email = w.email => v = w

\* Only the user changes a locked application or takes events from it.
LocksHold ==
  \A a \in DOMAIN apps :
    apps[a].locked => /\ a \in DOMAIN apps' /\ apps'[a] = apps[a]
                      /\ EventsOf(a, events) \subseteq EventsOf(a, events')

\* An event the user edited stays as edited, after the lock was reset too.
EditsSurvive == \A v \in events : EventEdited(v.app, Id(v)) => v \in events'

\* An interview the user marked done does not come back.
DoneStaysDone == \A v \in events \cap events' : Completed(v) => Completed(v)'

\* What the user decided is not undone by aggregation, inference or time.
UserDecides == [][corrected' = corrected => LocksHold /\ EditsSurvive /\ DoneStaysDone]_vars

\* Applications whose ghosts are the program's affair: not locked, without edited
\* events, and no ghost of theirs was split off (its id would be taken).
Unattended(a) == /\ ~Locked(a) /\ Edits(a) = {}
                 /\ \A v \in Ghosts(events) : v.origin = a => v.app = a

\* Nothing is left to infer.
Settled == Haunting = [events |-> events, apps |-> apps]

\* Once a run has nothing to change, a ghost stands for silence: an application
\* without an answer, as old as the threshold, dated from the last sign of life.
GhostsJustified ==
  Settled => \A a \in DOMAIN apps :
    LET mine   == EventsOf(a, events)
        others == mine \ Ghosts(mine)
    IN  Ghosts(mine) # {} /\ Unattended(a) =>
          /\ Applied(others) # {} /\ ~Answered(others)
          /\ {v.at : v \in Ghosts(mine)} = {LastAt(others) + GhostAfter}
          /\ LastAt(others) + GhostAfter <= now

\* A message newly read as evidence is in a timeline or in a conflict shown to the
\* user, unless its application was merged away.
EvidenceAccounted ==
  [][\A m \in Mail : reading'[m] # reading[m] /\ reading'[m] \in LifecycleTypes =>
       \/ \E v \in events' : v.email = m
       \/ \E c \in conflicts' : c.mail = m
       \/ \E c \in corrections : c.kind = "merge" /\ \E a \in c.about : a[2] = Thread[m]]_vars
=============================================================================
