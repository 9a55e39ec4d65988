------------------------------ MODULE Metrics ------------------------------
(***************************************************************************)
(* What the dashboard, the interview task list and the chat's structured   *)
(* queries report of the applications and their timelines: reads of the    *)
(* tables of ApplicationTimeline.  A count is kept as the set it counts.   *)
(***************************************************************************)
EXTENDS ApplicationTimeline

CONSTANTS
  Skills,          \* identity -> the tech stack extracted for it
  Outbound,        \* the messages the user sent
  FollowUpAfter,   \* follow_up_threshold_days
  Filters          \* the filters asked for

Anyone == Identities \cup {Nobody}

\* Filters on company, role, salary and the like choose among identities.
MetricsFilter ==
  [statuses: SUBSET Statuses, identities: SUBSET Anyone, from: Nat, to: Nat]

ASSUME MetricsConstants ==
  /\ DOMAIN Skills = Anyone /\ Outbound \subseteq Mail
  /\ FollowUpAfter \in Nat \ {0}
  /\ Filters \subseteq MetricsFilter /\ \A f \in Filters : f.from <= f.to

Timeline(a) == EventsOf(a, events)
OfType(types, table) == {v \in table : v.type \in types}

\* Not a row that only follow-up mail speaks for.
Submitted(a) == ~OnlyFollowUps(Timeline(a))

Counted(f) == {a \in DOMAIN apps : /\ apps[a].status \in f.statuses
                                   /\ apps[a].identity \in f.identities
                                   /\ f.from <= apps[a].first /\ apps[a].first <= f.to
                                   /\ Submitted(a)}

With(types, f) == {a \in Counted(f) : OfType(types, Timeline(a)) # {}}
\* MUTANT: any offer counts as one after an interview.
WithLater_Bug(first, later, f) == With({later}, f)

WithLater(first, later, f) ==
  {a \in Counted(f) : \E v \in OfType({first}, Timeline(a)), w \in OfType({later}, Timeline(a)) :
                        Precedes(v, w)}
CountedBetween(start, end, f) == {a \in Counted(f) : start <= apps[a].first /\ apps[a].first < end}
Companies(selected) == {apps[a].identity : a \in selected} \ {Nobody}

Live(f) == {a \in Counted(f) :
              /\ apps[a].status \in {"applied", "in_review", "assessment", "interview", "offer"}
              /\ now - GhostAfter <= apps[a].last}
Successful(f) == With({"interview_scheduled", "offer"}, f)
Negative(f) == {a \in Counted(f) : apps[a].status \in {"rejected", "ghosted"}}
InterviewInvitations(f) == UNION {OfType({"interview_scheduled"}, Timeline(a)) : a \in Counted(f)}

\* The days from an application to the first event of some kind after it.
DaysToFirst(types, f) ==
  LET after(a) == {v \in OfType(types, Timeline(a)) : apps[a].first <= v.at}
  IN  [a \in {b \in Counted(f) : after(b) # {}} |-> FirstAt(after(a)) - apps[a].first]

\* Silence: nothing since the latest application.
Evidence(a) == Timeline(a) \ Ghosts(Timeline(a))
Silent(f) == {a \in Counted(f) : /\ Applied(Evidence(a)) # {}
                                 /\ apps[a].status # "withdrawn"
                                 /\ ~Answered(Evidence(a))}
SilenceDays(a) ==
  LET days == now - Latest(Applied(Evidence(a))).at IN IF days < 0 THEN 0 ELSE days

\* MUTANT: the query does not look for an answer.
ThresholdGhosted_Bug(f) ==
  {a \in Counted(f) : /\ Applied(Evidence(a)) # {}
                      /\ Latest(Evidence(a)).at <= now - GhostAfter}

ThresholdGhosted(f) ==
  {a \in Counted(f) : /\ Applied(Evidence(a)) # {}
                      /\ Latest(Evidence(a)).at <= now - GhostAfter
                      /\ ~Answered(Evidence(a))}

-----------------------------------------------------------------------------
(* The dashboard.                                                          *)

ResponseSilence(f) ==
  [total |-> Counted(f), responses |-> With(ResponseLike, f),
   silent |-> Counted(f) \ With(ResponseLike, f)]

Summary(f) ==
  [total |-> Counted(f), live |-> Live(f), companies |-> Companies(Counted(f)),
   offers |-> With({"offer"}, f), ghosted |-> ThresholdGhosted(f),
   rejected |-> With({"rejection"}, f), invitations |-> InterviewInvitations(f),
   response_days |-> DaysToFirst(ResponseLike, f),
   rejection_days |-> DaysToFirst({"rejection"}, f),
   silent |-> Silent(f)]

Rate(numerator, denominator) == [numerator |-> numerator, denominator |-> denominator]
RatesOf(silence, f) ==
  [response  |-> Rate(silence.responses, silence.total),
   rejection |-> Rate(With({"rejection"}, f), silence.total),
   ghost     |-> Rate(ThresholdGhosted(f), silence.total),
   application_to_interview |-> Rate(With({"interview_scheduled"}, f), silence.total),
   interview_to_offer |-> Rate(WithLater("interview_scheduled", "offer", f),
                               With({"interview_scheduled"}, f))]
Rates(f) == RatesOf(ResponseSilence(f), f)

\* The interview stage counts companies, the others applications.
Funnel(f) ==
  [applied |-> Counted(f), screen |-> ResponseSilence(f).responses,
   interview |-> Companies(With({"interview_scheduled"}, f)), final |-> {},
   offer |-> WithLater("interview_scheduled", "offer", f)]

ByDay(counted) ==
  [d \in {apps[a].first : a \in counted} |-> {a \in counted : apps[a].first = d}]
Timeseries(f) == ByDay(Counted(f))
TrendOf(days, responses) == [d \in DOMAIN days |-> Rate(days[d] \cap responses, days[d])]
ResponseRateTrend(f) == TrendOf(Timeseries(f), With(ResponseLike, f))

\* A breakdown has a row per value of a dimension: each application has one value,
\* at worst "unknown" (Nobody), but any number of skills.
Segmented(values, parts) ==
  [x \in UNION {values[a] : a \in parts.applications} |->
     [part \in DOMAIN parts |-> {a \in parts[part] : x \in values[a]}]]
Breakdown(values, f) ==
  Segmented(values,
    [applications |-> Counted(f), responses |-> With(ResponseLike, f),
     interviews |-> With({"interview_scheduled"}, f), offers |-> With({"offer"}, f),
     successes |-> Successful(f), negatives |-> Negative(f)])
ByIdentity == [a \in DOMAIN apps |-> {apps[a].identity}]
BySkill == [a \in DOMAIN apps |-> Skills[apps[a].identity]]

\* Diagnostics: the rows whose rate is above (below) that of all applications.
Above(n, d, baseline, total) == n * total > baseline * d
Lifted(rows, part, baseline, all) ==
  {x \in DOMAIN rows : Above(Cardinality(rows[x][part]), Cardinality(rows[x].applications),
                             Cardinality(baseline), Cardinality(all))}
Sunk(rows, part, baseline, all) ==
  {x \in DOMAIN rows : Above(Cardinality(baseline), Cardinality(all),
                             Cardinality(rows[x][part]), Cardinality(rows[x].applications))}
Outliers(rows, skills, silence, f) ==
  [strongest |-> Lifted(rows, "responses", silence.responses, silence.total),
   weakest   |-> Sunk(rows, "responses", silence.responses, silence.total),
   successful |-> Lifted(rows, "successes", Successful(f), silence.total),
   negative  |-> Lifted(rows, "negatives", Negative(f), silence.total),
   selling   |-> {x \in DOMAIN skills : skills[x].interviews # {}},
   dead_weight |-> Sunk(skills, "responses", silence.responses, silence.total),
   adjacent  |-> {x \in DOMAIN rows : rows[x].successes # {}}]
Diagnostics(f) == Outliers(Breakdown(ByIdentity, f), Breakdown(BySkill, f), ResponseSilence(f), f)

-----------------------------------------------------------------------------
(* Interview tasks: per company the latest interview of all.               *)

Interviews == {v \in events : v.type = "interview_scheduled" /\ apps[v.app].identity # Nobody}
Interviewed ==
  {v \in Interviews : \A w \in Interviews :
     apps[w.app].identity = apps[v.app].identity => w.at <= v.at}
Active(v, days) == apps[v.app].status = "interview" /\ v.at >= now - days
Prepare(days) == {v \in Interviewed : Active(v, days) /\ ~Completed(v)}
FollowUp(days, wait) ==
  {v \in Interviewed : /\ Active(v, days) /\ Completed(v) /\ v.at <= now - wait
                       /\ ~\E w \in Timeline(v.app) : w.at > v.at /\ w.type \in ResponseLike}

-----------------------------------------------------------------------------
(* The chat's structured queries.                                          *)

\* [start, end) as the inclusive filter of the dashboard.
DateWindow(start, end, f) ==
  [f EXCEPT !.from = IF start > @ THEN start ELSE @, !.to = IF end - 1 < @ THEN end - 1 ELSE @]

SummaryCounts(f) ==
  [total |-> Counted(f), companies |-> Companies(Counted(f)), offers |-> With({"offer"}, f),
   ghosted |-> ThresholdGhosted(f), rejected |-> With({"rejection"}, f),
   invitations |-> InterviewInvitations(f), responses |-> ResponseSilence(f).responses,
   silent |-> ResponseSilence(f).silent]

FutureInterview(a) == \E v \in OfType({"interview_scheduled"}, Timeline(a)) : v.at > now
LatestEvent(a) == CHOOSE v \in Timeline(a) : v.at = LastAt(Timeline(a))
Inbound(v) == v.email # Nobody /\ v.email \notin Outbound
WaitingOnEmployer(a) ==
  \/ Timeline(a) = {}
  \/ ~Inbound(LatestEvent(a)) \/ LatestEvent(a).type = "applied"
LiveApplications(f) ==
  {a \in DOMAIN apps : /\ apps[a].status \in f.statuses \cap {"applied", "in_review", "interview"}
                       /\ apps[a].identity \in f.identities
                       /\ f.from <= apps[a].first /\ apps[a].first <= f.to
                       /\ ~FutureInterview(a)}
DaysWaiting(a) ==
  LET days == now - (IF Timeline(a) = {} THEN apps[a].last ELSE LastAt(Timeline(a)))
  IN  IF days < 0 THEN 0 ELSE days
FollowUpDue(f) ==
  {a \in LiveApplications(f) : WaitingOnEmployer(a) /\ DaysWaiting(a) >= FollowUpAfter}

-----------------------------------------------------------------------------
(* Properties.                                                             *)

Unfiltered ==
  [statuses |-> Statuses, identities |-> Anyone, from |-> 0, to |-> Horizon + GhostAfter]
Simultaneous(a) == \E v, w \in Timeline(a) : v.at = w.at /\ v # w

\* The silence histogram and the ghost count are two queries: among what was not
\* withdrawn, they find the same applications beyond the ghost threshold.
SilenceAgreesWithGhosts ==
  \A f \in Filters :
    {a \in Silent(f) : SilenceDays(a) >= GhostAfter} =
    {a \in ThresholdGhosted(f) : apps[a].status # "withdrawn"}

\* Ghost inference (Python) and the ghost count (SQL) agree: once a run has nothing to
\* change, what the dashboard counts as ghosted is what carries a ghost, where the
\* user left it alone.
GhostCountAgreesWithInference ==
  Settled => {a \in ThresholdGhosted(Unfiltered) : Unattended(a)} =
             {a \in DOMAIN apps : Ghosts(Timeline(a)) # {} /\ Submitted(a) /\ Unattended(a)}

\* The chat and the dashboard give the same numbers, within a date window too.
ChatAgreesWithDashboard ==
  \A f \in Filters :
    /\ LET chat == SummaryCounts(f)
           dashboard == Summary(f)
       IN  \A part \in DOMAIN chat \ {"responses", "silent"} : chat[part] = dashboard[part]
    /\ \A start, end \in Mail : start < end =>
         Counted(DateWindow(start, end, f)) = CountedBetween(start, end, f)

\* Where silence is counted, the live list of the chat says that the employer is the
\* one to answer, and a follow-up is due when its time has come.  (Of simultaneous events
\* the live list picks one by its hash, and the silence query the one sent last.)
SilentAreFollowedUp ==
  \A f \in Filters : \A a \in Silent(f) \cap LiveApplications(f) :
    a \in Untouched /\ ~Simultaneous(a) =>
      (a \in FollowUpDue(f) <=> SilenceDays(a) >= FollowUpAfter)

\* The interview list and the dashboard's funnel name the same companies, and an interview
\* to prepare or to follow up is one where the chat says that it is the user's turn.
InterviewsAgree ==
  /\ Funnel(Unfiltered).interview \subseteq {apps[v.app].identity : v \in Interviewed}
  /\ \A v \in Interviewed :
       v.app \in Untouched => apps[v.app].identity \in Funnel(Unfiltered).interview
  /\ \A days, wait \in Clock : \A v \in Prepare(days) \cup FollowUp(days, wait) :
       v.app \in Untouched /\ ~Simultaneous(v.app) =>
         (WaitingOnEmployer(v.app) <=> LatestEvent(v.app).email \in Outbound)

\* No application is lost between the segments of a breakdown or the days of a
\* timeseries, and none is counted twice.
AddUp(parts, whole) ==
  /\ UNION {parts[x] : x \in DOMAIN parts} = whole
  /\ \A x, y \in DOMAIN parts : x # y => parts[x] \cap parts[y] = {}

SegmentTotals(f, rows, rates, days, trend) ==
  LET column(part) == [x \in DOMAIN rows |-> rows[x][part]]
  IN  /\ AddUp(column("applications"), rates.response.denominator)
      /\ AddUp(column("responses"), rates.response.numerator)
      /\ AddUp(column("interviews"), rates.application_to_interview.numerator)
      /\ AddUp(column("successes"), Successful(f))
      /\ AddUp(column("negatives"), Negative(f))
      /\ AddUp(days, Funnel(f).applied)
      /\ AddUp([d \in DOMAIN trend |-> trend[d].numerator], rates.response.numerator)

\* The rates of the dashboard are shares: MetricRate refuses a numerator above its
\* denominator, and the page fails.
RatesAreShares(rates) ==
  \A x \in DOMAIN rates : Cardinality(rates[x].numerator) <= Cardinality(rates[x].denominator)

\* The segments are compared with the rate of all they add up to: where one is above
\* it another is below, and none is both.
OutliersBalance(found) ==
  /\ found.strongest \cap found.weakest = {}
  /\ found.strongest = {} <=> found.weakest = {}

\* Advice on skills compares: one is dead weight only where others were answered, and
\* one that sells was answered.  What succeeds more often than the rest is suggested.
AdviceFounded(skills, responses, found) ==
  /\ \A x \in found.dead_weight : responses \ skills[x].responses # {}
  /\ \A x \in found.selling : skills[x].responses # {}
  /\ found.successful \subseteq found.adjacent

PageAddsUp(f, rates, trend) ==
  /\ SegmentTotals(f, Breakdown(ByIdentity, f), rates, Timeseries(f), trend)
  /\ RatesAreShares(rates) /\ RatesAreShares(trend)
  /\ OutliersBalance(Diagnostics(f))
  /\ AdviceFounded(Breakdown(BySkill, f), rates.response.numerator, Diagnostics(f))

\* The numbers of one page fit together: segments, days, rates and outliers.
SegmentsAddUp == \A f \in Filters : PageAddsUp(f, Rates(f), ResponseRateTrend(f))

\* Dashboard, chat, ghost inference and follow-up list are different queries, in SQL and
\* in Python, over the same tables: they agree.
ViewsAgree ==
  /\ SilenceAgreesWithGhosts /\ GhostCountAgreesWithInference
  /\ ChatAgreesWithDashboard /\ SilentAreFollowedUp /\ InterviewsAgree
=============================================================================
