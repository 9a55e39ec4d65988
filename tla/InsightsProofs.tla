--------------------------- MODULE InsightsProofs ---------------------------
(***************************************************************************)
(* An insight that is listed as fresh, and that no change of the data      *)
(* overtook while it was written, is made from what its inputs are now.    *)
(***************************************************************************)
EXTENDS Insights, TLAPS

\* What the language model is writing from is what its inputs are, or it has been
\* overtaken.
WritesCurrent ==
  \A g \in Generators : generating[g] # Ready /\ ~generating[g].overtaken =>
    generating[g].inputs = Inputs(generating[g].limit)

\* The fields that the triggers set are there.
Markable ==
  /\ DOMAIN generating = Generators
  /\ \A g \in Generators : generating[g] # Ready => "overtaken" \in DOMAIN generating[g]
  /\ insight # Absent => "stale" \in DOMAIN insight

CurrentInv == FreshIsCurrent /\ WritesCurrent /\ Markable

-----------------------------------------------------------------------------
\* What an insight is made from is a function of the tables and of its type.
LEMMA InputsUnchanged ==
  ASSUME UNCHANGED <<status, timeline, type>>, Evidence' = Evidence, NEW limit
  PROVE  Inputs(limit)' = Inputs(limit)
<1>1. Tracked' = Tracked
  BY DEF Tracked
<1>2. Scoped' = Scoped
  BY DEF Scoped, InScope
<1>3. Facts' = Facts
  <2>1. ByStatus' = ByStatus /\ RejectedSkills' = RejectedSkills
    BY <1>1 DEF ByStatus, RejectedSkills
  <2>2. ByKind' = ByKind
    BY DEF ByKind
  <2>3. RoleOutcomes(Scoped)' = RoleOutcomes(Scoped)
    BY <1>2 DEF RoleOutcomes
  <2> QED BY <1>1, <2>1, <2>2, <2>3 DEF Facts
<1>4. Clipped(Scoped, limit)' = Clipped(Scoped, limit)
  BY <1>2 DEF Clipped
<1> QED BY <1>2, <1>3, <1>4 DEF Inputs

LEMMA EvidenceUnchanged ==
  ASSUME UNCHANGED source
  PROVE  Evidence' = Evidence
BY DEF Evidence, Tracked, EventsOf, source

\* A body that no event cites is not evidence.
LEMMA UncitedBody ==
  ASSUME UNCHANGED <<status, timeline>>, NEW i \in FromMail, timeline[i] = Absent,
         bodies' = bodies \ {i} \/ bodies' = bodies \cup {i}
  PROVE  Evidence' = Evidence
<1>1. i # NoItem /\ i \in Items
  BY InsightConstants DEF NoItem
<1>2. Tracked' = Tracked /\ \A a : EventsOf(a)' = EventsOf(a)
  BY DEF Tracked, EventsOf
<1>3. \A j : j # i => (j \in bodies' <=> j \in bodies)
  OBVIOUS
<1>4. \A a : i \notin EventsOf(a)
  BY DEF EventsOf
<1> DEFINE row(a, j) == [application |-> a, item |-> j, status |-> status[a],
                         kind |-> IF j = NoItem THEN Absent ELSE timeline[j],
                         body |-> j \in bodies]
           rows(a) == IF EventsOf(a) = {} THEN {row(a, NoItem)} ELSE {row(a, j) : j \in EventsOf(a)}
<1>5. \A a, j : j # i => row(a, j)' = row(a, j)
  BY <1>3
<1>6. \A a : rows(a)' = rows(a)
  BY <1>1, <1>2, <1>4, <1>5
<1>7. /\ \A r : r \in Evidence <=> \E a \in Tracked : r \in rows(a)
      /\ \A r : r \in Evidence' <=> \E a \in Tracked' : r \in rows(a)'
  BY DEF Evidence
<1> HIDE DEF row, rows
<1>8. \A r : r \in Evidence' <=> r \in Evidence
  BY <1>2, <1>6, <1>7
<1> QED BY <1>8 DEF Evidence

-----------------------------------------------------------------------------
\* A step that leaves the tables alone keeps what was current so.
LEMMA SourceKept ==
  ASSUME CurrentInv, UNCHANGED <<source, type>>, NEW limit
  PROVE  Inputs(limit)' = Inputs(limit)
BY InputsUnchanged, EvidenceUnchanged DEF source

\* A step that fires a trigger leaves nothing that claims to be current.
LEMMA MarksStale ==
  ASSUME CurrentInv, MarkStale(TRUE)
  PROVE  CurrentInv'
<1>1. /\ insight' = IF insight = Absent THEN insight ELSE [insight EXCEPT !.stale = TRUE]
      /\ generating' = Overtaken
  BY DEF MarkStale
<1>2. FreshIsCurrent'
  BY <1>1 DEF CurrentInv, Markable, FreshIsCurrent
<1>3. \A g \in Generators : generating'[g] # Ready =>
        "overtaken" \in DOMAIN generating'[g] /\ generating'[g].overtaken
  BY <1>1 DEF Overtaken, CurrentInv, Markable
<1>4. WritesCurrent'
  BY <1>3 DEF WritesCurrent
<1>5. Markable'
  BY <1>1, <1>3 DEF CurrentInv, Markable, Overtaken
<1> QED BY <1>2, <1>4, <1>5 DEF CurrentInv

LEMMA InsightStep ==
  ASSUME CurrentInv, [InsightNext]_insightVars
  PROVE  CurrentInv'
<1>1. CASE UNCHANGED insightVars
  BY <1>1, SourceKept DEF CurrentInv, FreshIsCurrent, WritesCurrent, Markable, insightVars, source
<1>2. ASSUME NEW g \in Generators, NEW limit \in Limits, NEW force \in BOOLEAN,
             Regenerate(g, limit, force)
      PROVE  CurrentInv'
  <2>1. UNCHANGED <<source, type>> /\ generating[g] = Ready
    BY <1>2 DEF Regenerate
  <2>2. \A l : Inputs(l)' = Inputs(l)
    BY <2>1, SourceKept
  <2>3. CASE Insufficient(Inputs(limit))
    <3>1. UNCHANGED generating
          /\ insight' = Stored(Inputs(limit), limit, Inputs(limit).evidence, FALSE)
      BY <1>2, <2>3 DEF Regenerate
    <3>2. insight'.inputs = Inputs(limit) /\ insight'.limit = limit /\ "stale" \in DOMAIN insight'
      BY <3>1 DEF Stored
    <3> QED BY <3>1, <3>2, <2>2 DEF CurrentInv, FreshIsCurrent, WritesCurrent, Markable
  <2>4. CASE ~Insufficient(Inputs(limit))
    <3>1. UNCHANGED insight
          /\ generating' = [generating EXCEPT ![g] =
                 [state |-> "waiting", inputs |-> Inputs(limit), limit |-> limit,
                  overtaken |-> FALSE]]
      BY <1>2, <2>4 DEF Regenerate
    <3>2. /\ generating'[g].inputs = Inputs(limit) /\ generating'[g].limit = limit
          /\ "overtaken" \in DOMAIN generating'[g]
      BY <3>1 DEF CurrentInv, Markable
    <3>3. \A h \in Generators : h # g => generating'[h] = generating[h]
      BY <3>1 DEF CurrentInv, Markable
    <3>4. DOMAIN generating' = Generators
      BY <3>1 DEF CurrentInv, Markable
    <3> QED BY <3>1, <3>2, <3>3, <3>4, <2>2 DEF CurrentInv, FreshIsCurrent, WritesCurrent, Markable
  <2> QED BY <2>3, <2>4
<1>3. ASSUME NEW g \in Generators, Generated(g) \/ GenerationFails(g)
      PROVE  CurrentInv'
  <2>1. UNCHANGED <<source, type>> /\ generating[g] # Ready
        /\ generating' = [generating EXCEPT ![g] = Ready]
    BY <1>3 DEF Generated, GenerationFails
  <2>2. \A l : Inputs(l)' = Inputs(l)
    BY <2>1, SourceKept
  <2>3. /\ \A h \in Generators : generating'[h] = IF h = g THEN Ready ELSE generating[h]
        /\ DOMAIN generating' = Generators
    BY <2>1 DEF CurrentInv, Markable
  <2>4. WritesCurrent'
    BY <2>2, <2>3 DEF CurrentInv, WritesCurrent
  <2>5. CASE UNCHANGED insight
    BY <2>2, <2>3, <2>4, <2>5 DEF CurrentInv, FreshIsCurrent, Markable
  <2>6. CASE Generated(g)
    <3>1. PICK cites : insight' = Stored(generating[g].inputs, generating[g].limit, cites,
                                         generating[g].overtaken)
      BY <2>6 DEF Generated
    <3>2. /\ insight'.inputs = generating[g].inputs /\ insight'.limit = generating[g].limit
          /\ insight'.overtaken = generating[g].overtaken /\ "stale" \in DOMAIN insight'
      BY <3>1 DEF Stored
    <3>3. FreshIsCurrent'
      BY <3>2, <2>1, <2>2 DEF CurrentInv, WritesCurrent, FreshIsCurrent
    <3> QED BY <3>2, <3>3, <2>3, <2>4 DEF CurrentInv, Markable
  <2> QED BY <1>3, <2>5, <2>6 DEF GenerationFails
<1>4. ASSUME NEW a \in Applications, ChangeApplication(a) PROVE CurrentInv'
  BY <1>4, MarksStale DEF ChangeApplication
<1>5. ASSUME NEW i \in Items, ChangeEvent(i) PROVE CurrentInv'
  BY <1>5, MarksStale DEF ChangeEvent
<1>6. ASSUME NEW i \in FromMail, ChangeBody(i) PROVE CurrentInv'
  <2>1. CASE timeline[i] # Absent
    BY <1>6, <2>1, MarksStale DEF ChangeBody
  <2>2. CASE timeline[i] = Absent
    <3>1. UNCHANGED <<status, timeline, type, insight, generating>>
          /\ (bodies' = bodies \ {i} \/ bodies' = bodies \cup {i})
      BY <1>6, <2>2 DEF ChangeBody, MarkStale
    <3>2. \A l : Inputs(l)' = Inputs(l)
      BY <3>1, <2>2, UncitedBody, InputsUnchanged
    <3> QED BY <3>1, <3>2 DEF CurrentInv, FreshIsCurrent, WritesCurrent, Markable
  <2> QED BY <2>1, <2>2
<1> QED BY <1>1, <1>2, <1>3, <1>4, <1>5, <1>6 DEF InsightNext

\* An insight listed as fresh is made from what its inputs are now: no path by which
\* applications, events or mail change leaves it fresh, unless the model was writing.
THEOREM InsightsCurrent == InsightSpec => []FreshIsCurrent
<1>1. InsightInit => CurrentInv
  BY DEF InsightInit, CurrentInv, FreshIsCurrent, WritesCurrent, Markable
<1>2. CurrentInv /\ [InsightNext]_insightVars => CurrentInv'
  BY InsightStep
<1>3. CurrentInv => FreshIsCurrent
  BY DEF CurrentInv
<1> QED BY <1>1, <1>2, <1>3, PTL DEF InsightSpec
=============================================================================
