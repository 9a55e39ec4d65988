--------------------- MODULE ApplicationTimelineProofs ---------------------
(***************************************************************************)
(* Theorems about ApplicationTimeline and Metrics, for any mail, threads,  *)
(* identities, batches, edits, thresholds and clock, and any number of     *)
(* corrections by the user.                                                *)
(***************************************************************************)
EXTENDS Metrics, FiniteSetTheorems, NaturalsInduction, TLAPS

-----------------------------------------------------------------------------
(* Numbers and times.                                                      *)

LEMMA LeastNumber ==
  ASSUME NEW T, T \subseteq Nat, T # {}
  PROVE  \E n \in T : \A k \in T : n <= k
<1>1. PICK n \in T : \A k \in T : ~(<<k, n>> \in OpToRel(<, Nat))
  BY WFMin, NatLessThanWellFounded
<1>2. \A k \in T : ~(k < n)
  BY <1>1 DEF OpToRel
<1>. QED  BY <1>2

LEMMA GreatestNumber ==
  ASSUME NEW N \in Nat, NEW T, T \subseteq 0 .. N, T # {}
  PROVE  \E n \in T : \A k \in T : k <= n
<1> DEFINE U == {N - k : k \in T}
<1>1. U \subseteq Nat /\ U # {}
  <2>1. \A k \in T : N - k \in Nat
    OBVIOUS
  <2>. QED  BY <2>1
<1>2. PICK u \in U : \A k \in U : u <= k
  <2> HIDE DEF U
  <2> QED  BY <1>1, LeastNumber
<1>3. PICK n \in T : u = N - n
  BY <1>2
<1>4. \A k \in T : N - n <= N - k
  BY <1>2, <1>3
<1>. QED  BY <1>4

LEMMA HorizonLast == Horizon \in Clock /\ \A t \in Clock : t <= Horizon
BY TimelineConstants DEF Horizon

LEMMA TimesNatural ==
  /\ Horizon \in Nat /\ GhostAfter \in Nat \ {0} /\ StaleAfter \in Nat \ {0}
  /\ Times = 1 .. Horizon + GhostAfter /\ Times \subseteq 0 .. Horizon + GhostAfter
  /\ Mail \subseteq Times /\ Nobody \notin Mail
BY HorizonLast, TimelineConstants DEF Times

\* Events of messages that were sent and of times the program can compute.
Dated(table) == \A v \in table : v.at \in Times /\ v.email \in Mail \cup {Nobody}
Sent(v) == IF v.email = Nobody THEN v.at ELSE v.email

LEMMA PrecedesDef ==
  ASSUME NEW v, NEW w
  PROVE  Precedes(v, w) <=>
           \/ v.at < w.at
           \/ v.at = w.at /\ Sent(v) < Sent(w)
           \/ v.at = w.at /\ Sent(v) = Sent(w) /\ v.email = Nobody /\ w.email # Nobody
BY DEF Precedes, Sent

LEMMA SentIsTime ==
  ASSUME NEW table, Dated(table), NEW v \in table
  PROVE  Sent(v) \in Times
BY TimesNatural DEF Dated, Sent

\* An event that no other follows: the last by date, then by message, then by evidence.
LEMMA LatestExists ==
  ASSUME NEW table, Dated(table), table # {}
  PROVE  \E v \in table : \A w \in table : ~Precedes(v, w)
<1> DEFINE N == Horizon + GhostAfter
           ats == {v.at : v \in table}
<1>0. N \in Nat /\ Times \subseteq 0 .. N
  BY TimesNatural
<1>1. ats \subseteq 0 .. N /\ ats # {}
  BY <1>0 DEF Dated
<1>2. PICK last \in ats : \A k \in ats : k <= last
  <2> HIDE DEF ats, N
  <2> QED  BY <1>0, <1>1, GreatestNumber
<1> DEFINE lasts == {v \in table : v.at = last}
           sents == {Sent(v) : v \in lasts}
<1>3. lasts # {} /\ \A v \in lasts : Sent(v) \in 0 .. N
  BY <1>0, <1>2, SentIsTime
<1>4. sents \subseteq 0 .. N /\ sents # {}
  BY <1>3
<1>5. PICK sent \in sents : \A k \in sents : k <= sent
  <2> HIDE DEF sents, N
  <2> QED  BY <1>0, <1>4, GreatestNumber
<1>6. PICK v \in lasts : Sent(v) = sent /\ ((\E w \in lasts : Sent(w) = sent /\ w.email # Nobody) => v.email # Nobody)
  BY <1>5
<1>7. ASSUME NEW w \in table, Precedes(v, w) PROVE FALSE
  <2>1. v \in table /\ v.at = last /\ w.at <= last /\ w.at \in Times /\ last \in Times
    BY <1>2, <1>6 DEF Dated
  <2>2. w.at = last
    BY <2>1, <1>7, PrecedesDef, TimesNatural
  <2>3. Sent(w) <= Sent(v) /\ Sent(w) \in Times /\ Sent(v) \in Times
    BY <2>1, <2>2, <1>5, <1>6, SentIsTime
  <2>4. Sent(v) = Sent(w) /\ v.email = Nobody /\ w.email # Nobody
    BY <2>1, <2>2, <2>3, <1>7, PrecedesDef, TimesNatural
  <2>5. w \in lasts /\ Sent(w) = sent
    BY <2>2, <2>4, <1>6
  <2>. QED  BY <2>4, <2>5, <1>6
<1>. QED  BY <1>6, <1>7

LEMMA LatestIs ==
  ASSUME NEW table, Dated(table), table # {}
  PROVE  /\ Latest(table) \in table
         /\ \A w \in table : ~Precedes(Latest(table), w)
         /\ \A w \in table : w.at <= Latest(table).at
<1>1. Latest(table) \in table /\ \A w \in table : ~Precedes(Latest(table), w)
  BY LatestExists DEF Latest
<1>2. ASSUME NEW w \in table PROVE w.at <= Latest(table).at
  <2>1. ~(Latest(table).at < w.at) /\ w.at \in Times /\ Latest(table).at \in Times
    BY <1>1, PrecedesDef DEF Dated
  <2>. QED  BY <2>1, TimesNatural
<1>. QED  BY <1>1, <1>2

LEMMA FirstLast ==
  ASSUME NEW table, Dated(table), table # {}
  PROVE  /\ FirstAt(table) \in Times /\ \A v \in table : FirstAt(table) <= v.at
         /\ \E v \in table : v.at = FirstAt(table)
         /\ LastAt(table) \in Times /\ \A v \in table : v.at <= LastAt(table)
         /\ \E v \in table : v.at = LastAt(table)
<1> DEFINE N == Horizon + GhostAfter
           ats == {v.at : v \in table}
<1>0. N \in Nat /\ Times \subseteq 0 .. N
  BY TimesNatural
<1>1. ats \subseteq Times /\ ats \subseteq 0 .. N /\ ats \subseteq Nat /\ ats # {}
  <2>1. ats \subseteq Times /\ ats # {}
    BY DEF Dated
  <2> HIDE DEF ats
  <2>2. ats \subseteq 0 .. N
    BY <2>1, <1>0
  <2>. QED  BY <2>1, <2>2, <1>0
<1>2. \E n \in ats : \A k \in ats : k <= n
  <2> HIDE DEF ats, N
  <2> QED  BY <1>0, <1>1, GreatestNumber
<1>3. \E n \in ats : \A k \in ats : n <= k
  <2> HIDE DEF ats, N
  <2> QED  BY <1>1, LeastNumber
<1>4. FirstAt(table) \in ats /\ \A v \in table : FirstAt(table) <= v.at
  BY <1>3 DEF FirstAt
<1>5. LastAt(table) \in ats /\ \A v \in table : v.at <= LastAt(table)
  BY <1>2 DEF LastAt
<1>. QED  BY <1>1, <1>4, <1>5

LEMMA LatestAtLast ==
  ASSUME NEW table, Dated(table), table # {}
  PROVE  Latest(table).at = LastAt(table)
<1>1. /\ Latest(table) \in table /\ \A w \in table : w.at <= Latest(table).at
      /\ \A v \in table : v.at <= LastAt(table)
  BY LatestIs, FirstLast
<1>2. PICK v \in table : v.at = LastAt(table)
  BY FirstLast
<1>3. Latest(table).at \in Times /\ LastAt(table) \in Times
  BY <1>1, FirstLast DEF Dated
<1>. QED  BY <1>1, <1>2, <1>3, TimesNatural

-----------------------------------------------------------------------------
(* Statuses.                                                               *)

LEMMA TransitionType ==
  ASSUME NEW status \in Statuses, NEW type \in EventTypes
  PROVE  Transition(status, type) \in Statuses
BY DEF Transition, StatusOf, Statuses, EventTypes, LifecycleTypes, AnchoredTypes

LEMMA TimelineStatusType ==
  ASSUME NEW table, Dated(table), \A v \in table : v.type \in EventTypes
  PROVE  TimelineStatus(table) \in Statuses
<1> DEFINE decisive == {v \in table : v.type \notin AnchoredTypes}
           base == IF decisive = {} THEN "applied" ELSE StatusOf(Latest(decisive).type)
<1>1. ASSUME decisive # {} PROVE Latest(decisive) \in decisive
  <2>1. Dated(decisive)
    BY DEF Dated
  <2>. QED  BY <1>1, <2>1, LatestIs
<1>2. base \in Statuses
  <2>1. CASE decisive = {}
    BY <2>1 DEF Statuses
  <2>2. CASE decisive # {}
    <3>1. Latest(decisive).type \in EventTypes \ AnchoredTypes
      BY <2>2, <1>1
    <3>. QED  BY <2>2, <3>1 DEF StatusOf, Statuses, EventTypes, LifecycleTypes, AnchoredTypes
  <2>. QED  BY <2>1, <2>2
<1>3. Transition(base, "response") \in Statuses
  <2> HIDE DEF base
  <2> QED  BY <1>2, TransitionType DEF EventTypes, AnchoredTypes
<1>4. TimelineStatus(table) \in {base, Transition(base, "response")}
  BY DEF TimelineStatus
<1>. QED  BY <1>2, <1>3, <1>4

LEMMA MergedStatusType ==
  ASSUME NEW s \in Statuses, NEW t \in Statuses
  PROVE  MergedStatus(s, t) \in Statuses
<1> DEFINE priority == <<"offer", "rejected", "withdrawn", "interview", "assessment",
                         "in_review", "ghosted", "applied">>
           places == {n \in DOMAIN priority : priority[n] \in {s, t}}
<1>1. DOMAIN priority = 1 .. 8
  OBVIOUS
<1>2. places \subseteq Nat /\ places # {}
  <2>1. \E n \in 1 .. 8 : priority[n] = s
    BY DEF Statuses
  <2>. QED  BY <1>1, <2>1
<1>3. PICK n \in places : \A k \in places : n <= k
  <2> HIDE DEF places
  <2> QED  BY <1>2, LeastNumber
<1>4. /\ n \in DOMAIN priority /\ priority[n] \in {s, t}
      /\ \A k \in 1 .. n - 1 : priority[k] \notin {s, t}
  <2>1. ASSUME NEW k \in 1 .. n - 1, priority[k] \in {s, t} PROVE FALSE
    <3>1. k \in DOMAIN priority
      BY <1>1, <1>3
    <3>2. k \in places
      BY <2>1, <3>1
    <3>. QED  BY <1>1, <1>3, <3>2
  <2>. QED  BY <1>3, <2>1
<1> DEFINE chosen == CHOOSE m \in DOMAIN priority :
                       /\ priority[m] \in {s, t}
                       /\ \A k \in 1 .. m - 1 : priority[k] \notin {s, t}
<1>5. priority[chosen] \in {s, t}
  <2> HIDE DEF priority
  <2> QED  BY <1>4
<1>. QED  BY <1>5 DEF MergedStatus

-----------------------------------------------------------------------------
(* Partition: the extractions of one key, each assigned once, in order.    *)

Before(q, r) == q.at < r.at \/ (q.at = r.at /\ q.mail < r.mail)
Earlier(group, r) == {q \in group : Before(q, r)}
Place(group, r) == Cardinality(Earlier(group, r))

\* A group of extractions: finitely many, one of a message.
Group(group) ==
  /\ IsFiniteSet(group)
  /\ \A r \in group : r.at \in Times /\ r.mail \in Mail
  /\ \A q, r \in group : q.mail = r.mail => q = r

LEMMA GroupNumbers ==
  ASSUME NEW group, Group(group), NEW u \in group
  PROVE  u.at \in Int /\ u.mail \in Int
<1>1. u.at \in Times /\ u.mail \in Mail
  BY DEF Group
<1>2. Times \subseteq Int /\ Mail \subseteq Int
  BY TimesNatural
<1>. QED  BY <1>1, <1>2

LEMMA PlaceGrows ==
  ASSUME NEW group, Group(group), NEW q \in group, NEW r \in group, Before(q, r)
  PROVE  Place(group, q) \in Nat /\ Place(group, r) \in Nat /\ Place(group, q) < Place(group, r)
<1>1. \A u \in group : u.at \in Int /\ u.mail \in Int
  BY GroupNumbers
<1>2. IsFiniteSet(Earlier(group, q)) /\ IsFiniteSet(Earlier(group, r))
  BY FS_Subset DEF Group, Earlier
<1>3. q \notin Earlier(group, q)
  BY <1>1 DEF Earlier, Before
<1>4. Earlier(group, q) \cup {q} \in SUBSET Earlier(group, r)
  BY <1>1 DEF Earlier, Before
<1>5. Cardinality(Earlier(group, q) \cup {q}) = Cardinality(Earlier(group, q)) + 1
  BY <1>2, <1>3, FS_AddElement
<1>6. Cardinality(Earlier(group, q) \cup {q}) <= Cardinality(Earlier(group, r))
  BY <1>2, <1>4, FS_Subset
<1>7. Cardinality(Earlier(group, q)) \in Nat /\ Cardinality(Earlier(group, r)) \in Nat
  BY <1>2, FS_CardinalityType
<1>. QED  BY <1>5, <1>6, <1>7 DEF Place

LEMMA PlaceInRange ==
  ASSUME NEW group, Group(group), NEW r \in group
  PROVE  Place(group, r) \in 0 .. Cardinality(group) - 1
<1>1. r.at \in Int /\ r.mail \in Int
  BY GroupNumbers
<1>2. Earlier(group, r) \in SUBSET (group \ {r})
  BY <1>1 DEF Earlier, Before
<1>3. IsFiniteSet(group \ {r}) /\ Cardinality(group \ {r}) = Cardinality(group) - 1
  BY FS_RemoveElement DEF Group
<1>4. IsFiniteSet(Earlier(group, r)) /\ Cardinality(Earlier(group, r)) <= Cardinality(group) - 1
  BY <1>2, <1>3, FS_Subset
<1>5. Cardinality(Earlier(group, r)) \in Nat /\ Cardinality(group) \in Nat
  BY <1>4, FS_CardinalityType DEF Group
<1>. QED  BY <1>4, <1>5 DEF Place

\* Every place in the order is taken, by one extraction.
LEMMA PlacesTaken ==
  ASSUME NEW group, Group(group), NEW n \in 0 .. Cardinality(group) - 1
  PROVE  \E r \in group : Place(group, r) = n
<1> DEFINE N == Cardinality(group)
           T == 0 .. N - 1
           f == [r \in group |-> Place(group, r)]
<1>0. N \in Nat
  BY FS_CardinalityType DEF Group
<1>1. IsFiniteSet(T) /\ Cardinality(T) = N
  BY <1>0, FS_Interval
<1>2. f \in [group -> T]
  BY PlaceInRange
<1>3. ASSUME NEW q \in group, NEW r \in group, f[q] = f[r] PROVE q = r
  <2>1. \A u \in group : u.at \in Int /\ u.mail \in Int
    BY GroupNumbers
  <2>2. q.mail # r.mail => Before(q, r) \/ Before(r, q)
    BY <2>1 DEF Before
  <2>3. q.mail # r.mail => Place(group, q) # Place(group, r)
    BY <2>2, PlaceGrows
  <2>. QED  BY <1>3, <2>3 DEF Group
<1>4. f \in Injection(group, T)
  <2> HIDE DEF f, T, N
  <2> QED  BY <1>2, <1>3 DEF Injection, IsInjective
<1>5. f \in Surjection(group, T)
  <2> HIDE DEF f, T
  <2>1. IsFiniteSet(T) => (Cardinality(group) = Cardinality(T) <=> f \in Surjection(group, T))
    BY <1>4, FS_Injection
  <2>. QED  BY <1>1, <2>1
<1>. QED  BY <1>5 DEF Surjection

LEMMA OnePerPlace ==
  ASSUME NEW group, Group(group), NEW q \in group, NEW r \in group,
         Place(group, q) = Place(group, r)
  PROVE  q = r
<1>1. \A u \in group : u.at \in Int /\ u.mail \in Int
  BY GroupNumbers
<1>2. q.mail # r.mail => Before(q, r) \/ Before(r, q)
  BY <1>1 DEF Before
<1>. QED  BY <1>2, PlaceGrows DEF Group

\* What Partition has after n extractions: its recursion, one step of it, and a function
\* that follows it.
Started(attempts) == [attempts |-> attempts, events |-> {}]
Placed(group, acc, n) ==
  CHOOSE after \in {Assign(before, r) : before \in {acc},
                                        r \in {q \in group : Place(group, q) = n - 1}} : TRUE
Follows(f, N, attempts, group) ==
  f = [n \in 0 .. N |-> IF n = 0 THEN Started(attempts) ELSE Placed(group, f[n - 1], n)]

LEMMA RecursionExists ==
  ASSUME NEW attempts, NEW group, NEW N \in Nat
  PROVE  \E f : Follows(f, N, attempts, group)
<1> DEFINE Bad == {n \in Nat : ~\E f : Follows(f, n, attempts, group)}
<1>1. 0 \notin Bad
  <2> DEFINE f == [n \in 0 .. 0 |-> Started(attempts)]
  <2>1. f = [n \in 0 .. 0 |-> IF n = 0 THEN Started(attempts) ELSE Placed(group, f[n - 1], n)]
    OBVIOUS
  <2>. QED  BY <2>1 DEF Follows
<1>2. ASSUME NEW n \in Nat, n \notin Bad PROVE n + 1 \notin Bad
  <2>1. PICK f : Follows(f, n, attempts, group)
    BY <1>2
  <2> DEFINE g == [k \in 0 .. n + 1 |-> IF k = n + 1 THEN Placed(group, f[n], n + 1) ELSE f[k]]
  <2>2. \A k \in 0 .. n : g[k] = f[k]
    OBVIOUS
  <2>3. \A k \in 0 .. n : f[k] = IF k = 0 THEN Started(attempts) ELSE Placed(group, f[k - 1], k)
    BY <2>1 DEF Follows
  <2>4. ASSUME NEW k \in 0 .. n + 1
        PROVE  g[k] = IF k = 0 THEN Started(attempts) ELSE Placed(group, g[k - 1], k)
    <3>1. CASE k = n + 1
      <4>1. k # 0 /\ k - 1 = n /\ g[n] = f[n]
        BY <3>1, <2>2
      <4>. QED  BY <4>1, <3>1
    <3>2. CASE k \in 1 .. n
      <4>1. k # 0 /\ k - 1 \in 0 .. n /\ k \in 0 .. n
        BY <3>2
      <4>. QED  BY <4>1, <2>2, <2>3
    <3>3. CASE k = 0
      BY <3>3, <2>2, <2>3
    <3>. QED  BY <3>1, <3>2, <3>3
  <2>5. g = [k \in 0 .. n + 1 |-> IF k = 0 THEN Started(attempts) ELSE Placed(group, g[k - 1], k)]
    BY <2>4
  <2>6. Follows(g, n + 1, attempts, group)
    <3> HIDE DEF g
    <3> QED  BY <2>5 DEF Follows
  <2>. QED  BY <2>6
<1>3. ASSUME Bad # {} PROVE FALSE
  <2>1. PICK n \in Bad : \A k \in Bad : n <= k
    <3>1. Bad \subseteq Nat
      OBVIOUS
    <3> HIDE DEF Bad
    <3> QED  BY <1>3, <3>1, LeastNumber
  <2>2. n \in Nat /\ n # 0
    BY <1>1, <2>1
  <2>3. n - 1 \in Nat /\ n - 1 \notin Bad
    BY <2>1, <2>2
  <2>4. (n - 1) + 1 \notin Bad
    <3> HIDE DEF Bad
    <3> QED  BY <1>2, <2>3
  <2>. QED  BY <2>1, <2>2, <2>4
<1>. QED  BY <1>3

LEMMA PartitionFollows ==
  ASSUME NEW attempts, NEW group, Group(group)
  PROVE  \E f : /\ Follows(f, Cardinality(group), attempts, group)
                /\ Partition(attempts, group) = f[Cardinality(group)]
<1> DEFINE N == Cardinality(group)
<1>0. N \in Nat
  BY FS_CardinalityType DEF Group
<1>1. \E f : Follows(f, N, attempts, group)
  BY <1>0, RecursionExists
<1> DEFINE acc == CHOOSE f : Follows(f, N, attempts, group)
<1>2. Follows(acc, N, attempts, group)
  BY <1>1
<1>3. Partition(attempts, group) = acc[N]
  BY DEF Partition, Follows, Placed, Place, Earlier, Before, Started
<1>. QED  BY <1>2, <1>3

\* The event of an extraction that is assigned to attempt k.
EventOf(r, k) == Event(Application(Thread[r.mail], r.identity, k), r.mail, r.type, r.at)

LEMMA AssignAdds ==
  ASSUME NEW acc, NEW r
  PROVE  \E k : Assign(acc, r).events = acc.events \cup {EventOf(r, k)}
BY DEF Assign, EventOf

LEMMA EventMail ==
  ASSUME NEW r, NEW k
  PROVE  EventOf(r, k).email = r.mail
BY DEF EventOf, Event

\* The n first extractions have an event each, and nothing else has.
OneEach(table, group, n) ==
  /\ \A p \in table : \E r \in group : Place(group, r) < n /\ \E k : p = EventOf(r, k)
  /\ \A r \in group : Place(group, r) < n => \E p \in table : p.email = r.mail
  /\ \A p, q \in table : p.email = q.email => p = q

LEMMA PlacedAdds ==
  ASSUME NEW group, Group(group), NEW acc, NEW n \in 1 .. Cardinality(group),
         OneEach(acc.events, group, n - 1)
  PROVE  OneEach(Placed(group, acc, n).events, group, n)
<1>0. Cardinality(group) \in Nat
  BY FS_CardinalityType DEF Group
<1>1. PICK r \in group : Place(group, r) = n - 1
  BY <1>0, PlacesTaken
<1> DEFINE outcomes == {Assign(before, q) : before \in {acc},
                                            q \in {u \in group : Place(group, u) = n - 1}}
<1>2. outcomes = {Assign(acc, r)}
  BY <1>1, OnePerPlace
<1>3. Placed(group, acc, n) = Assign(acc, r)
  BY <1>2 DEF Placed
<1>4. PICK k : Assign(acc, r).events = acc.events \cup {EventOf(r, k)}
  BY AssignAdds
<1> DEFINE table == acc.events
           new == EventOf(r, k)
<1>5. \A q \in group : Place(group, q) \in Int
  BY <1>0, PlaceInRange
<1>6. new.email = r.mail
  BY EventMail
<1>7. \A p \in table \cup {new} : \E q \in group : Place(group, q) < n /\ \E j : p = EventOf(q, j)
  <2>1. Place(group, r) < n /\ \E j : new = EventOf(r, j)
    BY <1>1
  <2>2. \A q \in group : Place(group, q) < n - 1 => Place(group, q) < n
    BY <1>5
  <2>3. \A p \in table : \E q \in group : Place(group, q) < n - 1 /\ \E j : p = EventOf(q, j)
    BY DEF OneEach
  <2> HIDE DEF new, table
  <2>. QED  BY <2>1, <2>2, <2>3
<1>8. ASSUME NEW q \in group, Place(group, q) < n PROVE \E p \in table \cup {new} : p.email = q.mail
  <2>1. Place(group, q) < n - 1 \/ Place(group, q) = Place(group, r)
    BY <1>1, <1>5, <1>8
  <2>2. CASE Place(group, q) < n - 1
    BY <2>2 DEF OneEach
  <2>3. CASE Place(group, q) = Place(group, r)
    BY <2>3, <1>6, OnePerPlace
  <2>. QED  BY <2>1, <2>2, <2>3
<1>9. ASSUME NEW p \in table PROVE p.email # r.mail
  <2>1. PICK q \in group : Place(group, q) < n - 1 /\ \E j : p = EventOf(q, j)
    BY DEF OneEach
  <2>2. q # r
    BY <2>1, <1>1, <1>5
  <2>3. p.email = q.mail
    BY <2>1, EventMail
  <2>. QED  BY <2>2, <2>3 DEF Group
<1>10. \A p, q \in table \cup {new} : p.email = q.email => p = q
  <2>1. \A p, q \in table : p.email = q.email => p = q
    BY DEF OneEach
  <2> HIDE DEF new, table
  <2>. QED  BY <2>1, <1>6, <1>9
<1>11. OneEach(table \cup {new}, group, n)
  <2> HIDE DEF new, table
  <2>. QED  BY <1>7, <1>8, <1>10 DEF OneEach
<1>. QED  BY <1>3, <1>4, <1>11

\* Partition gives every extraction of the group one event, and makes no others.
LEMMA PartitionOneEach ==
  ASSUME NEW attempts, NEW group, Group(group)
  PROVE  LET table == Partition(attempts, group).events
         IN  /\ \A p \in table : \E r \in group : \E k : p = EventOf(r, k)
             /\ \A r \in group : \E p \in table : p.email = r.mail
             /\ \A p, q \in table : p.email = q.email => p = q
<1> DEFINE N == Cardinality(group)
<1>0. N \in Nat
  BY FS_CardinalityType DEF Group
<1>1. PICK f : Follows(f, N, attempts, group) /\ Partition(attempts, group) = f[N]
  BY PartitionFollows
<1> DEFINE Bad == {n \in 0 .. N : ~OneEach(f[n].events, group, n)}
<1>2. 0 \notin Bad
  <2>1. f[0].events = {}
    BY <1>0, <1>1 DEF Follows, Started
  <2>2. \A r \in group : ~(Place(group, r) < 0)
    BY PlaceInRange, <1>0
  <2>. QED  BY <2>1, <2>2 DEF OneEach
<1>3. ASSUME NEW n \in 1 .. N, n - 1 \notin Bad PROVE n \notin Bad
  <2>1. f[n] = Placed(group, f[n - 1], n)
    BY <1>0, <1>1 DEF Follows
  <2>2. OneEach(f[n - 1].events, group, n - 1)
    BY <1>0, <1>3
  <2>3. OneEach(Placed(group, f[n - 1], n).events, group, n)
    BY <2>2, PlacedAdds
  <2>. QED  BY <2>1, <2>3
<1>4. Bad = {}
  <2> SUFFICES ASSUME Bad # {} PROVE FALSE
    OBVIOUS
  <2>1. Bad \subseteq Nat
    BY <1>0
  <2>2. PICK n \in Bad : \A k \in Bad : n <= k
    <3> HIDE DEF Bad
    <3> QED  BY <2>1, LeastNumber
  <2>3. n \in 1 .. N
    BY <1>0, <1>2, <2>2
  <2>4. n - 1 \in Nat /\ n - 1 \notin Bad
    <3> HIDE DEF Bad
    <3> QED  BY <1>0, <2>2, <2>3
  <2>. QED  BY <1>3, <2>2, <2>3, <2>4
<1>5. OneEach(f[N].events, group, N)
  BY <1>0, <1>4
<1>6. \A r \in group : Place(group, r) < N
  BY <1>0, PlaceInRange
<1>. QED  BY <1>1, <1>5, <1>6 DEF OneEach

-----------------------------------------------------------------------------
(* What a batch proposes: one event of each anchored extraction.           *)

Somebody == Identities \cup {Nobody}
RowsTyped == \A a \in DOMAIN apps : apps[a] \in Summaries

LEMMA BatchTyped ==
  ASSUME NEW batch \in Batches
  PROVE  /\ \A r \in batch : /\ r = [mail |-> r.mail, type |-> r.type, at |-> r.at,
                                     identity |-> r.identity]
                             /\ r.mail \in Mail /\ r.type \in ReadingTypes /\ r.at \in Times
                             /\ r.identity \in Somebody
         /\ \A q, r \in batch : q.mail = r.mail => q = r
BY TimelineConstants DEF Readings, Somebody

LEMMA InheritedType ==
  ASSUME RowsTyped, NEW batch, NEW r \in batch,
         \A q \in batch : q.at \in Times /\ q.identity \in Somebody
  PROVE  Inherited(r, batch) \in Somebody
<1> DEFINE known == {[identity |-> apps[a].identity, at |-> apps[a].first] :
                       a \in {b \in InThread(Thread[r.mail]) : apps[b].identity # Nobody}}
                    \cup {[identity |-> q.identity, at |-> q.at] :
                       q \in {p \in batch : p.identity # Nobody /\ Thread[p.mail] = Thread[r.mail]}}
           prior == {k \in known : k.at <= r.at}
           before == CHOOSE k \in prior : \A j \in prior : j.at <= k.at
           after == CHOOSE k \in known : \A j \in known : k.at <= j.at
<1>1. \A k \in known : k.identity \in Somebody /\ k.at \in Times
  BY DEF RowsTyped, InThread, Summaries, Somebody
<1>2. Times \subseteq 0 .. Horizon + GhostAfter /\ Times \subseteq Nat /\ Horizon + GhostAfter \in Nat
  BY TimesNatural
<1> HIDE DEF known
<1>3. prior # {} => before \in prior
  <2> SUFFICES ASSUME prior # {} PROVE \E k \in prior : \A j \in prior : j.at <= k.at
    OBVIOUS
  <2> DEFINE ats == {k.at : k \in prior}
  <2>1. ats \subseteq Times /\ ats # {}
    BY <1>1
  <2>2. \E n \in ats : \A m \in ats : m <= n
    <3> HIDE DEF ats, prior
    <3>1. ats \subseteq 0 .. Horizon + GhostAfter
      BY <1>2, <2>1
    <3>. QED  BY <1>2, <2>1, <3>1, GreatestNumber
  <2>. QED  BY <2>2
<1>4. known # {} => after \in known
  <2> SUFFICES ASSUME known # {} PROVE \E k \in known : \A j \in known : k.at <= j.at
    OBVIOUS
  <2> DEFINE ats == {k.at : k \in known}
  <2>1. ats \subseteq Times /\ ats # {}
    BY <1>1
  <2>2. \E n \in ats : \A m \in ats : n <= m
    <3> HIDE DEF ats
    <3>1. ats \subseteq Nat
      BY <1>2, <2>1
    <3>. QED  BY <2>1, <3>1, LeastNumber
  <2>. QED  BY <2>2
<1>5. Inherited(r, batch) = CASE r.identity # Nobody \/ known = {} -> r.identity
                              [] prior # {} -> before.identity
                              [] OTHER -> after.identity
  BY DEF Inherited, known
<1> HIDE DEF prior, before, after
<1>6. CASE r.identity # Nobody \/ known = {}
  <2>1. r.identity # Nobody => r.identity \in Somebody
    OBVIOUS
  <2>2. Inherited(r, batch) \in {r.identity, before.identity, after.identity}
    BY <1>5
  <2>3. prior # {} => before.identity \in Somebody
    BY <1>1, <1>3 DEF prior
  <2>4. prior = {} \/ known # {}
    BY DEF prior
  <2>. QED  BY <1>5, <1>6, <2>3, <2>4
<1>7. CASE r.identity = Nobody /\ known # {} /\ prior # {}
  BY <1>1, <1>3, <1>5, <1>7 DEF prior
<1>8. CASE r.identity = Nobody /\ known # {} /\ prior = {}
  BY <1>1, <1>4, <1>5, <1>8
<1>. QED  BY <1>6, <1>7, <1>8

\* The event of a reading, in the application of a thread, an identity and an attempt.
ReadingEvent(r, i, k) == Event(Application(Thread[r.mail], i, k), r.mail, r.type, r.at)

LEMMA ProposedIs ==
  ASSUME RowsTyped, NEW batch \in Batches
  PROVE  /\ \A p \in Proposed(batch) :
              \E r \in Anchored(batch), i \in Somebody : \E k : p = ReadingEvent(r, i, k)
         /\ \A r \in Anchored(batch) : \E p \in Proposed(batch) : p.email = r.mail
         /\ \A p, q \in Proposed(batch) : p.email = q.email => p = q
<1> DEFINE anchored == Anchored(batch)
           resolved(r) == [r EXCEPT !.identity = Inherited(r, anchored)]
           results == {resolved(r) : r \in anchored}
           key(r) == <<Thread[r.mail], r.identity>>
           keys == {key(r) : r \in results}
           group(k) == {r \in results : key(r) = k}
           events_of(k) == Partition(Attempts(k[1], k[2]), group(k)).events
<1>1. anchored \subseteq batch
  BY DEF Anchored
<1>2. Proposed(batch) = UNION {events_of(k) : k \in keys}
  BY DEF Proposed
<1> HIDE DEF anchored
<1>3. \A r \in anchored :
        /\ resolved(r).mail = r.mail /\ resolved(r).type = r.type /\ resolved(r).at = r.at
        /\ resolved(r).identity \in Somebody
        /\ r.mail \in Mail /\ r.at \in Times
  <2> SUFFICES ASSUME NEW r \in anchored
               PROVE  /\ resolved(r).mail = r.mail /\ resolved(r).type = r.type
                      /\ resolved(r).at = r.at /\ resolved(r).identity \in Somebody
                      /\ r.mail \in Mail /\ r.at \in Times
    OBVIOUS
  <2>1. /\ r = [mail |-> r.mail, type |-> r.type, at |-> r.at, identity |-> r.identity]
        /\ r.mail \in Mail /\ r.at \in Times
    BY <1>1, BatchTyped
  <2>2. Inherited(r, anchored) \in Somebody
    BY <1>1, BatchTyped, InheritedType
  <2>. QED  BY <2>1, <2>2
<1> HIDE DEF resolved
<1>4. \A q, r \in results : q.mail = r.mail => q = r
  <2> SUFFICES ASSUME NEW q \in anchored, NEW r \in anchored, resolved(q).mail = resolved(r).mail
               PROVE  q = r
    OBVIOUS
  <2>. QED  BY <1>1, <1>3, BatchTyped
<1>5. IsFiniteSet(results)
  <2> DEFINE f == [r \in results |-> r.mail]
  <2>1. f \in [results -> Mail]
    BY <1>3
  <2>2. \A q, r \in results : f[q] = f[r] => q = r
    BY <1>4
  <2>3. f \in Injection(results, Mail)
    <3> HIDE DEF f, results
    <3> QED  BY <2>1, <2>2 DEF Injection, IsInjective
  <2>4. IsFiniteSet(Mail)
    BY TimelineConstants
  <2>. QED
    <3> HIDE DEF f, results
    <3> QED  BY <2>3, <2>4, FS_Injection
<1>6. ASSUME NEW k \in keys PROVE Group(group(k))
  <2>1. group(k) \in SUBSET results
    OBVIOUS
  <2>2. IsFiniteSet(group(k))
    <3> HIDE DEF group, results
    <3> QED  BY <1>5, <2>1, FS_Subset
  <2>3. \A r \in results : r.at \in Times /\ r.mail \in Mail
    BY <1>3
  <2> HIDE DEF results
  <2>. QED  BY <2>1, <2>2, <2>3, <1>4 DEF Group
<1>7. ASSUME NEW k \in keys
      PROVE  /\ \A p \in events_of(k) : \E r \in group(k) : \E j : p = EventOf(r, j)
             /\ \A r \in group(k) : \E p \in events_of(k) : p.email = r.mail
             /\ \A p, q \in events_of(k) : p.email = q.email => p = q
  <2> HIDE DEF group
  <2>. QED  BY <1>6, PartitionOneEach
<1> HIDE DEF events_of
<1>8. ASSUME NEW p \in Proposed(batch)
      PROVE  \E r \in anchored, i \in Somebody : \E j : p = ReadingEvent(r, i, j)
  <2>1. PICK k \in keys : p \in events_of(k)
    BY <1>2
  <2>2. PICK s \in group(k) : \E j : p = EventOf(s, j)
    BY <1>7, <2>1
  <2>3. PICK r \in anchored : s = resolved(r)
    BY <2>2
  <2>4. \E j : p = ReadingEvent(r, s.identity, j)
    <3>1. PICK j : p = EventOf(s, j)
      BY <2>2
    <3>2. p = ReadingEvent(r, s.identity, j)
      BY <1>3, <2>3, <3>1 DEF EventOf, ReadingEvent
    <3>. QED  BY <3>2
  <2>. QED  BY <1>3, <2>3, <2>4
<1>9. ASSUME NEW r \in anchored PROVE \E p \in Proposed(batch) : p.email = r.mail
  <2>1. resolved(r) \in results /\ key(resolved(r)) \in keys
    OBVIOUS
  <2>2. resolved(r) \in group(key(resolved(r)))
    BY <2>1
  <2>3. PICK p \in events_of(key(resolved(r))) : p.email = resolved(r).mail
    BY <1>7, <2>1, <2>2
  <2>. QED  BY <1>2, <1>3, <2>1, <2>3
<1>10. ASSUME NEW p \in Proposed(batch), NEW q \in Proposed(batch), p.email = q.email PROVE p = q
  <2>1. PICK k \in keys : p \in events_of(k)
    BY <1>2
  <2>2. PICK j \in keys : q \in events_of(j)
    BY <1>2
  <2>3. PICK r \in group(k) : p.email = r.mail
    BY <1>7, <2>1, EventMail
  <2>4. PICK s \in group(j) : q.email = s.mail
    BY <1>7, <2>2, EventMail
  <2>5. r = s
    BY <1>4, <1>10, <2>3, <2>4
  <2>6. k = j
    BY <2>5
  <2>. QED  BY <1>7, <1>10, <2>1, <2>2, <2>6
<1>. QED  BY <1>8, <1>9, <1>10 DEF anchored

-----------------------------------------------------------------------------
(* The tables.                                                             *)

WellFormed(v) ==
  v = [origin |-> v.origin, app |-> v.app, email |-> v.email, type |-> v.type, at |-> v.at]
EventTyped(v) ==
  /\ WellFormed(v) /\ v.type \in EventTypes /\ v.at \in Times
  /\ IF v.type = "ghost_inferred" THEN v.email = Nobody ELSE v.email \in Mail

EventsTyped == \A v \in events : EventTyped(v) /\ v.app \in DOMAIN apps
IdsUnique == \A v, w \in events : Id(v) = Id(w) => v = w
CorrectionsTyped == \A c \in corrections : c = Correction(c.kind, c.app, c.about)
ConflictsTyped == \A c \in conflicts : c = Conflict(c.app, c.mail) /\ c.mail \in Mail
ReadingTyped == reading \in [Mail -> ReadingTypes \cup {"unread"}]

\* What was merged away has not come back, and who locks leaves a correction or a split.
MergedAreGone ==
  \A c \in corrections : c.kind = "merge" => \A a \in c.about : a \notin DOMAIN apps
LocksExplained ==
  \A a \in DOMAIN apps : apps[a].locked => a[1] = "split" \/ \E c \in corrections : c.app = a

TablesInv ==
  /\ RowsTyped /\ EventsTyped /\ IdsUnique
  /\ CorrectionsTyped /\ ConflictsTyped /\ ReadingTyped
  /\ MergedAreGone /\ LocksExplained
  /\ IsFiniteSet(DOMAIN apps) /\ now \in Clock

LEMMA TablesTyped == TablesInv => TypeOK
<1> SUFFICES ASSUME TablesInv PROVE TypeOK
  OBVIOUS
<1>. QED  BY DEF TypeOK, TablesInv, RowsTyped, EventsTyped, EventTyped, IdsUnique,
             ConflictsTyped, ReadingTyped

LEMMA EventsDated ==
  ASSUME NEW table, \A v \in table : EventTyped(v)
  PROVE  Dated(table)
BY DEF EventTyped, Dated

LEMMA SameId ==
  ASSUME NEW v, NEW w, WellFormed(v), WellFormed(w), Id(v) = Id(w), v.app = w.app
  PROVE  v = w
BY DEF WellFormed, Id

LEMMA IdParts ==
  ASSUME NEW v, NEW w, Id(v) = Id(w)
  PROVE  v.origin = w.origin /\ v.email = w.email /\ v.type = w.type /\ v.at = w.at
BY DEF Id

LEMMA SummaryFields ==
  ASSUME NEW old \in Summaries, NEW table, table # {}, \A v \in table : EventTyped(v)
  PROVE  /\ TimelineSummary(old, table) \in Summaries
         /\ TimelineSummary(old, table).status = TimelineStatus(table)
         /\ TimelineSummary(old, table).last = LastAt(table)
         /\ TimelineSummary(old, table).locked = old.locked
         /\ RefreshedSummary(old, table) \in Summaries
         /\ RefreshedSummary(old, table).status = TimelineStatus(table)
         /\ RefreshedSummary(old, table).last = LastAt(table)
         /\ RefreshedSummary(old, table).locked = old.locked
<1>1. Dated(table) /\ \A v \in table : v.type \in EventTypes
  BY EventsDated DEF EventTyped
<1>2. TimelineStatus(table) \in Statuses /\ LastAt(table) \in Times /\ FirstAt(table) \in Times
  BY <1>1, TimelineStatusType, FirstLast
<1>. QED  BY <1>2 DEF TimelineSummary, RefreshedSummary, Summaries

LEMMA NewSummary ==
  ASSUME NEW table, NEW first, NEW locked, NEW identity, NEW new,
         new = [status |-> "applied", first |-> first, last |-> 0, locked |-> locked,
                identity |-> identity]
  PROVE  /\ TimelineSummary(new, table) \in
              [status : {TimelineStatus(table)}, first : {first}, last : {LastAt(table)},
               locked : {locked}, identity : {identity}]
         /\ RefreshedSummary(new, table) \in
              [status : {TimelineStatus(table)}, first : {FirstAt(table)},
               last : {LastAt(table)}, locked : {locked}, identity : {identity}]
<1>1. new \in [status : {"applied"}, first : {first}, last : {0}, locked : {locked},
               identity : {identity}]
  OBVIOUS
<1>2. TimelineSummary(new, table) \in
        [status : {TimelineStatus(table)}, first : {first}, last : {LastAt(table)},
         locked : {locked}, identity : {identity}]
  BY <1>1 DEF TimelineSummary
<1>. QED  BY <1>2 DEF RefreshedSummary

LEMMA InitTables == Init => TablesInv
<1> SUFFICES ASSUME Init PROVE TablesInv
  OBVIOUS
<1>1. DOMAIN apps = {}
  BY DEF Init
<1>. QED  BY <1>1, FS_EmptySet DEF Init, TablesInv, RowsTyped, EventsTyped, IdsUnique,
            CorrectionsTyped, ConflictsTyped, ReadingTyped, MergedAreGone, LocksExplained

-----------------------------------------------------------------------------
(* Aggregation, step by step.                                              *)

LEMMA ProposedShape ==
  ASSUME RowsTyped, NEW batch \in Batches, NEW p \in Proposed(batch)
  PROVE  /\ EventTyped(p) /\ p.origin = p.app /\ p.email \in Mail
         /\ p.app[1] = "key" /\ p.app[2] = Thread[p.email] /\ IdentityOf(p.app) \in Somebody
         /\ \E r \in batch : r.mail = p.email
<1>1. PICK r \in Anchored(batch), i \in Somebody : \E k : p = ReadingEvent(r, i, k)
  BY ProposedIs
<1>2. r \in batch /\ r.type \in LifecycleTypes \cup AnchoredTypes
  BY DEF Anchored
<1>3. r.mail \in Mail /\ r.at \in Times
  BY <1>2, BatchTyped
<1>. QED
  BY <1>1, <1>2, <1>3 DEF ReadingEvent, Event, Application, IdentityOf, EventTyped, WellFormed,
     LifecycleTypes, AnchoredTypes, EventTypes

\* What an aggregation of a batch deletes, withholds and keeps; the timelines it goes by;
\* what it refuses, renews, inserts and reports; and what is left without events.
Lost(batch) == Deleted(Stale(batch, Proposed(batch)))
Withheld(batch) == Blocked(Stale(batch, Proposed(batch)), Proposed(batch))
Kept(batch) == events \ Lost(batch)
Free(batch) == {p \in Proposed(batch) : \A v \in Withheld(batch) : v.email # p.email}
Told(batch) == Timelines(Free(batch), Kept(batch))
Refused(batch) == {a \in DOMAIN Told(batch) : SummaryRefused(a, Told(batch)[a])}
Open(batch) == {p \in Free(batch) : ~MergedAway(p.app) /\ p.app \notin Refused(batch)}
Barred(batch) == {p \in Open(batch) : EventRefused(p, Kept(batch))}
Renewed(batch) == {a \in DOMAIN Told(batch) : ~MergedAway(a) /\ ~Locked(a)}
Inserted(batch) == {p \in Open(batch) \ Barred(batch) : \A v \in Kept(batch) : Id(v) # Id(p)}
Contested(batch) ==
  Withheld(batch) \cup Barred(batch) \cup {p \in Free(batch) : p.app \in Refused(batch)}
Table(batch) == Kept(batch) \cup Inserted(batch)
Affected(batch) == {v.app : v \in Lost(batch)} \ DOMAIN Told(batch)
Gone(batch) == Emptied(Affected(batch), Table(batch))
Row(batch, a) ==
  CASE a \in Renewed(batch) -> UpsertedApplication(a, Told(batch)[a])
    [] a \in Affected(batch) -> RefreshedSummary(apps[a], EventsOf(a, Table(batch)))
    [] OTHER -> apps[a]

LEMMA AggregateIs ==
  ASSUME NEW batch, Aggregate(batch)
  PROVE  /\ apps' = [a \in (DOMAIN apps \cup Renewed(batch)) \ Gone(batch) |-> Row(batch, a)]
         /\ events' = Table(batch)
         /\ conflicts' = conflicts \cup {Conflict(v.app, v.email) : v \in Contested(batch)}
         /\ UNCHANGED <<corrections, tasks, now, corrected>>
<1>1. Aggregated(batch) =
        Persisted(Lost(batch), Renewed(batch), Inserted(batch), Contested(batch), Told(batch))
  BY DEF Aggregated, Replacing, WithoutStale, Reconciled, Upserted, Lost, Withheld, Free, Kept,
         Told, Refused, Open, Barred, Renewed, Inserted, Contested
<1>2. Persisted(Lost(batch), Renewed(batch), Inserted(batch), Contested(batch), Told(batch)) =
        [apps |-> [a \in (DOMAIN apps \cup Renewed(batch)) \ Gone(batch) |-> Row(batch, a)],
         events |-> Table(batch),
         conflicts |-> conflicts \cup {Conflict(v.app, v.email) : v \in Contested(batch)}]
  BY DEF Persisted, Table, Gone, Affected, Row, Kept
<1>. QED  BY <1>1, <1>2 DEF Aggregate

LEMMA LostFacts ==
  ASSUME NEW batch, NEW v \in Lost(batch)
  PROVE  /\ v \in events /\ ~Locked(v.app) /\ ~Protected(v.app, v)
         /\ \E r \in batch : r.mail = v.email
         /\ \A p \in Proposed(batch) : Id(p) # Id(v)
BY DEF Lost, Deleted, Stale

LEMMA ToldIs ==
  ASSUME NEW batch
  PROVE  /\ DOMAIN Told(batch) = {p.app : p \in Free(batch)}
         /\ \A a \in DOMAIN Told(batch) :
              Told(batch)[a] = EventsOf(a, Kept(batch)) \cup EventsOf(a, Free(batch))
BY DEF Told, Timelines

\* The evidence of an application that something is proposed for.
LEMMA ToldTyped ==
  ASSUME TablesInv, NEW batch \in Batches, NEW a \in DOMAIN Told(batch)
  PROVE  /\ Told(batch)[a] # {} /\ \A v \in Told(batch)[a] : EventTyped(v)
         /\ a[1] = "key" /\ IdentityOf(a) \in Somebody
<1>0. /\ DOMAIN Told(batch) = {p.app : p \in Free(batch)}
      /\ Told(batch)[a] = EventsOf(a, Kept(batch)) \cup EventsOf(a, Free(batch))
  BY ToldIs
<1>1. PICK p \in Free(batch) : a = p.app
  BY <1>0
<1>2. \A q \in Free(batch) : q \in Proposed(batch)
  BY DEF Free
<1>3. \A q \in Free(batch) : EventTyped(q)
  BY <1>2, ProposedShape DEF TablesInv
<1>4. \A v \in Kept(batch) : EventTyped(v)
  BY DEF Kept, TablesInv, EventsTyped
<1>5. p \in Told(batch)[a]
  BY <1>0, <1>1 DEF EventsOf
<1>6. \A v \in Told(batch)[a] : EventTyped(v)
  BY <1>0, <1>3, <1>4 DEF EventsOf
<1>. QED  BY <1>1, <1>2, <1>5, <1>6, ProposedShape DEF TablesInv

\* A correction of an application speaks for itself: the application is there.
LEMMA ProtectedCorrected ==
  ASSUME NEW a, NEW v, Protected(a, v)
  PROVE  \E c \in corrections : c.app = a
BY DEF Protected, EventEdited, MailEdited, Edits

LEMMA GoneFacts ==
  ASSUME TablesInv, NEW batch, NEW a \in Gone(batch)
  PROVE  /\ a \in DOMAIN apps /\ a \notin DOMAIN Told(batch) /\ a \notin Renewed(batch)
         /\ ~Locked(a)
         /\ EventsOf(a, Table(batch)) = {}
BY LostFacts DEF Gone, Emptied, Affected, Renewed, TablesInv, EventsTyped

\* Every event that is left or new has its application.
LEMMA TableHasRows ==
  ASSUME TablesInv, NEW batch \in Batches, NEW v \in Table(batch)
  PROVE  v.app \in (DOMAIN apps \cup Renewed(batch)) \ Gone(batch)
<1>1. v.app \notin Gone(batch)
  BY GoneFacts DEF EventsOf
<1>2. CASE v \in Kept(batch)
  BY <1>1, <1>2 DEF Kept, TablesInv, EventsTyped
<1>3. CASE v \in Inserted(batch)
  <2>1. v \in Free(batch) /\ v.app \notin Refused(batch) /\ ~MergedAway(v.app)
    BY <1>3 DEF Inserted, Open
  <2>2. v.app \in DOMAIN Told(batch)
    BY <2>1, ToldIs
  <2>3. v.app \in Renewed(batch) \/ Locked(v.app)
    BY <2>1, <2>2 DEF Renewed
  <2>. QED  BY <1>1, <2>3 DEF Locked
<1>. QED  BY <1>2, <1>3 DEF Table

\* A conflict names the message of an event.
LEMMA ContestedHaveMail ==
  ASSUME TablesInv, NEW batch \in Batches, NEW v \in Contested(batch)
  PROVE  v.email \in Mail
<1>1. CASE v \in Withheld(batch)
  BY <1>1, BatchTyped DEF Withheld, Blocked, Stale
<1>2. CASE v \notin Withheld(batch)
  <2>1. v \in Proposed(batch)
    BY <1>2 DEF Contested, Barred, Open, Free
  <2>. QED  BY <2>1, ProposedShape DEF TablesInv
<1>. QED  BY <1>1, <1>2

\* A renewed row says what the evidence says, and is not locked.
LEMMA RenewedRow ==
  ASSUME TablesInv, NEW batch \in Batches, NEW a \in Renewed(batch)
  PROVE  /\ Row(batch, a) \in Summaries
         /\ Row(batch, a).status = TimelineStatus(Told(batch)[a])
         /\ Row(batch, a).last = LastAt(Told(batch)[a])
         /\ Row(batch, a).locked = FALSE
<1> DEFINE table == Told(batch)[a]
           new == [status |-> "applied", first |-> FirstAt(table), last |-> 0,
                   locked |-> FALSE, identity |-> IdentityOf(a)]
<1>1. a \in DOMAIN Told(batch) /\ ~Locked(a)
  BY DEF Renewed
<1>2. table # {} /\ (\A v \in table : EventTyped(v)) /\ IdentityOf(a) \in Somebody
  BY <1>1, ToldTyped
<1>3. Dated(table) /\ \A v \in table : v.type \in EventTypes
  BY <1>2, EventsDated DEF EventTyped
<1>4. TimelineStatus(table) \in Statuses /\ FirstAt(table) \in Times /\ LastAt(table) \in Times
  BY <1>2, <1>3, FirstLast, TimelineStatusType
<1>5. Row(batch, a) = IF a \in DOMAIN apps
                      THEN [TimelineSummary(apps[a], table) EXCEPT !.identity = IdentityOf(a)]
                      ELSE TimelineSummary(new, table)
  BY DEF Row, Affected, Renewed, UpsertedApplication
<1> HIDE DEF table
<1>6. CASE a \in DOMAIN apps
  <2>1. apps[a] \in Summaries /\ apps[a].locked = FALSE
    BY <1>1, <1>6 DEF TablesInv, RowsTyped, Locked, Summaries
  <2>2. /\ TimelineSummary(apps[a], table) \in Summaries
        /\ TimelineSummary(apps[a], table).status = TimelineStatus(table)
        /\ TimelineSummary(apps[a], table).last = LastAt(table)
        /\ TimelineSummary(apps[a], table).locked = FALSE
    BY <1>2, <2>1, SummaryFields
  <2>. QED  BY <1>2, <1>5, <1>6, <2>2 DEF Summaries, Somebody, table
<1>7. CASE a \notin DOMAIN apps
  <2>1. TimelineSummary(new, table) \in
          [status : {TimelineStatus(table)}, first : {FirstAt(table)}, last : {LastAt(table)},
           locked : {FALSE}, identity : {IdentityOf(a)}]
    BY NewSummary
  <2> HIDE DEF new
  <2>. QED  BY <1>2, <1>4, <1>5, <1>7, <2>1 DEF Summaries, Somebody, table
<1>. QED  BY <1>6, <1>7

\* A row that lost events and has others is refreshed from them.
LEMMA AffectedRow ==
  ASSUME TablesInv, NEW batch \in Batches, NEW a \in Affected(batch) \ Gone(batch)
  PROVE  /\ a \in DOMAIN apps /\ a \notin Renewed(batch)
         /\ Row(batch, a) \in Summaries
         /\ Row(batch, a).status = TimelineStatus(EventsOf(a, Table(batch)))
         /\ Row(batch, a).last = LastAt(EventsOf(a, Table(batch)))
         /\ Row(batch, a).locked = FALSE
<1> DEFINE table == EventsOf(a, Table(batch))
<1>1. a \in DOMAIN apps /\ ~Locked(a) /\ a \notin Renewed(batch)
  BY LostFacts DEF Affected, Renewed, TablesInv, EventsTyped
<1>2. table # {}
  BY DEF Gone, Emptied
<1>3. \A v \in table : EventTyped(v)
  <2>1. \A v \in Kept(batch) : EventTyped(v)
    BY DEF Kept, TablesInv, EventsTyped
  <2>2. \A v \in Inserted(batch) : EventTyped(v)
    BY ProposedShape DEF Inserted, Open, Free, TablesInv
  <2>. QED  BY <2>1, <2>2 DEF Table, EventsOf
<1>4. apps[a] \in Summaries /\ apps[a].locked = FALSE
  BY <1>1 DEF TablesInv, RowsTyped, Locked, Summaries
<1>5. Row(batch, a) = RefreshedSummary(apps[a], table)
  BY <1>1 DEF Row
<1>. QED
  <2> HIDE DEF table
  <2>1. /\ RefreshedSummary(apps[a], table) \in Summaries
        /\ RefreshedSummary(apps[a], table).status = TimelineStatus(table)
        /\ RefreshedSummary(apps[a], table).last = LastAt(table)
        /\ RefreshedSummary(apps[a], table).locked = FALSE
    BY <1>2, <1>3, <1>4, SummaryFields
  <2>. QED  BY <1>1, <1>5, <2>1 DEF table

LEMMA RenewedFinite ==
  ASSUME TablesInv, NEW batch \in Batches
  PROVE  IsFiniteSet(Renewed(batch))
<1> DEFINE P == Proposed(batch)
           f == [p \in P |-> p.email]
           A == {p.app : p \in P}
           g == [p \in P |-> p.app]
<1>1. (\A p, q \in P : p.email = q.email => p = q) /\ \A p \in P : p.email \in Mail
  BY ProposedIs, ProposedShape DEF TablesInv
<1> HIDE DEF P
<1>2. f \in Injection(P, Mail)
  <2>1. f \in [P -> Mail] /\ \A p, q \in P : f[p] = f[q] => p = q
    BY <1>1
  <2> HIDE DEF f
  <2>. QED  BY <2>1 DEF Injection, IsInjective
<1>3. IsFiniteSet(P)
  <2> HIDE DEF f
  <2>. QED  BY <1>2, TimelineConstants, FS_Injection
<1>4. g \in Surjection(P, A)
  <2>1. g \in [P -> A] /\ \A a \in A : \E p \in P : g[p] = a
    OBVIOUS
  <2> HIDE DEF g, A
  <2>. QED  BY <2>1 DEF Surjection
<1>5. IsFiniteSet(A)
  <2> HIDE DEF g, A
  <2>. QED  BY <1>3, <1>4, FS_Surjection
<1>6. Renewed(batch) \in SUBSET A
  <2>0. DOMAIN Told(batch) = {p.app : p \in Free(batch)}
    BY ToldIs
  <2>1. \A a \in Renewed(batch) : \E p \in Free(batch) : a = p.app
    BY <2>0 DEF Renewed
  <2>. QED  BY <2>1 DEF Free, P
<1>. QED
  <2> HIDE DEF A
  <2>. QED  BY <1>5, <1>6, FS_Subset

LEMMA OtherRow ==
  ASSUME NEW batch, NEW a, a \notin Renewed(batch), a \notin Affected(batch)
  PROVE  Row(batch, a) = apps[a]
BY DEF Row

\* What is read anew is what the batch says.
LEMMA AggregateReads ==
  ASSUME NEW batch \in Batches, ReadingTyped, Aggregate(batch)
  PROVE  /\ ReadingTyped'
         /\ \A r \in batch : reading'[r.mail] = r.type
         /\ \A m \in Mail : (\A r \in batch : r.mail # m) => reading'[m] = reading[m]
<1> DEFINE read(m) == CHOOSE r \in batch : r.mail = m
<1>1. reading' = [m \in Mail |-> IF \E r \in batch : r.mail = m THEN read(m).type ELSE reading[m]]
  BY DEF Aggregate
<1>2. \A r \in batch : r.mail \in Mail /\ read(r.mail) = r /\ r.type \in ReadingTypes
  BY BatchTyped
<1> HIDE DEF read
<1>3. ReadingTyped'
  BY <1>1, <1>2 DEF ReadingTyped
<1>. QED  BY <1>1, <1>2, <1>3

LEMMA AggregateTables ==
  ASSUME TablesInv, NEW batch \in Batches, Aggregate(batch)
  PROVE  TablesInv'
<1>1. /\ apps' = [a \in (DOMAIN apps \cup Renewed(batch)) \ Gone(batch) |-> Row(batch, a)]
      /\ events' = Table(batch)
      /\ conflicts' = conflicts \cup {Conflict(v.app, v.email) : v \in Contested(batch)}
      /\ corrections' = corrections /\ now' = now
  BY AggregateIs
<1>2. /\ DOMAIN apps' = (DOMAIN apps \cup Renewed(batch)) \ Gone(batch)
      /\ \A a \in DOMAIN apps' : apps'[a] = Row(batch, a)
  BY <1>1
<1>3. \A v \in Inserted(batch) : v \in Proposed(batch) /\ EventTyped(v)
  BY ProposedShape DEF Inserted, Open, Free, TablesInv
<1>4. \A v \in Kept(batch) : v \in events /\ EventTyped(v)
  BY DEF Kept, TablesInv, EventsTyped
<1>5. RowsTyped'
  <2> SUFFICES ASSUME NEW a \in DOMAIN apps' PROVE apps'[a] \in Summaries
    BY DEF RowsTyped
  <2>1. CASE a \in Renewed(batch)
    BY <1>2, <2>1, RenewedRow
  <2>2. CASE a \in Affected(batch)
    BY <1>2, <2>2, AffectedRow
  <2>3. CASE a \notin Renewed(batch) /\ a \notin Affected(batch)
    BY <1>2, <2>3, OtherRow DEF TablesInv, RowsTyped
  <2>. QED  BY <2>1, <2>2, <2>3
<1>6. EventsTyped'
  <2> SUFFICES ASSUME NEW v \in Table(batch) PROVE EventTyped(v) /\ v.app \in DOMAIN apps'
    BY <1>1 DEF EventsTyped
  <2>1. EventTyped(v)
    BY <1>3, <1>4 DEF Table
  <2>2. v.app \in DOMAIN apps'
    BY <1>2, TableHasRows
  <2>. QED  BY <2>1, <2>2
<1>7. IdsUnique'
  <2> SUFFICES ASSUME NEW v \in Table(batch), NEW w \in Table(batch), Id(v) = Id(w) PROVE v = w
    BY <1>1 DEF IdsUnique
  <2>1. CASE v \in Kept(batch) /\ w \in Kept(batch)
    BY <1>4, <2>1 DEF TablesInv, IdsUnique
  <2>2. CASE v \in Inserted(batch) /\ w \in Inserted(batch)
    BY <1>3, <2>2, IdParts, ProposedIs DEF TablesInv
  <2>. QED  BY <2>1, <2>2 DEF Table, Inserted
<1>8. CorrectionsTyped'
  BY <1>1 DEF TablesInv, CorrectionsTyped
<1>9. ConflictsTyped'
  <2> SUFFICES ASSUME NEW c \in conflicts' PROVE c = Conflict(c.app, c.mail) /\ c.mail \in Mail
    BY DEF ConflictsTyped
  <2>1. CASE c \in conflicts
    BY <2>1 DEF TablesInv, ConflictsTyped
  <2>2. CASE c \notin conflicts
    <3>1. PICK v \in Contested(batch) : c = Conflict(v.app, v.email)
      BY <1>1, <2>2
    <3>2. c = Conflict(c.app, c.mail) /\ c.mail = v.email
      BY <3>1 DEF Conflict
    <3>. QED  BY <3>2, ContestedHaveMail
  <2>. QED  BY <2>1, <2>2
<1>10. ReadingTyped'
  BY AggregateReads DEF TablesInv, ReadingTyped
<1>11. MergedAreGone'
  <2> SUFFICES ASSUME NEW c \in corrections', c.kind = "merge", NEW a \in c.about
               PROVE  a \notin DOMAIN apps'
    BY DEF MergedAreGone
  <2>1. c \in corrections
    BY <1>1
  <2>2. a \notin DOMAIN apps /\ MergedAway(a)
    BY <2>1 DEF TablesInv, MergedAreGone, MergedAway
  <2>. QED  BY <1>2, <2>2 DEF Renewed
<1>12. LocksExplained'
  <2> SUFFICES ASSUME NEW a \in DOMAIN apps', apps'[a].locked
               PROVE  a[1] = "split" \/ \E c \in corrections' : c.app = a
    BY DEF LocksExplained
  <2>1. a \notin Renewed(batch) /\ a \notin Affected(batch)
    BY <1>2, RenewedRow, AffectedRow
  <2>2. a \in DOMAIN apps /\ apps[a].locked
    BY <1>2, <2>1, OtherRow
  <2>. QED  BY <1>1, <2>2 DEF TablesInv, LocksExplained
<1>13. IsFiniteSet(DOMAIN apps')
  <2>1. IsFiniteSet(DOMAIN apps \cup Renewed(batch))
    BY RenewedFinite, FS_Union DEF TablesInv
  <2>2. DOMAIN apps' \in SUBSET (DOMAIN apps \cup Renewed(batch))
    BY <1>2
  <2>. QED  BY <2>1, <2>2, FS_Subset
<1>14. now' \in Clock
  BY <1>1 DEF TablesInv
<1>. QED
  BY <1>5, <1>6, <1>7, <1>8, <1>9, <1>10, <1>11, <1>12, <1>13, <1>14 DEF TablesInv

-----------------------------------------------------------------------------
(* Ghost inference, step by step.                                          *)

\* Whose ghosts are retracted and what is left; who is ghosted and with what; the
\* timelines then, and the rows of the applications touched.
Retracted ==
  {a \in DOMAIN apps :
     /\ Ghosts(EventsOf(a, events)) # {} /\ ~Locked(a) /\ Unfounded(a)
     /\ \A v \in Ghosts(EventsOf(a, events)) : ~EventEdited(a, Id(v))}
Left == {v \in events : ~(v.app \in Retracted /\ v.type = "ghost_inferred")}
GhostOf(a) == Event(a, Nobody, "ghost_inferred", Latest(EventsOf(a, Left)).at + GhostAfter)
Ghosted == {a \in DOMAIN apps : GhostCandidate(a, Left) /\ ~EventEdited(a, Id(GhostOf(a)))}
NewGhosts == {g \in {GhostOf(a) : a \in Ghosted} : \A v \in Left : Id(v) # Id(g)}
HauntedTable == Left \cup NewGhosts
Touched == Retracted \cup Ghosted
HauntedRow(a) ==
  LET old == apps[a] mine == EventsOf(a, HauntedTable)
  IN  IF mine = {} THEN [old EXCEPT !.status = "applied"] ELSE TimelineSummary(old, mine)

LEMMA HauntingIs ==
  Haunting = [events |-> HauntedTable,
              apps   |-> [a \in DOMAIN apps |-> IF a \in Touched THEN HauntedRow(a) ELSE apps[a]]]
<1> DEFINE haunted == {a \in DOMAIN apps : Ghosts(EventsOf(a, events)) # {} /\ ~Locked(a)}
           silent == {a \in DOMAIN apps : GhostCandidate(a, Left)}
<1>1. {a \in haunted : /\ Unfounded(a)
                       /\ \A v \in Ghosts(EventsOf(a, events)) : ~EventEdited(a, Id(v))} = Retracted
  BY DEF Retracted
<1>2. {a \in silent : ~EventEdited(a, Id(GhostOf(a)))} = Ghosted
  BY DEF Ghosted
<1>. QED
  BY <1>1, <1>2, Zenon DEF Haunting, Left, GhostOf, NewGhosts, HauntedTable, Touched, HauntedRow

\* Where no answer and no ghost follows, the latest application is the last sign of life.
LEMMA LatestUnanswered ==
  ASSUME NEW table, \A v \in table : EventTyped(v),
         Applied(table) # {}, Ghosts(table) = {}, ~Answered(table)
  PROVE  /\ Latest(Applied(table)) \in Applied(table)
         /\ Latest(table).at = Latest(Applied(table)).at
         /\ LastAt(table) = Latest(table).at /\ LastAt(Applied(table)) = Latest(table).at
         /\ Latest(table).at \in Times
<1> DEFINE sent == Applied(table)
<1>1. Dated(table) /\ Dated(sent) /\ table # {}
  BY EventsDated DEF Applied, Dated
<1>2. \A v \in table : v \notin sent => v.type \in ResponseLike
  BY DEF EventTyped, Applied, Ghosts, EventTypes, ResponseLike
<1>3. /\ Latest(sent) \in sent /\ Latest(sent).at = LastAt(sent)
      /\ \A v \in sent : v.at <= Latest(sent).at
  BY <1>1, LatestIs, LatestAtLast
<1>4. /\ Latest(table) \in table /\ \A v \in table : v.at <= Latest(table).at
      /\ Latest(table).at = LastAt(table)
  BY <1>1, LatestIs, LatestAtLast
<1>5. sent \subseteq table
  BY DEF Applied
<1>6. \A v \in table : v.at \in Nat /\ v.at \in Times
  BY <1>1, TimesNatural DEF Dated
<1>7. Latest(table).at <= Latest(sent).at
  <2>1. CASE Latest(table) \in sent
    BY <1>3, <2>1
  <2>2. CASE Latest(table) \notin sent
    <3>1. ~Precedes(Latest(sent), Latest(table))
      BY <1>2, <1>4, <2>2 DEF Answered
    <3>2. ~(Latest(sent).at < Latest(table).at)
      BY <3>1, PrecedesDef
    <3>. QED  BY <1>3, <1>4, <1>5, <1>6, <3>2
  <2>. QED  BY <2>1, <2>2
<1>8. Latest(table).at = Latest(sent).at
  BY <1>3, <1>4, <1>5, <1>6, <1>7
<1>. QED  BY <1>3, <1>4, <1>6, <1>8

\* A ghost is dated from the latest application: nothing answered it.
LEMMA GhostDate ==
  ASSUME TablesInv, NEW a, GhostCandidate(a, Left)
  PROVE  GhostOf(a).at <= now /\ EventTyped(GhostOf(a))
<1> DEFINE table == EventsOf(a, Left)
<1>1. /\ Applied(table) # {} /\ LastAt(Applied(table)) + GhostAfter <= now
      /\ Ghosts(table) = {} /\ ~Answered(table)
  BY DEF GhostCandidate
<1>2. \A v \in table : EventTyped(v)
  BY DEF EventsOf, Left, TablesInv, EventsTyped
<1>3. LastAt(Applied(table)) = Latest(table).at /\ Latest(table).at \in Times
  BY <1>1, <1>2, LatestUnanswered
<1>4. GhostOf(a).at = Latest(table).at + GhostAfter
  BY DEF GhostOf, Event
<1>5. now <= Horizon /\ now \in Nat
  BY HorizonLast, TimelineConstants DEF TablesInv
<1>6. GhostOf(a).at <= now /\ GhostOf(a).at \in Times
  BY <1>1, <1>3, <1>4, <1>5, TimesNatural
<1>7. EventTyped(GhostOf(a))
  BY <1>6 DEF GhostOf, Event, EventTyped, WellFormed, EventTypes
<1>. QED  BY <1>6, <1>7

LEMMA LeftTyped ==
  ASSUME TablesInv, NEW v \in HauntedTable
  PROVE  EventTyped(v) /\ v.app \in DOMAIN apps
<1>1. CASE v \in Left
  BY <1>1 DEF Left, TablesInv, EventsTyped
<1>2. CASE v \in NewGhosts
  <2>1. PICK a \in Ghosted : v = GhostOf(a)
    BY <1>2 DEF NewGhosts
  <2>. QED  BY <2>1, GhostDate DEF Ghosted, GhostOf, Event
<1>. QED  BY <1>1, <1>2 DEF HauntedTable

LEMMA HauntedRowIs ==
  ASSUME TablesInv, NEW a \in DOMAIN apps
  PROVE  /\ HauntedRow(a) \in Summaries /\ HauntedRow(a).locked = apps[a].locked
         /\ EventsOf(a, HauntedTable) # {} =>
              /\ HauntedRow(a).status = TimelineStatus(EventsOf(a, HauntedTable))
              /\ HauntedRow(a).last = LastAt(EventsOf(a, HauntedTable))
<1> DEFINE mine == EventsOf(a, HauntedTable)
<1>1. apps[a] \in Summaries
  BY DEF TablesInv, RowsTyped
<1>2. CASE mine = {}
  <2>1. HauntedRow(a) = [apps[a] EXCEPT !.status = "applied"]
    BY <1>2 DEF HauntedRow
  <2>. QED  BY <1>1, <1>2, <2>1 DEF Summaries, Statuses
<1>3. CASE mine # {}
  <2>1. \A v \in mine : EventTyped(v)
    BY LeftTyped DEF EventsOf
  <2>2. HauntedRow(a) = TimelineSummary(apps[a], mine)
    BY <1>3 DEF HauntedRow
  <2> HIDE DEF mine
  <2>3. /\ TimelineSummary(apps[a], mine) \in Summaries
        /\ TimelineSummary(apps[a], mine).status = TimelineStatus(mine)
        /\ TimelineSummary(apps[a], mine).last = LastAt(mine)
        /\ TimelineSummary(apps[a], mine).locked = apps[a].locked
    BY <1>1, <1>3, <2>1, SummaryFields
  <2>. QED  BY <2>2, <2>3 DEF mine
<1>. QED  BY <1>2, <1>3

\* What one inference makes of the tables.
LEMMA InferIs ==
  ASSUME InferGhosts
  PROVE  /\ events' = HauntedTable
         /\ DOMAIN apps' = DOMAIN apps
         /\ \A a \in DOMAIN apps : apps'[a] = IF a \in Touched THEN HauntedRow(a) ELSE apps[a]
         /\ UNCHANGED <<corrections, conflicts, tasks, reading, now, corrected>>
BY HauntingIs DEF InferGhosts

LEMMA GhostTables ==
  ASSUME TablesInv, InferGhosts
  PROVE  TablesInv'
<1>1. /\ events' = HauntedTable
      /\ DOMAIN apps' = DOMAIN apps
      /\ \A a \in DOMAIN apps : apps'[a] = IF a \in Touched THEN HauntedRow(a) ELSE apps[a]
      /\ corrections' = corrections /\ conflicts' = conflicts
      /\ reading' = reading /\ now' = now
  BY InferIs
<1>2. RowsTyped'
  <2> SUFFICES ASSUME NEW a \in DOMAIN apps PROVE apps'[a] \in Summaries
    BY <1>1 DEF RowsTyped
  <2>. QED  BY <1>1, HauntedRowIs DEF TablesInv, RowsTyped
<1>3. EventsTyped'
  BY <1>1, LeftTyped DEF EventsTyped
<1>4. IdsUnique'
  <2> SUFFICES ASSUME NEW v \in HauntedTable, NEW w \in HauntedTable, Id(v) = Id(w) PROVE v = w
    BY <1>1 DEF IdsUnique
  <2>1. CASE v \in Left /\ w \in Left
    BY <2>1 DEF Left, TablesInv, IdsUnique
  <2>2. CASE v \in NewGhosts /\ w \in NewGhosts
    <3>1. PICK a \in Ghosted : v = GhostOf(a)
      BY <2>2 DEF NewGhosts
    <3>2. PICK b \in Ghosted : w = GhostOf(b)
      BY <2>2 DEF NewGhosts
    <3>3. v.origin = w.origin /\ v.origin = a /\ w.origin = b
      BY <3>1, <3>2, IdParts DEF GhostOf, Event
    <3>. QED  BY <3>1, <3>2, <3>3
  <2>. QED  BY <2>1, <2>2 DEF HauntedTable, NewGhosts
<1>5. CorrectionsTyped' /\ ConflictsTyped' /\ ReadingTyped' /\ MergedAreGone'
  BY <1>1 DEF TablesInv, CorrectionsTyped, ConflictsTyped, ReadingTyped, MergedAreGone
<1>6. LocksExplained'
  BY <1>1, HauntedRowIs DEF TablesInv, LocksExplained
<1>. QED  BY <1>1, <1>2, <1>3, <1>4, <1>5, <1>6 DEF TablesInv

-----------------------------------------------------------------------------
(* The user's corrections, step by step.                                   *)

\* An event under another application is the same event.
LEMMA MovedEvent ==
  ASSUME NEW v, EventTyped(v), NEW a, NEW w, w = [v EXCEPT !.app = a]
  PROVE  /\ EventTyped(w) /\ Id(w) = Id(v) /\ w.app = a
         /\ w.origin = v.origin /\ w.email = v.email /\ w.type = v.type /\ w.at = v.at
<1>1. w = [origin |-> v.origin, app |-> a, email |-> v.email, type |-> v.type, at |-> v.at]
  BY DEF EventTyped, WellFormed
<1>. QED  BY <1>1 DEF EventTyped, WellFormed, Id

\* What a correction of an application locks, it explains.
LEMMA LocksStay ==
  ASSUME LocksExplained, NEW b, NEW kind, NEW about,
         corrections' = corrections \cup {Correction(kind, b, about)},
         \A a \in DOMAIN apps' :
           a = b \/ a[1] = "split" \/ (a \in DOMAIN apps /\ apps'[a] = apps[a])
  PROVE  LocksExplained'
<1> SUFFICES ASSUME NEW a \in DOMAIN apps', apps'[a].locked
             PROVE  a[1] = "split" \/ \E c \in corrections' : c.app = a
  BY DEF LocksExplained
<1>1. CASE a = b
  <2>1. Correction(kind, b, about) \in corrections' /\ Correction(kind, b, about).app = b
    BY DEF Correction
  <2>. QED  BY <1>1, <2>1
<1>2. CASE a \in DOMAIN apps /\ apps'[a] = apps[a]
  <2>1. a[1] = "split" \/ \E c \in corrections : c.app = a
    BY <1>2 DEF LocksExplained
  <2>. QED  BY <2>1
<1>. QED  BY <1>1, <1>2

LEMMA StatusTables ==
  ASSUME TablesInv, NEW a \in DOMAIN apps, NEW s \in EditStatuses, EditStatus(a, s)
  PROVE  TablesInv'
<1>1. /\ apps' = [apps EXCEPT ![a].status = s, ![a].locked = TRUE]
      /\ corrections' = corrections \cup {Correction("status_edit", a, {})}
      /\ events' = events /\ conflicts' = conflicts /\ reading' = reading /\ now' = now
  BY DEF EditStatus, Correct
<1>2. s \in Statuses
  BY TimelineConstants
<1>3. DOMAIN apps' = DOMAIN apps /\ \A b \in DOMAIN apps : b # a => apps'[b] = apps[b]
  BY <1>1
<1>4. apps'[a] \in Summaries
  BY <1>1, <1>2 DEF TablesInv, RowsTyped, Summaries
<1>5. RowsTyped' /\ EventsTyped' /\ IdsUnique' /\ ConflictsTyped' /\ ReadingTyped'
  BY <1>1, <1>3, <1>4 DEF TablesInv, RowsTyped, EventsTyped, IdsUnique, ConflictsTyped, ReadingTyped
<1>6. CorrectionsTyped'
  BY <1>1, <1>3 DEF TablesInv, CorrectionsTyped, Correction
<1>7. MergedAreGone'
  BY <1>1, <1>3 DEF TablesInv, MergedAreGone, Correction
<1>8. LocksExplained'
  <2>1. \A b \in DOMAIN apps' :
          b = a \/ b[1] = "split" \/ (b \in DOMAIN apps /\ apps'[b] = apps[b])
    BY <1>3
  <2>. QED  BY <1>1, <2>1, LocksStay, Zenon DEF TablesInv
<1>. QED  BY <1>1, <1>3, <1>5, <1>6, <1>7, <1>8 DEF TablesInv

\* An event as the user gives it.
LEMMA EditedEvent ==
  ASSUME TablesInv, NEW v \in events, NEW e \in EventEdits, EditEvent(v, e)
  PROVE  LET w == Event(v.app, e.email, e.type, e.at)
         IN  /\ EventTyped(w) /\ w.app = v.app /\ w.origin = v.app
             /\ \A u \in events : Id(u) # Id(w)
<1>1. e \in [type: EventTypes, at: Times, email: Mail \cup {Nobody}]
  BY TimelineConstants
<1>2. (e.type = "ghost_inferred") <=> (e.email = Nobody)
  BY DEF EditEvent, Event
<1>3. \A u \in events : Id(u) # Id(Event(v.app, e.email, e.type, e.at))
  BY DEF EditEvent
<1>. QED  BY <1>1, <1>2, <1>3 DEF Event, EventTyped, WellFormed

LEMMA EditTables ==
  ASSUME TablesInv, NEW v \in events, NEW e \in EventEdits, EditEvent(v, e)
  PROVE  TablesInv'
<1> DEFINE w == Event(v.app, e.email, e.type, e.at)
           table == (events \ {v}) \cup {w}
           mine == EventsOf(v.app, table)
<1>1. /\ events' = table
      /\ apps' = [apps EXCEPT ![v.app] = [TimelineSummary(@, mine) EXCEPT !.locked = TRUE]]
      /\ corrections' = corrections \cup {Correction("event_edit", v.app, {Id(v), Id(w)})}
      /\ conflicts' = conflicts /\ reading' = reading /\ now' = now
  BY DEF EditEvent, Correct
<1>2. /\ EventTyped(w) /\ w.app = v.app /\ w.origin = v.app
      /\ \A u \in events : Id(u) # Id(w)
  BY EditedEvent
<1> HIDE DEF w
<1>3. \A u \in table : EventTyped(u) /\ u.app \in DOMAIN apps
  BY <1>2 DEF TablesInv, EventsTyped
<1>4. mine # {} /\ \A u \in mine : EventTyped(u)
  BY <1>2, <1>3 DEF EventsOf
<1>5. TimelineSummary(apps[v.app], mine) \in Summaries
  <2> HIDE DEF mine
  <2>1. apps[v.app] \in Summaries
    BY DEF TablesInv, EventsTyped, RowsTyped
  <2>. QED  BY <1>4, <2>1, SummaryFields
<1>6. v.app \in DOMAIN apps
  BY DEF TablesInv, EventsTyped
<1> HIDE DEF mine
<1>7. /\ DOMAIN apps' = DOMAIN apps /\ apps'[v.app] \in Summaries
      /\ \A b \in DOMAIN apps : b # v.app => apps'[b] = apps[b]
  BY <1>1, <1>5, <1>6 DEF Summaries
<1>8. RowsTyped' /\ EventsTyped' /\ ConflictsTyped' /\ ReadingTyped'
  BY <1>1, <1>3, <1>7 DEF TablesInv, RowsTyped, EventsTyped, ConflictsTyped, ReadingTyped
<1>9. IdsUnique'
  BY <1>1, <1>2 DEF TablesInv, IdsUnique
<1>10. CorrectionsTyped' /\ MergedAreGone'
  BY <1>1, <1>6, <1>7 DEF TablesInv, CorrectionsTyped, MergedAreGone, Correction
<1>11. LocksExplained'
  <2>1. \A b \in DOMAIN apps' :
          b = v.app \/ b[1] = "split" \/ (b \in DOMAIN apps /\ apps'[b] = apps[b])
    BY <1>7
  <2>. QED  BY <1>1, <2>1, LocksStay, Zenon DEF TablesInv
<1>. QED  BY <1>1, <1>7, <1>8, <1>9, <1>10, <1>11 DEF TablesInv

LEMMA MergedRow ==
  ASSUME NEW s \in Summaries, NEW t \in Summaries
  PROVE  MergedSummary(t, s) \in Summaries /\ MergedSummary(t, s).locked = TRUE
<1>1. MergedStatus(t.status, s.status) \in Statuses
  BY MergedStatusType DEF Summaries
<1>. QED  BY <1>1 DEF MergedSummary, Summaries

LEMMA MergeIs ==
  ASSUME NEW s, NEW t, Merge(t, s)
  PROVE  /\ t # s
         /\ DOMAIN apps' = DOMAIN apps \ {s}
         /\ \A a \in DOMAIN apps' :
              apps'[a] = IF a = t THEN MergedSummary(apps[t], apps[s]) ELSE apps[a]
         /\ events' = Reassigned(events, s, t)
         /\ corrections' = Reassigned(corrections, s, t) \cup {Correction("merge", t, {s})}
         /\ conflicts' = Cascade({s}, conflicts)
         /\ reading' = reading /\ now' = now
BY DEF Merge, Correct

LEMMA MergeTables ==
  ASSUME TablesInv, NEW s \in DOMAIN apps, NEW t \in DOMAIN apps, Merge(t, s)
  PROVE  TablesInv'
<1> DEFINE move(x) == IF x.app = s THEN [x EXCEPT !.app = t] ELSE x
<1>1. /\ t # s
      /\ DOMAIN apps' = DOMAIN apps \ {s}
      /\ \A a \in DOMAIN apps' :
           apps'[a] = IF a = t THEN MergedSummary(apps[t], apps[s]) ELSE apps[a]
      /\ events' = {move(v) : v \in events}
      /\ corrections' = {move(c) : c \in corrections} \cup {Correction("merge", t, {s})}
      /\ conflicts' = Cascade({s}, conflicts)
      /\ reading' = reading /\ now' = now
  BY MergeIs DEF Reassigned
<1>2. ASSUME NEW v \in events
      PROVE  /\ EventTyped(move(v)) /\ Id(move(v)) = Id(v) /\ move(v).type = v.type
             /\ move(v).app = IF v.app = s THEN t ELSE v.app
  <2>1. EventTyped(v)
    BY DEF TablesInv, EventsTyped
  <2>2. CASE v.app = s
    BY <2>1, <2>2, MovedEvent
  <2>3. CASE v.app # s
    BY <2>1, <2>3
  <2>. QED  BY <2>2, <2>3
<1>3. ASSUME NEW c \in corrections
      PROVE  move(c) = Correction(c.kind, IF c.app = s THEN t ELSE c.app, c.about)
  BY DEF TablesInv, CorrectionsTyped, Correction
<1> HIDE DEF move
<1>4. RowsTyped'
  BY <1>1, MergedRow DEF TablesInv, RowsTyped
<1>5. EventsTyped'
  BY <1>1, <1>2 DEF TablesInv, EventsTyped
<1>6. IdsUnique'
  BY <1>1, <1>2 DEF TablesInv, IdsUnique
<1>7. CorrectionsTyped'
  BY <1>1, <1>3 DEF TablesInv, CorrectionsTyped, Correction
<1>8. ConflictsTyped'
  BY <1>1 DEF TablesInv, ConflictsTyped, Cascade
<1>9. ReadingTyped'
  BY <1>1 DEF TablesInv, ReadingTyped
<1>10. MergedAreGone'
  BY <1>1, <1>3 DEF TablesInv, MergedAreGone, Correction
<1>11. LocksExplained'
  <2> SUFFICES ASSUME NEW a \in DOMAIN apps', apps'[a].locked
               PROVE  a[1] = "split" \/ \E c \in corrections' : c.app = a
    BY DEF LocksExplained
  <2>1. CASE a = t
    <3>1. Correction("merge", t, {s}) \in corrections' /\ Correction("merge", t, {s}).app = t
      BY <1>1 DEF Correction
    <3>. QED  BY <2>1, <3>1
  <2>2. CASE a # t
    <3>1. a \in DOMAIN apps /\ a # s /\ apps[a].locked
      BY <1>1, <2>2
    <3>2. a[1] = "split" \/ \E c \in corrections : c.app = a
      BY <3>1 DEF TablesInv, LocksExplained
    <3>3. \A c \in corrections : c.app = a => move(c) \in corrections' /\ move(c).app = a
      BY <1>1, <1>3, <3>1 DEF Correction
    <3>. QED  BY <3>2, <3>3
  <2>. QED  BY <2>1, <2>2
<1>12. IsFiniteSet(DOMAIN apps')
  BY <1>1, FS_Subset DEF TablesInv
<1>. QED
  BY <1>1, <1>4, <1>5, <1>6, <1>7, <1>8, <1>9, <1>10, <1>11, <1>12 DEF TablesInv

LEMMA SplitIs ==
  ASSUME TablesInv, NEW source \in DOMAIN apps, NEW i \in Identities, NEW selected,
         Split(source, selected, i), NEW target, target = SplitApplication(source, {Id(v) : v \in selected})
  PROVE  /\ selected # {} /\ selected \subseteq EventsOf(source, events)
         /\ target[1] = "split" /\ target \notin DOMAIN apps /\ ~MergedAway(target)
         /\ DOMAIN apps' = DOMAIN apps \cup {target}
         /\ \A a \in DOMAIN apps' : apps'[a] \in Summaries
         /\ \A a \in DOMAIN apps : a # source => apps'[a] = apps[a]
         /\ events' = (events \ selected) \cup {[v EXCEPT !.app = target] : v \in selected}
         /\ corrections' = corrections \cup {Correction("split", source, {})}
         /\ conflicts' = conflicts /\ reading' = reading /\ now' = now
<1> DEFINE rest == EventsOf(source, events) \ selected
           fresh == [status |-> "applied", first |-> 0, last |-> 0, locked |-> TRUE, identity |-> i]
           after == RefreshedSummary(apps[source], rest)
           old == [after EXCEPT !.locked = TRUE,
                                !.status = IF Locked(source) THEN apps[source].status ELSE @]
<1>1. /\ selected # {} /\ selected \subseteq EventsOf(source, events) /\ rest # {}
      /\ target \notin DOMAIN apps /\ ~MergedAway(target)
      /\ apps' = [a \in DOMAIN apps \cup {target} |->
                    CASE a = target -> RefreshedSummary(fresh, selected)
                      [] a = source ->
                           [after EXCEPT !.locked = TRUE,
                                         !.status = IF Locked(a) THEN apps[a].status ELSE @]
                      [] OTHER -> apps[a]]
      /\ events' = (events \ selected) \cup {[v EXCEPT !.app = target] : v \in selected}
      /\ corrections' = corrections \cup {Correction("split", source, {})}
      /\ conflicts' = conflicts /\ reading' = reading /\ now' = now
  BY DEF Split, Correct
<1>2. /\ \A v \in selected : EventTyped(v)
      /\ \A v \in rest : EventTyped(v)
  BY <1>1 DEF EventsOf, TablesInv, EventsTyped
<1>3. \A a \in DOMAIN apps : apps[a] \in Summaries
  BY DEF TablesInv, RowsTyped
<1>4. RefreshedSummary(fresh, selected) \in Summaries
  <2>1. RefreshedSummary(fresh, selected) \in
          [status : {TimelineStatus(selected)}, first : {FirstAt(selected)},
           last : {LastAt(selected)}, locked : {TRUE}, identity : {i}]
    BY NewSummary
  <2>2. Dated(selected) /\ \A v \in selected : v.type \in EventTypes
    BY <1>2, EventsDated DEF EventTyped
  <2>3. /\ TimelineStatus(selected) \in Statuses
        /\ FirstAt(selected) \in Times /\ LastAt(selected) \in Times
    BY <1>1, <2>2, FirstLast, TimelineStatusType
  <2> HIDE DEF fresh
  <2>. QED  BY <2>1, <2>3 DEF Summaries
<1>5. old \in Summaries
  <2>1. after \in Summaries
    <3> HIDE DEF rest
    <3>. QED  BY <1>1, <1>2, <1>3, SummaryFields
  <2> HIDE DEF after
  <2>. QED  BY <1>3, <2>1 DEF Summaries
<1>6. target[1] = "split"
  BY DEF SplitApplication
<1>7. DOMAIN apps' = DOMAIN apps \cup {target}
  BY <1>1
<1>8. /\ apps'[target] = RefreshedSummary(fresh, selected)
      /\ apps'[source] = old
      /\ \A a \in DOMAIN apps : a # source => apps'[a] = apps[a]
  BY <1>1
<1> HIDE DEF fresh, old
<1>. QED  BY <1>1, <1>3, <1>4, <1>5, <1>6, <1>7, <1>8

LEMMA SplitTables ==
  ASSUME TablesInv, NEW source \in DOMAIN apps, NEW i \in Identities, NEW selected,
         Split(source, selected, i)
  PROVE  TablesInv'
<1> DEFINE target == SplitApplication(source, {Id(v) : v \in selected})
           move(v) == IF v \in selected THEN [v EXCEPT !.app = target] ELSE v
<1>1. /\ selected # {} /\ selected \subseteq EventsOf(source, events)
      /\ target[1] = "split" /\ target \notin DOMAIN apps /\ ~MergedAway(target)
      /\ DOMAIN apps' = DOMAIN apps \cup {target}
      /\ \A a \in DOMAIN apps' : apps'[a] \in Summaries
      /\ \A a \in DOMAIN apps : a # source => apps'[a] = apps[a]
      /\ events' = (events \ selected) \cup {[v EXCEPT !.app = target] : v \in selected}
      /\ corrections' = corrections \cup {Correction("split", source, {})}
      /\ conflicts' = conflicts /\ reading' = reading /\ now' = now
  BY SplitIs
<1> HIDE DEF target
<1>2. events' = {move(v) : v \in events}
  BY <1>1 DEF EventsOf
<1>3. ASSUME NEW v \in events
      PROVE  /\ EventTyped(move(v)) /\ Id(move(v)) = Id(v) /\ move(v).type = v.type
             /\ move(v).app = IF v \in selected THEN target ELSE v.app
  <2>1. EventTyped(v)
    BY DEF TablesInv, EventsTyped
  <2>2. CASE v \in selected
    BY <2>1, <2>2, MovedEvent
  <2>3. CASE v \notin selected
    BY <2>1, <2>3
  <2>. QED  BY <2>2, <2>3
<1> HIDE DEF move
<1>4. RowsTyped'
  BY <1>1 DEF RowsTyped
<1>5. EventsTyped' /\ IdsUnique'
  BY <1>1, <1>2, <1>3 DEF TablesInv, EventsTyped, IdsUnique
<1>6. CorrectionsTyped' /\ ConflictsTyped' /\ ReadingTyped'
  BY <1>1 DEF TablesInv, CorrectionsTyped, ConflictsTyped, ReadingTyped, Correction
<1>7. MergedAreGone'
  BY <1>1 DEF TablesInv, MergedAreGone, MergedAway, Correction
<1>8. LocksExplained'
  <2>1. \A a \in DOMAIN apps' :
          a = source \/ a[1] = "split" \/ (a \in DOMAIN apps /\ apps'[a] = apps[a])
    BY <1>1
  <2>. QED  BY <1>1, <2>1, LocksStay, Zenon DEF TablesInv
<1>9. IsFiniteSet(DOMAIN apps')
  BY <1>1, FS_AddElement DEF TablesInv
<1>. QED  BY <1>1, <1>4, <1>5, <1>6, <1>7, <1>8, <1>9 DEF TablesInv

LEMMA ResetTables ==
  ASSUME TablesInv, NEW a \in DOMAIN apps, ResetLock(a)
  PROVE  TablesInv'
<1> DEFINE mine == EventsOf(a, events)
           row == IF mine = {} THEN apps[a] ELSE RefreshedSummary(apps[a], mine)
<1>1. /\ apps' = [apps EXCEPT ![a] = [row EXCEPT !.locked = FALSE]]
      /\ corrections' = corrections \cup {Correction("reset_lock", a, {})}
      /\ events' = events /\ conflicts' = conflicts /\ reading' = reading /\ now' = now
  BY DEF ResetLock, Correct
<1>2. row \in Summaries
  <2>1. apps[a] \in Summaries /\ \A v \in mine : EventTyped(v)
    BY DEF EventsOf, TablesInv, RowsTyped, EventsTyped
  <2> HIDE DEF mine
  <2>. QED  BY <2>1, SummaryFields
<1> HIDE DEF row
<1>3. /\ DOMAIN apps' = DOMAIN apps /\ apps'[a] \in Summaries
      /\ \A b \in DOMAIN apps : b # a => apps'[b] = apps[b]
  BY <1>1, <1>2 DEF Summaries
<1>4. RowsTyped' /\ EventsTyped' /\ IdsUnique' /\ ConflictsTyped' /\ ReadingTyped'
  BY <1>1, <1>3 DEF TablesInv, RowsTyped, EventsTyped, IdsUnique, ConflictsTyped, ReadingTyped
<1>5. CorrectionsTyped' /\ MergedAreGone' /\ LocksExplained'
  BY <1>1, <1>3 DEF TablesInv, CorrectionsTyped, MergedAreGone, LocksExplained, Correction
<1>. QED  BY <1>1, <1>3, <1>4, <1>5 DEF TablesInv

LEMMA SameTables ==
  ASSUME TablesInv, UNCHANGED <<apps, events, corrections, conflicts, reading>>, now' \in Clock
  PROVE  TablesInv'
BY DEF TablesInv, RowsTyped, EventsTyped, IdsUnique, CorrectionsTyped, ConflictsTyped, ReadingTyped,
       MergedAreGone, LocksExplained, EventTyped, WellFormed, Id, Correction, Conflict

LEMMA TablesInductive == TablesInv /\ [Next]_vars => TablesInv'
<1> SUFFICES ASSUME TablesInv, [Next]_vars PROVE TablesInv'
  OBVIOUS
<1>1. ASSUME NEW batch \in Batches, Aggregate(batch) PROVE TablesInv'
  BY <1>1, AggregateTables
<1>2. CASE InferGhosts
  BY <1>2, GhostTables
<1>3. ASSUME NEW a \in DOMAIN apps, NEW s \in EditStatuses, EditStatus(a, s) PROVE TablesInv'
  BY <1>3, StatusTables
<1>4. ASSUME NEW v \in events, NEW e \in EventEdits, EditEvent(v, e) PROVE TablesInv'
  BY <1>4, EditTables
<1>5. ASSUME NEW s \in DOMAIN apps, NEW t \in DOMAIN apps, Merge(t, s) PROVE TablesInv'
  BY <1>5, MergeTables
<1>6. ASSUME NEW a \in DOMAIN apps, NEW i \in Identities, NEW selected, Split(a, selected, i)
      PROVE  TablesInv'
  BY <1>6, SplitTables
<1>7. ASSUME NEW a \in DOMAIN apps, ResetLock(a) PROVE TablesInv'
  BY <1>7, ResetTables
<1>8. ASSUME NEW v \in events, CompleteInterview(v) PROVE TablesInv'
  BY <1>8, SameTables DEF CompleteInterview, Correct, TablesInv
<1>9. CASE Tick
  BY <1>9, SameTables DEF Tick
<1>10. CASE UNCHANGED vars
  BY <1>10, SameTables DEF vars, TablesInv
<1>. QED
  BY <1>1, <1>2, <1>3, <1>4, <1>5, <1>6, <1>7, <1>8, <1>9, <1>10 DEF Next, Automatic, Manual

\* Rows and readings are well-formed, ids are unique, an event finds its application and
\* has a message unless it is a ghost: for any mail, batches, edits and clock.
THEOREM TimelineTypeCorrect == Spec => []TypeOK
<1>1. Init => TablesInv
  BY InitTables
<1>2. TablesInv /\ [Next]_vars => TablesInv'
  BY TablesInductive
<1>3. TablesInv => TypeOK
  BY TablesTyped
<1>. QED  BY <1>1, <1>2, <1>3, PTL DEF Spec

-----------------------------------------------------------------------------
(* The applications the user left alone.                                   *)

\* An event that is not where it was made left a trace there: the application was merged
\* away, or a correction of it is kept.
Traced(a) == MergedAway(a) \/ \E c \in corrections : c.app = a
MovesTraced == \A v \in events : v.app # v.origin => Traced(v.origin)

\* What is kept of corrections keeps the traces.
LEMMA TracesKept ==
  ASSUME corrections \subseteq corrections', NEW a, Traced(a)
  PROVE  Traced(a)'
BY DEF Traced, MergedAway

LEMMA AggregateTraces ==
  ASSUME TablesInv, MovesTraced, NEW batch \in Batches, Aggregate(batch)
  PROVE  MovesTraced'
<1>1. events' = Table(batch) /\ corrections' = corrections
  BY AggregateIs
<1>2. \A v \in Inserted(batch) : v.origin = v.app
  BY ProposedShape DEF Inserted, Open, Free, TablesInv
<1>3. \A v \in Table(batch) : v.app # v.origin => Traced(v.origin)
  BY <1>2 DEF Table, Kept, MovesTraced
<1>. QED  BY <1>1, <1>3, TracesKept DEF MovesTraced

LEMMA InferTraces ==
  ASSUME MovesTraced, InferGhosts
  PROVE  MovesTraced'
<1>1. events' = HauntedTable /\ corrections' = corrections
  BY InferIs
<1>2. \A g \in NewGhosts : g.origin = g.app
  BY DEF NewGhosts, GhostOf, Event
<1>3. \A v \in HauntedTable : v.app # v.origin => Traced(v.origin)
  BY <1>2 DEF HauntedTable, Left, MovesTraced
<1>. QED  BY <1>1, <1>3, TracesKept DEF MovesTraced

LEMMA MergeTraces ==
  ASSUME TablesInv, MovesTraced, NEW s \in DOMAIN apps, NEW t \in DOMAIN apps, Merge(t, s)
  PROVE  MovesTraced'
<1> DEFINE move(x) == IF x.app = s THEN [x EXCEPT !.app = t] ELSE x
<1>1. /\ events' = {move(v) : v \in events}
      /\ corrections' = {move(c) : c \in corrections} \cup {Correction("merge", t, {s})}
  <2>1. /\ events' = Reassigned(events, s, t)
        /\ corrections' = Reassigned(corrections, s, t) \cup {Correction("merge", t, {s})}
    BY MergeIs
  <2>. QED  BY <2>1 DEF Reassigned
<1>2. Traced(s)'
  <2>1. Correction("merge", t, {s}) \in corrections'
        /\ Correction("merge", t, {s}).kind = "merge" /\ Correction("merge", t, {s}).about = {s}
    BY <1>1 DEF Correction
  <2>. QED  BY <2>1 DEF Traced, MergedAway
<1>3. ASSUME NEW a, Traced(a), a # s PROVE Traced(a)'
  <2>1. \A c \in corrections : move(c) = Correction(c.kind, IF c.app = s THEN t ELSE c.app, c.about)
    BY DEF TablesInv, CorrectionsTyped, Correction
  <2> HIDE DEF move
  <2>2. \A c \in corrections :
          /\ move(c) \in corrections' /\ move(c).kind = c.kind /\ move(c).about = c.about
          /\ c.app = a => move(c).app = a
    BY <1>1, <1>3, <2>1 DEF Correction
  <2>. QED  BY <1>3, <2>2 DEF Traced, MergedAway
<1>4. ASSUME NEW v \in events, move(v).app # move(v).origin PROVE Traced(move(v).origin)'
  <2>1. EventTyped(v)
    BY DEF TablesInv, EventsTyped
  <2>2. CASE v.app = s
    <3>1. move(v).origin = v.origin /\ (v.origin = s \/ Traced(v.origin))
      BY <2>1, <2>2, MovedEvent DEF MovesTraced
    <3>. QED  BY <1>2, <1>3, <3>1
  <2>3. CASE v.app # s
    BY <1>2, <1>3, <1>4, <2>3 DEF MovesTraced
  <2>. QED  BY <2>2, <2>3
<1> HIDE DEF move
<1>. QED  BY <1>1, <1>4 DEF MovesTraced

LEMMA SplitTraces ==
  ASSUME TablesInv, MovesTraced, NEW source \in DOMAIN apps, NEW i \in Identities, NEW selected,
         Split(source, selected, i)
  PROVE  MovesTraced'
<1> DEFINE target == SplitApplication(source, {Id(v) : v \in selected})
<1>1. /\ selected \subseteq EventsOf(source, events)
      /\ events' = (events \ selected) \cup {[v EXCEPT !.app = target] : v \in selected}
      /\ corrections' = corrections \cup {Correction("split", source, {})}
  BY DEF Split
<1> HIDE DEF target
<1>2. Traced(source)' /\ \A a : Traced(a) => Traced(a)'
  <2>1. Correction("split", source, {}) \in corrections' /\ Correction("split", source, {}).app = source
    BY <1>1 DEF Correction
  <2>. QED  BY <1>1, <2>1, TracesKept DEF Traced
<1>3. ASSUME NEW v \in selected PROVE Traced([v EXCEPT !.app = target].origin)'
  <2>1. v \in events /\ v.app = source /\ EventTyped(v)
    BY <1>1 DEF EventsOf, TablesInv, EventsTyped
  <2>2. [v EXCEPT !.app = target].origin = v.origin
    BY <2>1, MovedEvent
  <2>. QED  BY <1>2, <2>1, <2>2 DEF MovesTraced
<1>4. \A v \in events : v.app # v.origin => Traced(v.origin)'
  BY <1>2 DEF MovesTraced
<1>. QED  BY <1>1, <1>3, <1>4 DEF MovesTraced

LEMMA TracesInductive == TablesInv /\ MovesTraced /\ [Next]_vars => MovesTraced'
<1> SUFFICES ASSUME TablesInv, MovesTraced, [Next]_vars PROVE MovesTraced'
  OBVIOUS
<1>1. ASSUME events' = events, corrections \subseteq corrections' PROVE MovesTraced'
  BY <1>1, TracesKept DEF MovesTraced
<1>2. ASSUME NEW v \in events, NEW e \in EventEdits, EditEvent(v, e) PROVE MovesTraced'
  <2> DEFINE w == Event(v.app, e.email, e.type, e.at)
  <2>1. events' = (events \ {v}) \cup {w} /\ corrections \subseteq corrections'
    BY <1>2 DEF EditEvent
  <2>2. w.app = v.app /\ w.origin = v.app
    BY <1>2, EditedEvent
  <2> HIDE DEF w
  <2>. QED  BY <2>1, <2>2, TracesKept DEF MovesTraced
<1>3. ASSUME NEW batch \in Batches, Aggregate(batch) PROVE MovesTraced'
  BY <1>3, AggregateTraces
<1>4. CASE InferGhosts
  BY <1>4, InferTraces
<1>5. ASSUME NEW s \in DOMAIN apps, NEW t \in DOMAIN apps, Merge(t, s) PROVE MovesTraced'
  BY <1>5, MergeTraces
<1>6. ASSUME NEW a \in DOMAIN apps, NEW i \in Identities, NEW selected, Split(a, selected, i)
      PROVE  MovesTraced'
  BY <1>6, SplitTraces
<1>7. ASSUME NEW a \in DOMAIN apps, NEW s \in EditStatuses, EditStatus(a, s) PROVE MovesTraced'
  BY <1>1, <1>7 DEF EditStatus
<1>8. ASSUME NEW a \in DOMAIN apps, ResetLock(a) PROVE MovesTraced'
  BY <1>1, <1>8 DEF ResetLock
<1>9. ASSUME NEW v \in events, CompleteInterview(v) PROVE MovesTraced'
  BY <1>1, <1>9 DEF CompleteInterview
<1>10. CASE Tick \/ UNCHANGED vars
  BY <1>1, <1>10 DEF Tick, vars
<1>. QED
  BY <1>2, <1>3, <1>4, <1>5, <1>6, <1>7, <1>8, <1>9, <1>10 DEF Next, Automatic, Manual

\* Nobody locked them and nothing of theirs was merged away.
LEMMA UntouchedFacts ==
  ASSUME TablesInv, NEW a \in Untouched
  PROVE  /\ a \in DOMAIN apps /\ a[1] = "key"
         /\ ~Locked(a) /\ ~MergedAway(a)
         /\ \A c \in corrections : c.app # a
         /\ \A v : ~Protected(a, v)
<1>1. a \in DOMAIN apps /\ a[1] = "key" /\ \A c \in corrections : c.app # a
  BY DEF Untouched
<1>2. ~Locked(a)
  <2>1. apps[a].locked => a[1] = "split" \/ \E c \in corrections : c.app = a
    BY <1>1 DEF TablesInv, LocksExplained
  <2>. QED  BY <1>1, <2>1 DEF Locked
<1>3. ~MergedAway(a)
  BY <1>1 DEF MergedAway, TablesInv, MergedAreGone
<1>4. \A v : ~Protected(a, v)
  BY <1>1, ProtectedCorrected
<1>. QED  BY <1>1, <1>2, <1>3, <1>4

\* What the user does leaves the other applications as they are.
LEMMA OthersAlone ==
  ASSUME TablesInv, Manual \/ Tick, NEW a \in Untouched'
  PROVE  a \in Untouched /\ apps'[a] = apps[a] /\ EventsOf(a, events') = EventsOf(a, events)
<1>1. /\ a \in DOMAIN apps' /\ a[1] = "key"
      /\ \A c \in corrections' : c.app # a
  BY DEF Untouched
<1>2. ASSUME a \in DOMAIN apps, \A c \in corrections : c.app # a PROVE a \in Untouched
  BY <1>1, <1>2 DEF Untouched
<1>3. ASSUME NEW kind, NEW b, NEW about,
             corrections' = corrections \cup {Correction(kind, b, about)}
      PROVE  a # b /\ \A c \in corrections : c.app # a
  <2>1. Correction(kind, b, about) \in corrections' /\ Correction(kind, b, about).app = b
    BY <1>3 DEF Correction
  <2>. QED  BY <1>1, <1>3, <2>1
<1>4. ASSUME NEW b \in DOMAIN apps, NEW s \in EditStatuses, EditStatus(b, s)
      PROVE  a \in Untouched /\ apps'[a] = apps[a] /\ EventsOf(a, events') = EventsOf(a, events)
  <2>1. /\ apps' = [apps EXCEPT ![b].status = s, ![b].locked = TRUE] /\ events' = events
        /\ corrections' = corrections \cup {Correction("status_edit", b, {})}
    BY <1>4 DEF EditStatus
  <2>2. a # b /\ \A c \in corrections : c.app # a
    BY <1>3, <2>1
  <2>. QED  BY <1>1, <1>2, <2>1, <2>2
<1>5. ASSUME NEW v \in events, NEW e \in EventEdits, EditEvent(v, e)
      PROVE  a \in Untouched /\ apps'[a] = apps[a] /\ EventsOf(a, events') = EventsOf(a, events)
  <2> DEFINE w == Event(v.app, e.email, e.type, e.at)
             row == [TimelineSummary(apps[v.app], EventsOf(v.app, (events \ {v}) \cup {w}))
                       EXCEPT !.locked = TRUE]
  <2>1. /\ apps' = [apps EXCEPT ![v.app] = row] /\ events' = (events \ {v}) \cup {w}
        /\ corrections' = corrections \cup {Correction("event_edit", v.app, {Id(v), Id(w)})}
    BY <1>5 DEF EditEvent
  <2>2. a # v.app /\ \A c \in corrections : c.app # a
    BY <1>3, <2>1
  <2>3. w.app = v.app
    BY DEF Event
  <2> HIDE DEF w, row
  <2>4. EventsOf(a, events') = EventsOf(a, events)
    BY <2>1, <2>2, <2>3 DEF EventsOf
  <2>. QED  BY <1>1, <1>2, <2>1, <2>2, <2>4
<1>6. ASSUME NEW s \in DOMAIN apps, NEW t \in DOMAIN apps, Merge(t, s)
      PROVE  a \in Untouched /\ apps'[a] = apps[a] /\ EventsOf(a, events') = EventsOf(a, events)
  <2>1. /\ t # s
        /\ DOMAIN apps' = DOMAIN apps \ {s}
        /\ \A b \in DOMAIN apps' :
             apps'[b] = IF b = t THEN MergedSummary(apps[t], apps[s]) ELSE apps[b]
        /\ events' = Reassigned(events, s, t)
        /\ corrections' = Reassigned(corrections, s, t) \cup {Correction("merge", t, {s})}
    BY <1>6, MergeIs
  <2>2. a # s /\ a # t
    <3>1. Correction("merge", t, {s}) \in corrections' /\ Correction("merge", t, {s}).app = t
      BY <2>1 DEF Correction
    <3>. QED  BY <1>1, <2>1, <3>1
  <2>3. \A c \in corrections : c.app # a
    BY <1>1, <2>1, <2>2 DEF Reassigned
  <2>4. EventsOf(a, events') = EventsOf(a, events)
    <3>1. \A v \in events : v.app = a => v \in events'
      BY <2>1, <2>2 DEF Reassigned
    <3>2. ASSUME NEW w \in events', w.app = a PROVE w \in events
      <4>1. PICK v \in events : w = IF v.app = s THEN [v EXCEPT !.app = t] ELSE v
        BY <2>1, <3>2 DEF Reassigned
      <4>2. EventTyped(v)
        BY DEF TablesInv, EventsTyped
      <4>3. v.app # s
        BY <2>2, <3>2, <4>1, <4>2, MovedEvent
      <4>. QED  BY <4>1, <4>3
    <3>. QED  BY <3>1, <3>2 DEF EventsOf
  <2>. QED  BY <1>1, <1>2, <2>1, <2>2, <2>3, <2>4
<1>7. ASSUME NEW source \in DOMAIN apps, NEW i \in Identities, NEW selected,
             Split(source, selected, i)
      PROVE  a \in Untouched /\ apps'[a] = apps[a] /\ EventsOf(a, events') = EventsOf(a, events)
  <2> DEFINE target == SplitApplication(source, {Id(v) : v \in selected})
  <2>1. /\ selected # {} /\ selected \subseteq EventsOf(source, events)
        /\ target[1] = "split" /\ target \notin DOMAIN apps /\ ~MergedAway(target)
        /\ DOMAIN apps' = DOMAIN apps \cup {target}
        /\ \A b \in DOMAIN apps' : apps'[b] \in Summaries
        /\ \A b \in DOMAIN apps : b # source => apps'[b] = apps[b]
        /\ events' = (events \ selected) \cup {[v EXCEPT !.app = target] : v \in selected}
        /\ corrections' = corrections \cup {Correction("split", source, {})}
        /\ conflicts' = conflicts /\ reading' = reading /\ now' = now
    BY <1>7, SplitIs
  <2> HIDE DEF target
  <2>2. a # source /\ a # target /\ \A c \in corrections : c.app # a
    BY <1>1, <1>3, <2>1
  <2>3. EventsOf(a, events') = EventsOf(a, events)
    <3>1. \A v \in events : v.app = a => v \in events'
      BY <2>1, <2>2 DEF EventsOf
    <3>2. ASSUME NEW w \in events', w.app = a, w \notin events PROVE FALSE
      <4>1. PICK v \in selected : w = [v EXCEPT !.app = target]
        BY <2>1, <3>2
      <4>2. EventTyped(v)
        BY <2>1 DEF TablesInv, EventsTyped, EventsOf
      <4>. QED  BY <2>2, <3>2, <4>1, <4>2, MovedEvent
    <3>. QED  BY <3>1, <3>2 DEF EventsOf
  <2>. QED  BY <1>1, <1>2, <2>1, <2>2, <2>3
<1>8. ASSUME NEW b \in DOMAIN apps, ResetLock(b)
      PROVE  a \in Untouched /\ apps'[a] = apps[a] /\ EventsOf(a, events') = EventsOf(a, events)
  <2> DEFINE mine == EventsOf(b, events)
             row == [IF mine = {} THEN apps[b] ELSE RefreshedSummary(apps[b], mine)
                       EXCEPT !.locked = FALSE]
  <2>1. /\ apps' = [apps EXCEPT ![b] = row] /\ events' = events
        /\ corrections' = corrections \cup {Correction("reset_lock", b, {})}
    BY <1>8 DEF ResetLock
  <2>2. a # b /\ \A c \in corrections : c.app # a
    BY <1>3, <2>1
  <2> HIDE DEF row
  <2>. QED  BY <1>1, <1>2, <2>1, <2>2
<1>9. ASSUME apps' = apps, events' = events, corrections' = corrections
      PROVE  a \in Untouched /\ apps'[a] = apps[a] /\ EventsOf(a, events') = EventsOf(a, events)
  BY <1>1, <1>2, <1>9
<1>10. ASSUME NEW v \in events, CompleteInterview(v)
       PROVE  a \in Untouched /\ apps'[a] = apps[a] /\ EventsOf(a, events') = EventsOf(a, events)
  BY <1>9, <1>10 DEF CompleteInterview
<1>11. CASE Tick
  BY <1>9, <1>11 DEF Tick
<1>. QED
  BY <1>4, <1>5, <1>6, <1>7, <1>8, <1>10, <1>11 DEF Manual

\* An application the program alone had to do with was one before, or is new.
LEMMA UntouchedBefore ==
  ASSUME TablesInv, NEW batch \in Batches, Aggregate(batch), NEW a \in Untouched'
  PROVE  /\ a \in (DOMAIN apps \cup Renewed(batch)) \ Gone(batch)
         /\ \A c \in corrections : c.app # a
         /\ a \in DOMAIN apps => a \in Untouched
<1>1. /\ a \in DOMAIN apps' /\ a[1] = "key"
      /\ \A c \in corrections' : c.app # a
  BY DEF Untouched
<1>2. /\ DOMAIN apps' = (DOMAIN apps \cup Renewed(batch)) \ Gone(batch)
      /\ corrections' = corrections
  BY AggregateIs
<1>3. \A c \in corrections : c.app # a
  BY <1>1, <1>2
<1>. QED  BY <1>1, <1>2, <1>3 DEF Untouched

\* For them the evidence an aggregation goes by is the timeline it leaves.
LEMMA ToldIsKept ==
  ASSUME TablesInv, MovesTraced, NEW batch \in Batches, NEW a \in Renewed(batch),
         \A c \in corrections : c.app # a
  PROVE  Told(batch)[a] = EventsOf(a, Table(batch))
<1>1. a \in DOMAIN Told(batch) /\ ~MergedAway(a) /\ ~Locked(a)
  BY DEF Renewed
<1>2. Told(batch)[a] = EventsOf(a, Kept(batch)) \cup EventsOf(a, Free(batch))
  BY <1>1, ToldIs
<1>3. Inserted(batch) \subseteq Free(batch)
  BY DEF Inserted, Open
<1>4. ASSUME NEW p \in Free(batch), p.app = a PROVE p \in Table(batch)
  <2>1. p \in Open(batch)
    BY <1>1, <1>4 DEF Open, Refused, SummaryRefused
  <2>2. p \notin Barred(batch)
    BY <1>4, ProtectedCorrected DEF Barred, EventRefused
  <2>3. CASE \A v \in Kept(batch) : Id(v) # Id(p)
    BY <2>1, <2>2, <2>3 DEF Inserted, Table
  <2>4. ASSUME NEW v \in Kept(batch), Id(v) = Id(p) PROVE p \in Table(batch)
    <3>1. EventTyped(p) /\ p.origin = a
      BY <1>4, ProposedShape DEF Free, TablesInv
    <3>2. v \in events /\ EventTyped(v)
      BY DEF Kept, TablesInv, EventsTyped
    <3>3. v.origin = a
      BY <2>4, <3>1, IdParts
    <3>4. v.app = a
      BY <1>1, <3>2, <3>3 DEF MovesTraced, Traced
    <3>5. v = p
      BY <1>4, <2>4, <3>1, <3>2, <3>4, SameId DEF EventTyped
    <3>. QED  BY <3>5 DEF Table
  <2>. QED  BY <2>3, <2>4
<1>. QED  BY <1>2, <1>3, <1>4 DEF EventsOf, Table

\* An aggregation leaves a row that its timeline replays to.
LEMMA AggregateFollows ==
  ASSUME TablesInv, MovesTraced, AutomaticFollowsTimeline,
         NEW batch \in Batches, Aggregate(batch),
         NEW a \in Untouched', EventsOf(a, events') # {}
  PROVE  apps'[a].status = TimelineStatus(EventsOf(a, events'))
         /\ apps'[a].last = LastAt(EventsOf(a, events'))
<1>1. /\ a \in (DOMAIN apps \cup Renewed(batch)) \ Gone(batch)
      /\ \A c \in corrections : c.app # a
      /\ a \in DOMAIN apps => a \in Untouched
  BY UntouchedBefore
<1>2. apps'[a] = Row(batch, a) /\ events' = Table(batch)
  BY <1>1, AggregateIs
<1>3. CASE a \in Renewed(batch)
  <2>1. Told(batch)[a] = EventsOf(a, Table(batch))
    BY <1>1, <1>3, ToldIsKept
  <2>. QED  BY <1>2, <1>3, <2>1, RenewedRow
<1>4. CASE a \in Affected(batch)
  BY <1>1, <1>2, <1>4, AffectedRow
<1>5. CASE a \notin Renewed(batch) /\ a \notin Affected(batch)
  <2>1. a \in Untouched /\ ~Locked(a) /\ ~MergedAway(a)
    BY <1>1, <1>5, UntouchedFacts
  <2>2. a \notin DOMAIN Told(batch)
    BY <1>5, <2>1 DEF Renewed
  <2>3. \A v \in Lost(batch) : v.app # a
    BY <1>5, <2>2 DEF Affected
  <2>4. DOMAIN Told(batch) = {p.app : p \in Free(batch)}
    BY ToldIs
  <2>5. \A p \in Inserted(batch) : p.app # a
    BY <2>2, <2>4 DEF Inserted, Open
  <2>6. EventsOf(a, Table(batch)) = EventsOf(a, events)
    BY <2>3, <2>5 DEF EventsOf, Table, Kept
  <2>7. apps'[a] = apps[a]
    BY <1>2, <1>5, OtherRow
  <2>. QED  BY <1>2, <2>1, <2>6, <2>7 DEF AutomaticFollowsTimeline
<1>. QED  BY <1>3, <1>4, <1>5

\* An inference leaves a row that its timeline replays to.
LEMMA InferFollows ==
  ASSUME TablesInv, AutomaticFollowsTimeline, InferGhosts,
         NEW a \in Untouched', EventsOf(a, events') # {}
  PROVE  apps'[a].status = TimelineStatus(EventsOf(a, events'))
         /\ apps'[a].last = LastAt(EventsOf(a, events'))
<1>1. /\ events' = HauntedTable /\ DOMAIN apps' = DOMAIN apps
      /\ \A b \in DOMAIN apps : apps'[b] = IF b \in Touched THEN HauntedRow(b) ELSE apps[b]
      /\ corrections' = corrections
  BY InferIs
<1>2. a \in Untouched /\ a \in DOMAIN apps
  BY <1>1 DEF Untouched
<1>3. CASE a \in Touched
  <2>1. apps'[a] = HauntedRow(a)
    BY <1>1, <1>2, <1>3
  <2>. QED  BY <1>1, <1>2, <2>1, HauntedRowIs
<1>4. CASE a \notin Touched
  <2>1. \A g \in NewGhosts : g.app # a
    BY <1>4 DEF NewGhosts, Touched, GhostOf, Event
  <2>2. EventsOf(a, HauntedTable) = EventsOf(a, events)
    BY <1>4, <2>1 DEF EventsOf, HauntedTable, Left, Touched
  <2>. QED  BY <1>1, <1>2, <1>4, <2>2 DEF AutomaticFollowsTimeline
<1>. QED  BY <1>3, <1>4

LEMMA FollowsInductive ==
  TablesInv /\ MovesTraced /\ AutomaticFollowsTimeline /\ [Next]_vars
    => AutomaticFollowsTimeline'
<1> SUFFICES ASSUME TablesInv, MovesTraced, AutomaticFollowsTimeline, [Next]_vars,
                    NEW a \in Untouched', EventsOf(a, events') # {}
             PROVE  apps'[a].status = TimelineStatus(EventsOf(a, events'))
                    /\ apps'[a].last = LastAt(EventsOf(a, events'))
  BY DEF AutomaticFollowsTimeline
<1>1. ASSUME NEW batch \in Batches, Aggregate(batch)
      PROVE  apps'[a].status = TimelineStatus(EventsOf(a, events'))
             /\ apps'[a].last = LastAt(EventsOf(a, events'))
  BY <1>1, AggregateFollows
<1>2. CASE InferGhosts
  BY <1>2, InferFollows
<1>3. CASE Manual \/ Tick
  <2>1. a \in Untouched /\ apps'[a] = apps[a] /\ EventsOf(a, events') = EventsOf(a, events)
    BY <1>3, OthersAlone
  <2>. QED  BY <2>1 DEF AutomaticFollowsTimeline
<1>4. CASE UNCHANGED vars
  BY <1>4 DEF vars, Untouched, AutomaticFollowsTimeline
<1>. QED  BY <1>1, <1>2, <1>3, <1>4 DEF Next, Automatic

\* What a message told before goes when it is read again, unless it is told again.
LEMMA AggregateReplaces ==
  ASSUME TablesInv, OneEventPerMail, NEW batch \in Batches, Aggregate(batch)
  PROVE  OneEventPerMail'
<1> SUFFICES ASSUME NEW v \in events', NEW w \in events', v.email # Nobody, v.email = w.email,
                    v.app \in Untouched', w.app \in Untouched'
             PROVE  v = w
  BY DEF OneEventPerMail
<1>1. events' = Table(batch)
  BY AggregateIs
<1>2. ASSUME NEW x \in Kept(batch), x.app \in Untouched'
      PROVE  x \in events /\ x.app \in Untouched
  BY <1>2, UntouchedBefore DEF Kept, TablesInv, EventsTyped
<1>3. \A x \in Inserted(batch) : x \in Proposed(batch)
  BY DEF Inserted, Open, Free
<1>4. ASSUME NEW x \in Kept(batch), NEW y \in Inserted(batch), x.app \in Untouched', x.email = y.email
      PROVE  FALSE
  <2>1. \E r \in batch : r.mail = x.email
    BY <1>3, <1>4, ProposedShape DEF TablesInv
  <2>2. ~Locked(x.app) /\ ~Protected(x.app, x)
    BY <1>2, <1>4, UntouchedFacts
  <2>3. x \in events /\ x \notin Lost(batch)
    BY DEF Kept
  <2>4. PICK p \in Proposed(batch) : Id(p) = Id(x)
    BY <2>1, <2>2, <2>3 DEF Lost, Deleted, Stale
  <2>5. p.email = x.email
    BY <2>4, IdParts
  <2>6. p = y
    BY <1>3, <1>4, <2>5, ProposedIs DEF TablesInv
  <2>. QED  BY <2>4, <2>6 DEF Inserted
<1>5. CASE v \in Kept(batch) /\ w \in Kept(batch)
  BY <1>2, <1>5 DEF OneEventPerMail
<1>6. CASE v \in Inserted(batch) /\ w \in Inserted(batch)
  BY <1>3, <1>6, ProposedIs DEF TablesInv
<1>. QED  BY <1>1, <1>4, <1>5, <1>6 DEF Table

LEMMA OnePerMailInductive == TablesInv /\ OneEventPerMail /\ [Next]_vars => OneEventPerMail'
<1> SUFFICES ASSUME TablesInv, OneEventPerMail, [Next]_vars PROVE OneEventPerMail'
  OBVIOUS
<1>1. ASSUME NEW batch \in Batches, Aggregate(batch) PROVE OneEventPerMail'
  BY <1>1, AggregateReplaces
<1>2. CASE InferGhosts
  <2>1. /\ events' = HauntedTable /\ DOMAIN apps' = DOMAIN apps /\ corrections' = corrections
    BY <1>2, InferIs
  <2>2. \A a \in Untouched' : a \in Untouched
    BY <2>1 DEF Untouched
  <2>3. \A v \in events' : v.email # Nobody => v \in events
    <3>1. \A g \in NewGhosts : g.email = Nobody
      BY DEF NewGhosts, GhostOf, Event
    <3>. QED  BY <2>1, <3>1 DEF HauntedTable, Left
  <2>. QED  BY <2>2, <2>3 DEF OneEventPerMail
<1>3. CASE Manual \/ Tick
  <2> SUFFICES ASSUME NEW v \in events', NEW w \in events', v.email # Nobody, v.email = w.email,
                      v.app \in Untouched', w.app \in Untouched'
               PROVE  v = w
    BY DEF OneEventPerMail
  <2>1. ASSUME NEW x \in events', x.app \in Untouched' PROVE x \in events /\ x.app \in Untouched
    <3>1. x.app \in Untouched /\ EventsOf(x.app, events') = EventsOf(x.app, events)
      BY <1>3, <2>1, OthersAlone
    <3>. QED  BY <3>1 DEF EventsOf
  <2>. QED  BY <2>1 DEF OneEventPerMail
<1>4. CASE UNCHANGED vars
  BY <1>4 DEF vars, Untouched, OneEventPerMail
<1>. QED  BY <1>1, <1>2, <1>3, <1>4 DEF Next, Automatic

\* What a message tells an application the user left alone is what it was last read as.
ReadingsTold ==
  \A v \in events : v.app \in Untouched /\ v.email # Nobody => reading[v.email] = v.type

LEMMA AggregateTells ==
  ASSUME TablesInv, ReadingsTold, NEW batch \in Batches, Aggregate(batch)
  PROVE  ReadingsTold'
<1> SUFFICES ASSUME NEW v \in events', v.app \in Untouched', v.email # Nobody
             PROVE  reading'[v.email] = v.type
  BY DEF ReadingsTold
<1>1. events' = Table(batch)
  BY AggregateIs
<1>2. /\ \A r \in batch : reading'[r.mail] = r.type
      /\ \A m \in Mail : (\A r \in batch : r.mail # m) => reading'[m] = reading[m]
  BY AggregateReads DEF TablesInv
<1>3. ASSUME NEW p \in Proposed(batch) PROVE reading'[p.email] = p.type
  <2>1. PICK r \in Anchored(batch), i \in Somebody : \E k : p = ReadingEvent(r, i, k)
    BY ProposedIs DEF TablesInv
  <2>2. r \in batch /\ p.email = r.mail /\ p.type = r.type
    BY <2>1 DEF Anchored, ReadingEvent, Event
  <2>. QED  BY <1>2, <2>2
<1>4. CASE v \in Inserted(batch)
  BY <1>3, <1>4 DEF Inserted, Open, Free
<1>5. CASE v \in Kept(batch)
  <2>1. v \in events /\ v.app \in Untouched /\ v.email \in Mail
    BY <1>5, UntouchedBefore DEF Kept, TablesInv, EventsTyped, EventTyped
  <2>2. CASE \A r \in batch : r.mail # v.email
    BY <1>2, <2>1, <2>2 DEF ReadingsTold
  <2>3. CASE \E r \in batch : r.mail = v.email
    <3>1. ~Locked(v.app) /\ ~Protected(v.app, v)
      BY <2>1, UntouchedFacts
    <3>2. PICK p \in Proposed(batch) : Id(p) = Id(v)
      BY <1>5, <2>1, <2>3, <3>1 DEF Kept, Lost, Deleted, Stale
    <3>. QED  BY <1>3, <3>2, IdParts
  <2>. QED  BY <2>2, <2>3
<1>. QED  BY <1>1, <1>4, <1>5 DEF Table

LEMMA TellingInductive == TablesInv /\ ReadingsTold /\ [Next]_vars => ReadingsTold'
<1> SUFFICES ASSUME TablesInv, ReadingsTold, [Next]_vars PROVE ReadingsTold'
  OBVIOUS
<1>1. ASSUME NEW batch \in Batches, Aggregate(batch) PROVE ReadingsTold'
  BY <1>1, AggregateTells
<1>2. CASE InferGhosts
  <2>1. /\ events' = HauntedTable /\ DOMAIN apps' = DOMAIN apps /\ corrections' = corrections
        /\ reading' = reading
    BY <1>2, InferIs
  <2>2. \A a \in Untouched' : a \in Untouched
    BY <2>1 DEF Untouched
  <2>3. \A v \in events' : v.email # Nobody => v \in events
    <3>1. \A g \in NewGhosts : g.email = Nobody
      BY DEF NewGhosts, GhostOf, Event
    <3>. QED  BY <2>1, <3>1 DEF HauntedTable, Left
  <2>. QED  BY <2>1, <2>2, <2>3 DEF ReadingsTold
<1>3. CASE Manual \/ Tick
  <2>1. reading' = reading
    BY <1>3 DEF Manual, EditStatus, EditEvent, Merge, Split, ResetLock, CompleteInterview, Correct, Tick
  <2>2. ASSUME NEW x \in events', x.app \in Untouched' PROVE x \in events /\ x.app \in Untouched
    <3>1. x.app \in Untouched /\ EventsOf(x.app, events') = EventsOf(x.app, events)
      BY <1>3, <2>2, OthersAlone
    <3>. QED  BY <3>1 DEF EventsOf
  <2>. QED  BY <2>1, <2>2 DEF ReadingsTold
<1>4. CASE UNCHANGED vars
  BY <1>4 DEF vars, Untouched, ReadingsTold
<1>. QED  BY <1>1, <1>2, <1>3, <1>4 DEF Next, Automatic

\* The invariant of the timelines.
TimelineInv ==
  /\ TablesInv /\ MovesTraced /\ AutomaticFollowsTimeline
  /\ OneEventPerMail /\ ReadingsTold /\ corrected \in Nat

LEMMA InitTimeline == Init => TimelineInv
<1> SUFFICES ASSUME Init PROVE TimelineInv
  OBVIOUS
<1>1. TablesInv
  BY InitTables
<1>2. events = {} /\ corrected = 0
  BY DEF Init
<1>. QED
  BY <1>1, <1>2 DEF TimelineInv, MovesTraced, AutomaticFollowsTimeline, OneEventPerMail,
     ReadingsTold, EventsOf

LEMMA CorrectedCounts == corrected \in Nat /\ [Next]_vars => corrected' \in Nat
<1> SUFFICES ASSUME corrected \in Nat, [Next]_vars PROVE corrected' \in Nat
  OBVIOUS
<1>1. ASSUME Correct PROVE corrected' \in Nat
  BY <1>1 DEF Correct
<1>2. Manual => Correct
  BY DEF Manual, EditStatus, EditEvent, Merge, Split, ResetLock, CompleteInterview
<1>. QED
  BY <1>1, <1>2 DEF Next, Automatic, Aggregate, InferGhosts, Tick, vars

LEMMA TimelineInductive == TimelineInv /\ [Next]_vars => TimelineInv'
<1> SUFFICES ASSUME TimelineInv, [Next]_vars PROVE TimelineInv'
  OBVIOUS
<1>1. TablesInv'
  BY TablesInductive DEF TimelineInv
<1>2. MovesTraced'
  BY TracesInductive DEF TimelineInv
<1>3. AutomaticFollowsTimeline'
  BY FollowsInductive DEF TimelineInv
<1>4. OneEventPerMail'
  BY OnePerMailInductive DEF TimelineInv
<1>5. ReadingsTold'
  BY TellingInductive DEF TimelineInv
<1>6. corrected' \in Nat
  BY CorrectedCounts DEF TimelineInv
<1>. QED  BY <1>1, <1>2, <1>3, <1>4, <1>5, <1>6 DEF TimelineInv

\* The status and last activity of an application the user left alone are those its
\* timeline replays to, however aggregations and inferences follow one another.
THEOREM TimelineFollowed == Spec => []AutomaticFollowsTimeline
<1>1. TimelineInv => AutomaticFollowsTimeline
  BY DEF TimelineInv
<1>. QED  BY <1>1, InitTimeline, TimelineInductive, PTL DEF Spec

\* Among the applications the user left alone a message has one event, however often
\* and as whatever it was read.
THEOREM MailTellsOneThing == Spec => []OneEventPerMail
<1>1. TimelineInv => OneEventPerMail
  BY DEF TimelineInv
<1>. QED  BY <1>1, InitTimeline, TimelineInductive, PTL DEF Spec

-----------------------------------------------------------------------------
(* What the user decided.                                                  *)

\* Aggregation and inference leave locked rows and their events, and edited events.
LEMMA AggregateHolds ==
  ASSUME TablesInv, NEW batch \in Batches, Aggregate(batch)
  PROVE  LocksHold /\ EditsSurvive /\ DoneStaysDone
<1>1. /\ apps' = [a \in (DOMAIN apps \cup Renewed(batch)) \ Gone(batch) |-> Row(batch, a)]
      /\ events' = Table(batch)
      /\ tasks' = tasks
  BY AggregateIs
<1>2. ASSUME NEW v \in events, Locked(v.app) \/ Protected(v.app, v) PROVE v \in events'
  <2>1. v \notin Lost(batch)
    BY <1>2, LostFacts
  <2>. QED  BY <1>1, <2>1 DEF Table, Kept
<1>3. LocksHold
  <2> SUFFICES ASSUME NEW a \in DOMAIN apps, apps[a].locked
               PROVE  /\ a \in DOMAIN apps' /\ apps'[a] = apps[a]
                      /\ EventsOf(a, events) \subseteq EventsOf(a, events')
    BY DEF LocksHold
  <2>1. Locked(a) /\ a \notin Renewed(batch) /\ a \notin Gone(batch)
    BY GoneFacts DEF Locked, Renewed
  <2>2. a \notin Affected(batch)
    BY <2>1, LostFacts DEF Affected
  <2>3. a \in DOMAIN apps' /\ apps'[a] = apps[a]
    BY <1>1, <2>1, <2>2, OtherRow
  <2>. QED  BY <1>2, <2>1, <2>3 DEF EventsOf
<1>4. EditsSurvive
  BY <1>2 DEF EditsSurvive, Protected
<1>5. DoneStaysDone
  BY <1>1 DEF DoneStaysDone, Completed
<1>. QED  BY <1>3, <1>4, <1>5

LEMMA InferHolds ==
  ASSUME TablesInv, InferGhosts
  PROVE  LocksHold /\ EditsSurvive /\ DoneStaysDone
<1>1. /\ events' = HauntedTable /\ DOMAIN apps' = DOMAIN apps
      /\ \A a \in DOMAIN apps : apps'[a] = IF a \in Touched THEN HauntedRow(a) ELSE apps[a]
      /\ tasks' = tasks
  BY InferIs
<1>2. LocksHold
  <2> SUFFICES ASSUME NEW a \in DOMAIN apps, apps[a].locked
               PROVE  /\ a \in DOMAIN apps' /\ apps'[a] = apps[a]
                      /\ EventsOf(a, events) \subseteq EventsOf(a, events')
    BY DEF LocksHold
  <2>1. a \notin Touched
    BY DEF Touched, Retracted, Ghosted, GhostCandidate, Locked
  <2>. QED  BY <1>1, <2>1 DEF EventsOf, HauntedTable, Left, Touched
<1>3. EditsSurvive
  <2> SUFFICES ASSUME NEW v \in events, EventEdited(v.app, Id(v)) PROVE v \in events'
    BY DEF EditsSurvive
  <2>1. ~(v.app \in Retracted /\ v.type = "ghost_inferred")
    BY DEF Retracted, Ghosts, EventsOf
  <2>. QED  BY <1>1, <2>1 DEF HauntedTable, Left
<1>4. DoneStaysDone
  BY <1>1 DEF DoneStaysDone, Completed
<1>. QED  BY <1>2, <1>3, <1>4

\* Only the user changes a locked application or takes events from it, an event as the
\* user edited it stays, and what was marked done stays done: aggregation, ghost
\* inference and time undo nothing of it.
THEOREM UserHasTheLastWord == Spec => UserDecides
<1>1. ASSUME TimelineInv, [Next]_vars PROVE [corrected' = corrected => LocksHold /\ EditsSurvive /\ DoneStaysDone]_vars
  <2> SUFFICES ASSUME corrected' = corrected, Next
               PROVE  LocksHold /\ EditsSurvive /\ DoneStaysDone
    BY <1>1
  <2>1. TablesInv /\ corrected \in Nat
    BY <1>1 DEF TimelineInv
  <2>2. ASSUME NEW batch \in Batches, Aggregate(batch)
        PROVE  LocksHold /\ EditsSurvive /\ DoneStaysDone
    BY <2>1, <2>2, AggregateHolds
  <2>3. CASE InferGhosts
    BY <2>1, <2>3, InferHolds
  <2>4. CASE Manual
    <3>1. Correct
      BY <2>4 DEF Manual, EditStatus, EditEvent, Merge, Split, ResetLock, CompleteInterview
    <3>. QED  BY <2>1, <3>1 DEF Correct
  <2>5. CASE Tick
    BY <2>5 DEF Tick, LocksHold, EditsSurvive, DoneStaysDone, Completed
  <2>. QED  BY <2>2, <2>3, <2>4, <2>5 DEF Next, Automatic
<1>. QED  BY <1>1, InitTimeline, TimelineInductive, PTL DEF Spec, UserDecides

\* A message newly read as evidence gets an event or a conflict the user is shown, unless
\* its application was merged away: no branch of the aggregation drops it silently.
THEOREM NoEvidenceDropped == Spec => EvidenceAccounted
<1> DEFINE Accounted(m) == \/ \E v \in events' : v.email = m
                           \/ \E c \in conflicts' : c.mail = m
                           \/ \E c \in corrections : c.kind = "merge" /\ \E a \in c.about : a[2] = Thread[m]
           Step == \A m \in Mail : reading'[m] # reading[m] /\ reading'[m] \in LifecycleTypes => Accounted(m)
<1>1. ASSUME TablesInv, NEW batch \in Batches, Aggregate(batch), NEW m \in Mail,
             reading'[m] # reading[m], reading'[m] \in LifecycleTypes
      PROVE  Accounted(m)
  <2>1. PICK r \in batch : r.mail = m /\ r.type \in LifecycleTypes
    BY <1>1, AggregateReads DEF TablesInv
  <2>2. PICK p \in Proposed(batch) : p.email = m
    <3>1. r \in Anchored(batch)
      BY <2>1 DEF Anchored
    <3>. QED  BY <1>1, <2>1, <3>1, ProposedIs DEF TablesInv
  <2>3. p.app[2] = Thread[m]
    BY <1>1, <2>2, ProposedShape DEF TablesInv
  <2>4. /\ events' = Table(batch)
        /\ conflicts' = conflicts \cup {Conflict(v.app, v.email) : v \in Contested(batch)}
    BY <1>1, AggregateIs
  <2>5. ASSUME NEW v \in Contested(batch), v.email = m PROVE Accounted(m)
    <3>1. /\ Conflict(v.app, v.email) \in conflicts'
          /\ Conflict(v.app, v.email).mail = m
      BY <2>4, <2>5 DEF Conflict
    <3>. QED  BY <3>1
  <2>6. CASE p \notin Free(batch)
    <3>1. PICK v \in Withheld(batch) : v.email = m
      BY <2>2, <2>6 DEF Free
    <3>2. v \in Kept(batch)
      BY <3>1, LostFacts DEF Withheld, Blocked, Stale, Kept
    <3>. QED  BY <1>1, <2>4, <3>1, <3>2 DEF Kept, Table
  <2>7. CASE p \in Free(batch)
    <3>2. CASE MergedAway(p.app)
      BY <2>3, <3>2 DEF MergedAway
    <3>3. CASE p.app \in Refused(batch) \/ p \in Barred(batch)
      BY <2>2, <2>5, <2>7, <3>3 DEF Contested
    <3>4. CASE p \in Inserted(batch)
      BY <2>2, <2>4, <3>4 DEF Table
    <3>5. ASSUME NEW v \in Kept(batch), Id(v) = Id(p) PROVE Accounted(m)
      <4>1. v.email = m
        BY <2>2, <3>5, IdParts
      <4>. QED  BY <2>4, <4>1 DEF Table
    <3>. QED  BY <2>7, <3>2, <3>3, <3>4, <3>5 DEF Inserted, Open
  <2>. QED  BY <2>6, <2>7
<1>2. ASSUME TimelineInv, Next PROVE Step
  <2> SUFFICES ASSUME NEW m \in Mail, reading'[m] # reading[m], reading'[m] \in LifecycleTypes
               PROVE  Accounted(m)
    OBVIOUS
  <2>1. reading' # reading
    OBVIOUS
  <2>2. PICK batch \in Batches : Aggregate(batch)
    BY <1>2, <2>1 DEF Next, Automatic, InferGhosts, Manual, Tick, Correct, EditStatus, EditEvent,
       Merge, Split, ResetLock, CompleteInterview
  <2>. QED  BY <1>1, <1>2, <2>2 DEF TimelineInv
<1>3. TimelineInv /\ [Next]_vars => [Step]_vars
  BY <1>2
<1>. QED  BY <1>3, InitTimeline, TimelineInductive, PTL DEF Spec, EvidenceAccounted

-----------------------------------------------------------------------------
(* What ghosts stand for.                                                  *)

\* The rest of an application's timeline, without its ghosts.
Others(a) == EventsOf(a, events) \ Ghosts(EventsOf(a, events))

LEMMA OthersTyped ==
  ASSUME TablesInv, NEW a
  PROVE  /\ \A v \in EventsOf(a, events) : EventTyped(v)
         /\ \A v \in Others(a) : EventTyped(v)
         /\ Others(a) = EventsOf(a, events) \ Ghosts(events)
         /\ Ghosts(Others(a)) = {}
BY DEF Others, EventsOf, Ghosts, TablesInv, EventsTyped

LEMMA SettledIs == Settled => HauntedTable = events
BY HauntingIs DEF Settled

LEMMA SettledGhosts ==
  ASSUME TablesInv, Settled, NEW a \in DOMAIN apps,
         Ghosts(EventsOf(a, events)) # {}, Unattended(a)
  PROVE  /\ Applied(Others(a)) # {} /\ ~Answered(Others(a))
         /\ {v.at : v \in Ghosts(EventsOf(a, events))} = {LastAt(Others(a)) + GhostAfter}
         /\ LastAt(Others(a)) + GhostAfter <= now
<1> DEFINE mine == EventsOf(a, events)
<1>1. ~Locked(a) /\ \A v \in Ghosts(mine) : ~EventEdited(a, Id(v))
  BY DEF Unattended, EventEdited
<1>2. \A v \in Others(a) : EventTyped(v)
  BY OthersTyped
<1>3. now \in Int /\ GhostAfter \in Int
  BY TimelineConstants DEF TablesInv
<1>4. CASE Unfounded(a)
  <2>1. a \in Retracted
    BY <1>1, <1>4 DEF Retracted
  <2>2. EventsOf(a, Left) = Others(a)
    BY <2>1 DEF EventsOf, Left, Others, Ghosts
  <2>3. ASSUME NEW v \in Ghosts(mine) PROVE a \in Ghosted /\ v = GhostOf(a)
    <3>1. v \in HauntedTable /\ v \notin Left /\ v.app = a
      BY <2>1, SettledIs DEF Ghosts, EventsOf, Left
    <3>2. PICK b \in Ghosted : v = GhostOf(b)
      BY <3>1 DEF HauntedTable, NewGhosts
    <3>3. b = a
      BY <3>1, <3>2 DEF GhostOf, Event
    <3>. QED  BY <3>2, <3>3
  <2>4. a \in Ghosted
    BY <2>3
  <2>5. GhostCandidate(a, Left)
    BY <2>4 DEF Ghosted
  <2>6. Applied(Others(a)) # {} /\ ~Answered(Others(a)) /\ Ghosts(Others(a)) = {}
    BY <2>2, <2>5 DEF GhostCandidate
  <2>7. LastAt(Others(a)) = Latest(Others(a)).at
    BY <1>2, <2>6, LatestUnanswered
  <2>8. GhostOf(a).at = LastAt(Others(a)) + GhostAfter
    BY <2>2, <2>7 DEF GhostOf, Event
  <2>9. GhostOf(a).at <= now
    BY <2>5, GhostDate
  <2>10. {v.at : v \in Ghosts(mine)} = {GhostOf(a).at}
    BY <2>3
  <2>. QED  BY <2>6, <2>8, <2>9, <2>10
<1>5. CASE ~Unfounded(a)
  <2> DEFINE rest == mine \ Ghosts(events)
             quiet == (IF rest = {} THEN apps[a].last ELSE Latest(rest).at) + GhostAfter
  <2>1. rest = Others(a) /\ Ghosts(Others(a)) = {}
    BY OthersTyped
  <2>2. /\ Applied(rest) # {} /\ ~Answered(rest) /\ ~(quiet > now)
        /\ {v.at : v \in Ghosts(mine)} = {quiet}
    BY <1>5, Zenon DEF Unfounded
  <2>3. Applied(Others(a)) # {} /\ ~Answered(Others(a))
    BY <2>1, <2>2
  <2>4. rest # {}
    BY <2>2 DEF Applied
  <2>5. LastAt(Others(a)) = Latest(Others(a)).at /\ Latest(Others(a)).at \in Int
    BY <1>2, <2>1, <2>3, LatestUnanswered, TimesNatural
  <2>6. quiet = LastAt(Others(a)) + GhostAfter
    BY <2>1, <2>4, <2>5
  <2>7. {v.at : v \in Ghosts(mine)} = {LastAt(Others(a)) + GhostAfter}
    BY <2>2, <2>6
  <2>8. LastAt(Others(a)) + GhostAfter <= now
    <3>1. ~(LastAt(Others(a)) + GhostAfter > now)
      BY <2>2, <2>6
    <3>2. LastAt(Others(a)) \in Int
      BY <2>5
    <3>. QED  BY <1>3, <3>1, <3>2
  <2>. QED  BY <2>3, <2>7, <2>8
<1>. QED  BY <1>4, <1>5

\* Once a run has nothing to change, a ghost that nobody else tampered with stands for
\* silence as old as the threshold since the last sign of life.
THEOREM GhostsStandForSilence == Spec => []GhostsJustified
<1>1. TimelineInv => GhostsJustified
  <2> SUFFICES ASSUME TimelineInv, Settled, NEW a \in DOMAIN apps,
                      Ghosts(EventsOf(a, events)) # {}, Unattended(a)
               PROVE  /\ Applied(Others(a)) # {} /\ ~Answered(Others(a))
                      /\ {v.at : v \in Ghosts(EventsOf(a, events))} = {LastAt(Others(a)) + GhostAfter}
                      /\ LastAt(Others(a)) + GhostAfter <= now
    BY DEF GhostsJustified, Others
  <2>. QED  BY SettledGhosts DEF TimelineInv
<1>. QED  BY <1>1, InitTimeline, TimelineInductive, PTL DEF Spec

-----------------------------------------------------------------------------
(* The views.                                                              *)

LEMMA EvidenceIs == \A a : Evidence(a) = Others(a)
BY DEF Evidence, Others, Timeline

\* What the silence query and the ghost query measure is the same.
LEMMA SilenceMeasured ==
  ASSUME TablesInv, NEW a, Applied(Evidence(a)) # {}, ~Answered(Evidence(a))
  PROVE  /\ Latest(Evidence(a)).at \in Times
         /\ Latest(Applied(Evidence(a))) \in Applied(Evidence(a))
         /\ Latest(Applied(Evidence(a))).at = Latest(Evidence(a)).at
         /\ LastAt(Evidence(a)) = Latest(Evidence(a)).at
         /\ LastAt(Applied(Evidence(a))) = Latest(Evidence(a)).at
         /\ now \in Nat
<1>1. (\A v \in Evidence(a) : EventTyped(v)) /\ Ghosts(Evidence(a)) = {}
  BY OthersTyped, EvidenceIs
<1>2. now \in Nat
  BY TimelineConstants DEF TablesInv
<1>. QED  BY <1>1, <1>2, LatestUnanswered

LEMMA SilenceAgrees == TablesInv => SilenceAgreesWithGhosts
<1> SUFFICES ASSUME TablesInv, NEW f \in Filters, NEW a \in Counted(f),
                    Applied(Evidence(a)) # {}, ~Answered(Evidence(a))
             PROVE  SilenceDays(a) >= GhostAfter <=> Latest(Evidence(a)).at <= now - GhostAfter
  BY DEF SilenceAgreesWithGhosts, Silent, ThresholdGhosted
<1>1. /\ Latest(Evidence(a)).at \in Nat /\ now \in Nat
      /\ Latest(Applied(Evidence(a))).at = Latest(Evidence(a)).at
  BY SilenceMeasured, TimesNatural
<1>2. GhostAfter \in Nat \ {0}
  BY TimelineConstants
<1>. QED  BY <1>1, <1>2 DEF SilenceDays

LEMMA AllCounted ==
  ASSUME TablesInv, NEW a
  PROVE  a \in Counted(Unfiltered) <=> a \in DOMAIN apps /\ Submitted(a)
<1> SUFFICES ASSUME a \in DOMAIN apps
             PROVE  /\ apps[a].status \in Statuses /\ apps[a].identity \in Anyone
                    /\ 0 <= apps[a].first /\ apps[a].first <= Horizon + GhostAfter
  BY DEF Counted, Unfiltered
<1>1. apps[a] \in Summaries
  BY DEF TablesInv, RowsTyped
<1>. QED  BY <1>1, TimesNatural DEF Summaries, Anyone

LEMMA GhostCountAgrees == TablesInv => GhostCountAgreesWithInference
<1> SUFFICES ASSUME TablesInv, Settled
             PROVE  {a \in ThresholdGhosted(Unfiltered) : Unattended(a)} =
                    {a \in DOMAIN apps : Ghosts(Timeline(a)) # {} /\ Submitted(a) /\ Unattended(a)}
  BY DEF GhostCountAgreesWithInference
<1>1. \A a : a \in Counted(Unfiltered) <=> a \in DOMAIN apps /\ Submitted(a)
  BY AllCounted
<1>2. now \in Nat /\ GhostAfter \in Nat /\ Times \subseteq Nat
  BY TimelineConstants, TimesNatural DEF TablesInv
<1>3. ASSUME NEW a \in DOMAIN apps, Ghosts(Timeline(a)) # {}, Submitted(a), Unattended(a)
      PROVE  a \in ThresholdGhosted(Unfiltered)
  <2>1. /\ Applied(Evidence(a)) # {} /\ ~Answered(Evidence(a))
        /\ LastAt(Evidence(a)) + GhostAfter <= now
    BY <1>3, SettledGhosts, EvidenceIs DEF Timeline
  <2>2. LastAt(Evidence(a)) = Latest(Evidence(a)).at /\ Latest(Evidence(a)).at \in Nat
    BY <1>2, <2>1, SilenceMeasured
  <2>. QED  BY <1>1, <1>2, <1>3, <2>1, <2>2 DEF ThresholdGhosted
<1>4. ASSUME NEW a \in ThresholdGhosted(Unfiltered), Unattended(a), Ghosts(Timeline(a)) = {} PROVE FALSE
  <2>1. /\ a \in DOMAIN apps /\ Submitted(a) /\ Applied(Evidence(a)) # {}
        /\ ~Answered(Evidence(a)) /\ Latest(Evidence(a)).at <= now - GhostAfter
    BY <1>1 DEF ThresholdGhosted
  <2>2. EventsOf(a, Left) = EventsOf(a, events) /\ Evidence(a) = EventsOf(a, events)
    BY <1>4 DEF EventsOf, Left, Retracted, Evidence, Timeline
  <2>3. LastAt(Applied(Evidence(a))) + GhostAfter <= now
    <3>1. /\ LastAt(Applied(Evidence(a))) = Latest(Evidence(a)).at
          /\ Latest(Evidence(a)).at \in Nat
      BY <1>2, <2>1, SilenceMeasured
    <3>. QED  BY <1>2, <2>1, <3>1
  <2>4. GhostCandidate(a, Left)
    BY <1>4, <2>1, <2>2, <2>3 DEF GhostCandidate, Submitted, Timeline, Unattended
  <2>5. a \in Ghosted
    BY <1>4, <2>1, <2>4 DEF Ghosted, Unattended, EventEdited
  <2>6. GhostOf(a).app = a /\ GhostOf(a).origin = a /\ GhostOf(a).type = "ghost_inferred"
    BY DEF GhostOf, Event
  <2>7. \A v \in Left : Id(v) # Id(GhostOf(a))
    <3> SUFFICES ASSUME NEW v \in Left, Id(v) = Id(GhostOf(a)) PROVE FALSE
      OBVIOUS
    <3>1. v.origin = a /\ v.type = "ghost_inferred" /\ v \in events
      BY <2>6, IdParts DEF Left
    <3>2. v.app = a
      BY <1>4, <3>1 DEF Unattended, Ghosts
    <3>. QED  BY <1>4, <3>1, <3>2 DEF Ghosts, Timeline, EventsOf
  <2>8. GhostOf(a) \in events
    BY <2>5, <2>7, SettledIs DEF NewGhosts, HauntedTable
  <2>. QED  BY <1>4, <2>6, <2>8 DEF Ghosts, Timeline, EventsOf
<1>5. \A a \in ThresholdGhosted(Unfiltered) : a \in DOMAIN apps /\ Submitted(a)
  BY <1>1 DEF ThresholdGhosted
<1>. QED  BY <1>3, <1>4, <1>5

LEMMA ChatAgrees == TablesInv => ChatAgreesWithDashboard
<1> SUFFICES ASSUME TablesInv, NEW f \in Filters
             PROVE  /\ \A part \in DOMAIN SummaryCounts(f) \ {"responses", "silent"} :
                         SummaryCounts(f)[part] = Summary(f)[part]
                    /\ \A start, end \in Mail : start < end =>
                         Counted(DateWindow(start, end, f)) = CountedBetween(start, end, f)
  BY DEF ChatAgreesWithDashboard
<1>1. \A part \in DOMAIN SummaryCounts(f) \ {"responses", "silent"} :
        SummaryCounts(f)[part] = Summary(f)[part]
  BY DEF SummaryCounts, Summary
<1>2. ASSUME NEW start \in Mail, NEW end \in Mail, start < end
      PROVE  Counted(DateWindow(start, end, f)) = CountedBetween(start, end, f)
  <2> DEFINE window == DateWindow(start, end, f)
  <2>1. f \in MetricsFilter /\ start \in Nat /\ end \in Nat
    BY MetricsConstants, TimesNatural
  <2>2. /\ window.statuses = f.statuses /\ window.identities = f.identities
        /\ window.from = IF start > f.from THEN start ELSE f.from
        /\ window.to = IF end - 1 < f.to THEN end - 1 ELSE f.to
    BY <2>1 DEF DateWindow, MetricsFilter
  <2>3. f.from \in Nat /\ f.to \in Nat
    BY <2>1 DEF MetricsFilter
  <2>4. \A a \in DOMAIN apps : apps[a].first \in Nat
    BY TimesNatural DEF TablesInv, RowsTyped, Summaries
  <2> HIDE DEF window
  <2>5. ASSUME NEW a \in DOMAIN apps
        PROVE  window.from <= apps[a].first /\ apps[a].first <= window.to <=>
                 /\ f.from <= apps[a].first /\ apps[a].first <= f.to
                 /\ start <= apps[a].first /\ apps[a].first < end
    <3>1. apps[a].first \in Nat
      BY <2>4
    <3>. QED  BY <2>1, <2>2, <2>3, <3>1
  <2>6. Counted(window) = CountedBetween(start, end, f)
    BY <2>2, <2>5 DEF Counted, CountedBetween
  <2>. QED  BY <2>6 DEF window
<1>. QED  BY <1>1, <1>2

\* A ghost at the end of a timeline that nothing else follows makes its status.
LEMMA GhostedLast ==
  ASSUME NEW table, \A v \in table : EventTyped(v), NEW last \in Nat, NEW g \in table,
         g.type = "ghost_inferred", g.at > last,
         \A v \in table : v.type # "ghost_inferred" => v.at <= last
  PROVE  TimelineStatus(table) = "ghosted"
<1> DEFINE decisive == {v \in table : v.type \notin AnchoredTypes}
           latest == Latest(decisive)
<1>1. g \in decisive
  BY DEF AnchoredTypes
<1>2. Dated(table) /\ Dated(decisive)
  BY EventsDated DEF Dated
<1>3. latest \in decisive /\ \A w \in decisive : w.at <= latest.at
  BY <1>1, <1>2, LatestIs
<1>4. \A v \in table : v.at \in Nat
  BY <1>2, TimesNatural DEF Dated
<1>5. latest.at > last /\ latest \in table
  BY <1>1, <1>3, <1>4
<1>6. latest.type = "ghost_inferred"
  BY <1>4, <1>5
<1>7. \A v \in table : v.type = "response" => ~Precedes(latest, v)
  <2> SUFFICES ASSUME NEW v \in table, v.type = "response" PROVE ~Precedes(latest, v)
    OBVIOUS
  <2>1. v.at < latest.at
    BY <1>4, <1>5
  <2>2. ~(latest.at < v.at) /\ latest.at # v.at
    BY <1>4, <1>5, <2>1
  <2>. QED  BY <2>2, PrecedesDef
<1>8. StatusOf(latest.type) = "ghosted"
  BY <1>6 DEF StatusOf
<1>9. decisive # {}
  BY <1>1
<1>. QED
  <2>1. TimelineStatus(table) =
          LET base == IF decisive = {} THEN "applied" ELSE StatusOf(latest.type)
              answered == \E v \in table : v.type = "response" /\ (decisive # {} => Precedes(latest, v))
          IN  IF answered THEN Transition(base, "response") ELSE base
    BY DEF TimelineStatus
  <2> HIDE DEF decisive, latest
  <2>. QED  BY <1>7, <1>8, <1>9, <2>1

LEMMA SilentFollowedUp == TablesInv /\ AutomaticFollowsTimeline => SilentAreFollowedUp
<1> SUFFICES ASSUME TablesInv, AutomaticFollowsTimeline, NEW f \in Filters,
                    NEW a \in Silent(f) \cap LiveApplications(f), a \in Untouched, ~Simultaneous(a)
             PROVE  a \in FollowUpDue(f) <=> SilenceDays(a) >= FollowUpAfter
  BY DEF SilentAreFollowedUp
<1> DEFINE table == Timeline(a)
           sent == Latest(Applied(Evidence(a)))
<1>1. /\ Applied(Evidence(a)) # {} /\ ~Answered(Evidence(a))
      /\ apps[a].status \in {"applied", "in_review", "interview"}
  BY DEF Silent, LiveApplications
<1>2. \A v \in table : EventTyped(v)
  BY OthersTyped DEF Timeline
<1>3. /\ sent.at \in Nat /\ sent \in Applied(Evidence(a)) /\ sent.at = LastAt(Evidence(a))
      /\ now \in Nat
  BY <1>1, SilenceMeasured, TimesNatural
<1>4. sent \in table /\ sent.type = "applied" /\ Evidence(a) \subseteq table
  BY <1>3 DEF Applied, Evidence
<1>5. Dated(table) /\ Dated(Evidence(a)) /\ Evidence(a) # {}
  BY <1>2, <1>3, <1>4, EventsDated DEF Applied, Dated
<1>6. \A v \in Evidence(a) : v.at <= sent.at
  BY <1>3, <1>5, FirstLast
<1>7. \A v \in table : v.at \in Nat
  BY <1>5, TimesNatural DEF Dated
<1>8. \A v \in table : v.type # "ghost_inferred" => v.at <= sent.at
  BY <1>6 DEF Evidence, Ghosts
<1>9. \A v \in table : v.at <= sent.at
  <2> SUFFICES ASSUME NEW g \in table, g.at > sent.at PROVE FALSE
    BY <1>3, <1>7
  <2>1. g.type = "ghost_inferred"
    BY <1>3, <1>7, <1>8
  <2>2. TimelineStatus(table) = "ghosted"
    BY <1>2, <1>3, <1>8, <2>1, GhostedLast
  <2>3. apps[a].status = TimelineStatus(table)
    BY <1>4 DEF AutomaticFollowsTimeline, Timeline
  <2>. QED  BY <1>1, <2>2, <2>3
<1>10. LastAt(table) = sent.at
  <2>1. /\ \A v \in table : v.at <= LastAt(table)
        /\ \E v \in table : v.at = LastAt(table)
    BY <1>4, <1>5, FirstLast
  <2>. QED  BY <1>4, <1>7, <1>9, <2>1
<1>11. LatestEvent(a) = sent
  <2>1. LatestEvent(a) \in table /\ LatestEvent(a).at = LastAt(table)
    BY <1>4, <1>10 DEF LatestEvent
  <2>. QED  BY <1>4, <1>10, <2>1 DEF Simultaneous
<1>12. WaitingOnEmployer(a)
  BY <1>4, <1>11 DEF WaitingOnEmployer
<1>13. DaysWaiting(a) = SilenceDays(a)
  BY <1>4, <1>10 DEF DaysWaiting, SilenceDays
<1>. QED  BY <1>12, <1>13 DEF FollowUpDue

\* Of the interviews of a company one is the last.
LEMMA LastInterview ==
  ASSUME TablesInv, NEW u \in Interviews
  PROVE  \E v \in Interviewed : apps[v.app].identity = apps[u.app].identity
<1> DEFINE own == {w \in Interviews : apps[w.app].identity = apps[u.app].identity}
           ats == {w.at : w \in own}
<1>1. ats \subseteq Times /\ ats # {}
  BY DEF Interviews, TablesInv, EventsTyped, EventTyped
<1>2. PICK last \in ats : \A k \in ats : k <= last
  <2> HIDE DEF ats
  <2>1. ats \subseteq 0 .. Horizon + GhostAfter /\ Horizon + GhostAfter \in Nat
    BY <1>1, TimesNatural
  <2>. QED  BY <1>1, <2>1, GreatestNumber
<1>3. PICK v \in own : v.at = last
  BY <1>2
<1>4. v \in Interviewed
  BY <1>2, <1>3 DEF Interviewed
<1>. QED  BY <1>3, <1>4

\* Where nothing is simultaneous and the status is that of an interview, what came last is
\* neither an application nor a ghost.
LEMMA InterviewUnderWay ==
  ASSUME TablesInv, AutomaticFollowsTimeline, NEW a \in Untouched, ~Simultaneous(a),
         Timeline(a) # {}, apps[a].status = "interview"
  PROVE  /\ LatestEvent(a) \in Timeline(a) /\ LatestEvent(a).email \in Mail
         /\ LatestEvent(a).type # "applied"
<1> DEFINE table == Timeline(a)
           decisive == {v \in table : v.type \notin AnchoredTypes}
           latest == Latest(decisive)
           last == LatestEvent(a)
<1>1. (\A v \in table : EventTyped(v)) /\ Dated(table)
  BY OthersTyped, EventsDated DEF Timeline
<1>2. /\ \E v \in table : v.at = LastAt(table)
      /\ \A v \in table : v.at <= LastAt(table) /\ v.at \in Nat
  BY <1>1, FirstLast, TimesNatural DEF Dated
<1>3. last \in table /\ last.at = LastAt(table)
  BY <1>2 DEF LatestEvent
<1>4. \A v \in table : v # last => v.at < last.at
  BY <1>2, <1>3 DEF Simultaneous
<1>5. TimelineStatus(table) = "interview"
  BY DEF AutomaticFollowsTimeline, Timeline
<1>6. ASSUME last.type \notin AnchoredTypes PROVE TimelineStatus(table) = StatusOf(last.type)
  <2>1. last \in decisive /\ Dated(decisive)
    BY <1>1, <1>3, <1>6 DEF Dated
  <2>2. latest \in decisive /\ \A w \in decisive : w.at <= latest.at
    BY <2>1, LatestIs
  <2>3. latest = last
    BY <1>2, <1>4, <2>1, <2>2
  <2>4. \A v \in table : ~Precedes(last, v)
    <3> SUFFICES ASSUME NEW v \in table, Precedes(last, v) PROVE FALSE
      OBVIOUS
    <3>1. v # last => v.at < last.at
      BY <1>4
    <3>2. last.at \in Nat /\ v.at \in Nat /\ Sent(last) \in Nat
      BY <1>1, <1>2, <1>3, SentIsTime, TimesNatural
    <3>. QED  BY <3>1, <3>2, PrecedesDef
  <2>5. TimelineStatus(table) =
          LET base == IF decisive = {} THEN "applied" ELSE StatusOf(latest.type)
              answered == \E v \in table : v.type = "response" /\ (decisive # {} => Precedes(latest, v))
          IN  IF answered THEN Transition(base, "response") ELSE base
    BY DEF TimelineStatus
  <2> HIDE DEF decisive, latest, last, table
  <2>. QED  BY <2>1, <2>3, <2>4, <2>5
<1>7. last.type \notin {"applied", "ghost_inferred"}
  <2>1. ASSUME last.type \in {"applied", "ghost_inferred"} PROVE FALSE
    <3>1. StatusOf(last.type) # "interview" /\ last.type \notin AnchoredTypes
      BY <2>1 DEF StatusOf, AnchoredTypes
    <3>. QED  BY <1>5, <1>6, <3>1
  <2>. QED  BY <2>1
<1>. QED  BY <1>1, <1>3, <1>7 DEF EventTyped

LEMMA InterviewsAgreed ==
  TablesInv /\ AutomaticFollowsTimeline /\ ReadingsTold => InterviewsAgree
<1> SUFFICES ASSUME TablesInv, AutomaticFollowsTimeline, ReadingsTold PROVE InterviewsAgree
  OBVIOUS
<1> DEFINE companies == Companies(With({"interview_scheduled"}, Unfiltered))
<1>1. Funnel(Unfiltered).interview = companies
  BY DEF Funnel
<1>2. ASSUME NEW x \in companies PROVE \E v \in Interviewed : x = apps[v.app].identity
  <2>1. PICK a \in With({"interview_scheduled"}, Unfiltered) : x = apps[a].identity /\ x # Nobody
    BY DEF Companies
  <2>2. PICK u \in Timeline(a) : u.type = "interview_scheduled"
    BY <2>1 DEF With, OfType
  <2>3. u \in Interviews /\ u.app = a
    BY <2>1, <2>2 DEF Interviews, Timeline, EventsOf
  <2>. QED  BY <2>1, <2>3, LastInterview
<1>3. ASSUME NEW v \in Interviewed, v.app \in Untouched PROVE apps[v.app].identity \in companies
  <2>1. /\ v \in events /\ v.type = "interview_scheduled" /\ apps[v.app].identity # Nobody
        /\ v.email \in Mail /\ v.app \in DOMAIN apps
    BY DEF Interviewed, Interviews, TablesInv, EventsTyped, EventTyped
  <2>2. reading[v.email] \in LifecycleTypes
    BY <1>3, <2>1, TimesNatural DEF ReadingsTold, LifecycleTypes
  <2>3. v \in Timeline(v.app)
    BY <2>1 DEF Timeline, EventsOf
  <2>4. v.app \in Counted(Unfiltered)
    BY <2>1, <2>2, <2>3, AllCounted DEF Submitted, OnlyFollowUps
  <2>5. v.app \in With({"interview_scheduled"}, Unfiltered)
    BY <2>1, <2>3, <2>4 DEF With, OfType
  <2>. QED  BY <2>1, <2>5 DEF Companies
<1>4. ASSUME NEW days, NEW wait, NEW v \in Prepare(days) \cup FollowUp(days, wait),
             v.app \in Untouched, ~Simultaneous(v.app)
      PROVE  WaitingOnEmployer(v.app) <=> LatestEvent(v.app).email \in Outbound
  <2>1. v \in events /\ apps[v.app].status = "interview"
    BY DEF Prepare, FollowUp, Active, Interviewed, Interviews
  <2>2. Timeline(v.app) # {}
    BY <2>1 DEF Timeline, EventsOf
  <2>3. LatestEvent(v.app).email \in Mail /\ LatestEvent(v.app).type # "applied"
    BY <1>4, <2>1, <2>2, InterviewUnderWay
  <2>4. LatestEvent(v.app).email # Nobody
    BY <2>3, TimesNatural
  <2>. QED  BY <2>2, <2>3, <2>4 DEF WaitingOnEmployer, Inbound
<1> HIDE DEF companies
<1>. QED  BY <1>1, <1>2, <1>3, <1>4 DEF InterviewsAgree

\* The dashboard, the chat, ghost inference, the follow-up list and the interview list
\* agree about silence, ghosts, counts and whose turn it is, whatever the history.
THEOREM EveryViewAgrees == Spec => []ViewsAgree
<1>1. TimelineInv => ViewsAgree
  BY SilenceAgrees, GhostCountAgrees, ChatAgrees, SilentFollowedUp, InterviewsAgreed
     DEF TimelineInv, ViewsAgree
<1>. QED  BY <1>1, InitTimeline, TimelineInductive, PTL DEF Spec

-----------------------------------------------------------------------------
(* The numbers of one page.                                                *)

LEMMA CountedFinite ==
  ASSUME TablesInv, NEW f
  PROVE  /\ IsFiniteSet(Counted(f)) /\ Cardinality(Counted(f)) \in Nat
         /\ \A part \in SUBSET Counted(f) :
              IsFiniteSet(part) /\ Cardinality(part) \in Nat
              /\ Cardinality(part) <= Cardinality(Counted(f))
<1>1. Counted(f) \in SUBSET DOMAIN apps
  BY DEF Counted
<1>2. IsFiniteSet(Counted(f))
  BY <1>1, FS_Subset DEF TablesInv
<1>3. Cardinality(Counted(f)) \in Nat
  BY <1>2, FS_CardinalityType
<1>4. ASSUME NEW part \in SUBSET Counted(f)
      PROVE  IsFiniteSet(part) /\ Cardinality(part) \in Nat
             /\ Cardinality(part) <= Cardinality(Counted(f))
  BY <1>2, FS_Subset, FS_CardinalityType
<1>. QED  BY <1>2, <1>3, <1>4

\* A breakdown by a dimension of which every application has one value.
LEMMA SegmentsPartition ==
  ASSUME NEW values, NEW parts, NEW part \in DOMAIN parts, parts[part] \subseteq parts.applications,
         \A a \in parts.applications : \E y : values[a] = {y}
  PROVE  LET rows == Segmented(values, parts)
         IN  AddUp([x \in DOMAIN rows |-> rows[x][part]], parts[part])
<1> DEFINE rows == Segmented(values, parts)
           column == [x \in DOMAIN rows |-> rows[x][part]]
<1>1. DOMAIN rows = UNION {values[a] : a \in parts.applications}
  BY DEF Segmented
<1>2. \A x \in DOMAIN rows : rows[x][part] = {a \in parts[part] : x \in values[a]}
  BY DEF Segmented
<1> HIDE DEF rows
<1>3. DOMAIN column = DOMAIN rows
      /\ \A x \in DOMAIN rows : column[x] = {a \in parts[part] : x \in values[a]}
  BY <1>2
<1> HIDE DEF column
<1>4. ASSUME NEW a \in parts[part] PROVE \E x \in DOMAIN column : a \in column[x]
  <2>1. PICK y : values[a] = {y}
    OBVIOUS
  <2>2. y \in DOMAIN rows
    BY <1>1, <2>1
  <2>. QED  BY <1>3, <2>1, <2>2
<1>5. UNION {column[x] : x \in DOMAIN column} = parts[part]
  BY <1>3, <1>4
<1>6. ASSUME NEW x \in DOMAIN column, NEW y \in DOMAIN column, x # y
      PROVE  column[x] \cap column[y] = {}
  <2> SUFFICES ASSUME NEW a \in parts[part], x \in values[a], y \in values[a] PROVE FALSE
    BY <1>3
  <2>. QED  BY <1>6
<1>7. AddUp(column, parts[part])
  BY <1>5, <1>6 DEF AddUp
<1>. QED  BY <1>7 DEF column, rows

\* The days of a timeseries.
LEMMA DaysPartition ==
  ASSUME NEW counted
  PROVE  /\ AddUp(ByDay(counted), counted)
         /\ \A responses \in SUBSET counted :
              LET trend == TrendOf(ByDay(counted), responses)
              IN  AddUp([d \in DOMAIN trend |-> trend[d].numerator], responses)
<1> DEFINE days == ByDay(counted)
<1>1. /\ DOMAIN days = {apps[a].first : a \in counted}
      /\ \A d \in DOMAIN days : days[d] = {a \in counted : apps[a].first = d}
  BY DEF ByDay
<1> HIDE DEF days
<1>2. UNION {days[d] : d \in DOMAIN days} = counted
  BY <1>1
<1>3. \A d, e \in DOMAIN days : d # e => days[d] \cap days[e] = {}
  BY <1>1
<1>4. AddUp(days, counted)
  BY <1>2, <1>3 DEF AddUp
<1>5. ASSUME NEW responses \in SUBSET counted
      PROVE  LET trend == TrendOf(days, responses)
             IN  AddUp([d \in DOMAIN trend |-> trend[d].numerator], responses)
  <2> DEFINE trend == TrendOf(days, responses)
             column == [d \in DOMAIN trend |-> trend[d].numerator]
  <2>1. DOMAIN trend = DOMAIN days
        /\ \A d \in DOMAIN days : trend[d].numerator = days[d] \cap responses
    BY DEF TrendOf, Rate
  <2> HIDE DEF trend
  <2>2. DOMAIN column = DOMAIN days /\ \A d \in DOMAIN days : column[d] = days[d] \cap responses
    BY <2>1
  <2> HIDE DEF column
  <2>3. UNION {column[d] : d \in DOMAIN column} = responses
    BY <1>2, <2>2
  <2>4. \A d, e \in DOMAIN column : d # e => column[d] \cap column[e] = {}
    BY <1>3, <2>2
  <2>5. AddUp(column, responses)
    BY <2>3, <2>4 DEF AddUp
  <2>. QED  BY <2>5 DEF column, trend
<1>. QED  BY <1>4, <1>5 DEF days

\* What the numbers of a page count is among the applications counted.
LEMMA PartsCounted ==
  ASSUME NEW f
  PROVE  /\ \A types : With(types, f) \subseteq Counted(f)
         /\ ThresholdGhosted(f) \subseteq Counted(f)
         /\ Successful(f) \subseteq Counted(f) /\ Negative(f) \subseteq Counted(f)
         /\ WithLater("interview_scheduled", "offer", f) \subseteq With({"interview_scheduled"}, f)
<1>1. \A types : With(types, f) \subseteq Counted(f)
  BY DEF With
<1>2. ThresholdGhosted(f) \subseteq Counted(f) /\ Negative(f) \subseteq Counted(f)
  BY DEF ThresholdGhosted, Negative
<1>3. Successful(f) \subseteq Counted(f)
  BY <1>1 DEF Successful
<1>4. WithLater("interview_scheduled", "offer", f) \subseteq With({"interview_scheduled"}, f)
  BY DEF WithLater, With, OfType
<1>. QED  BY <1>1, <1>2, <1>3, <1>4

LEMMA SharesOf ==
  ASSUME TablesInv, NEW f
  PROVE  RatesAreShares(Rates(f)) /\ RatesAreShares(ResponseRateTrend(f))
<1>1. ASSUME NEW part, NEW whole, part \subseteq whole, whole \subseteq Counted(f)
      PROVE  Cardinality(part) <= Cardinality(whole)
  <2>1. IsFiniteSet(whole) /\ part \in SUBSET whole
    BY <1>1, CountedFinite
  <2>. QED  BY <2>1, FS_Subset
<1>2. RatesAreShares(Rates(f))
  <2> DEFINE rates == Rates(f)
  <2>1. rates = [response  |-> Rate(With(ResponseLike, f), Counted(f)),
                 rejection |-> Rate(With({"rejection"}, f), Counted(f)),
                 ghost     |-> Rate(ThresholdGhosted(f), Counted(f)),
                 application_to_interview |-> Rate(With({"interview_scheduled"}, f), Counted(f)),
                 interview_to_offer |-> Rate(WithLater("interview_scheduled", "offer", f),
                                             With({"interview_scheduled"}, f))]
    BY DEF Rates, RatesOf, ResponseSilence
  <2> HIDE DEF rates
  <2> SUFFICES ASSUME NEW x \in DOMAIN rates
               PROVE  /\ rates[x].numerator \subseteq rates[x].denominator
                      /\ rates[x].denominator \subseteq Counted(f)
    BY <1>1 DEF RatesAreShares, rates
  <2>. QED  BY <2>1, PartsCounted DEF Rate
<1>3. RatesAreShares(ResponseRateTrend(f))
  <2> DEFINE days == ByDay(Counted(f))
             trend == ResponseRateTrend(f)
  <2>1. /\ DOMAIN trend = DOMAIN days
        /\ \A d \in DOMAIN days : trend[d] = Rate(days[d] \cap With(ResponseLike, f), days[d])
    BY DEF ResponseRateTrend, TrendOf, Timeseries
  <2>2. \A d \in DOMAIN days : days[d] \subseteq Counted(f)
    BY DEF ByDay
  <2> HIDE DEF days, trend
  <2> SUFFICES ASSUME NEW d \in DOMAIN trend
               PROVE  /\ trend[d].numerator \subseteq trend[d].denominator
                      /\ trend[d].denominator \subseteq Counted(f)
    BY <1>1 DEF RatesAreShares, trend
  <2>. QED  BY <2>1, <2>2 DEF Rate
<1>. QED  BY <1>2, <1>3

\* Shares of disjoint parts.  Together, the parts of Y weigh no more in A than in B (where
\* A counts t times and B s times), and less if one of them does.
Weight(A, Y) == Cardinality(UNION {A[x] : x \in Y})
Outweighed(A, B, s, t, Y) ==
  /\ Weight(A, Y) * t <= s * Weight(B, Y)
  /\ (\E x \in Y : Cardinality(A[x]) * t < s * Cardinality(B[x])) =>
       Weight(A, Y) * t < s * Weight(B, Y)
\* Finitely many finite parts, none of which meets another.
Parts(A, X) ==
  /\ IsFiniteSet(X) /\ IsFiniteSet(UNION {A[x] : x \in X})
  /\ \A x, y \in X : x # y => A[x] \cap A[y] = {}

LEMMA WeightAdds ==
  ASSUME NEW X, NEW A, Parts(A, X), NEW Y \in SUBSET X, NEW y \in Y
  PROVE  /\ Weight(A, Y \ {y}) \in Nat /\ Cardinality(A[y]) \in Nat
         /\ Weight(A, Y) = Weight(A, Y \ {y}) + Cardinality(A[y])
<1> DEFINE rest == UNION {A[x] : x \in Y \ {y}}
           whole == UNION {A[x] : x \in X}
<1>1. rest \in SUBSET whole /\ A[y] \in SUBSET whole
  OBVIOUS
<1>2. rest \cap A[y] = {}
  BY DEF Parts
<1>3. UNION {A[x] : x \in Y} = rest \cup A[y]
  OBVIOUS
<1>4. IsFiniteSet(whole)
  BY DEF Parts
<1> HIDE DEF rest, whole
<1>5. IsFiniteSet(rest) /\ IsFiniteSet(A[y])
  BY <1>1, <1>4, FS_Subset
<1>6. Cardinality(rest) \in Nat /\ Cardinality(A[y]) \in Nat
  BY <1>5, FS_CardinalityType
<1>7. Cardinality(rest \cap A[y]) = 0
  BY <1>2, FS_EmptySet
<1>8. Cardinality(rest \cup A[y]) = Cardinality(rest) + Cardinality(A[y])
  <2>1. Cardinality(rest \cup A[y]) =
          Cardinality(rest) + Cardinality(A[y]) - Cardinality(rest \cap A[y])
    BY <1>5, FS_Union
  <2>. QED  BY <1>6, <1>7, <2>1
<1>. QED  BY <1>3, <1>6, <1>8 DEF Weight, rest

LEMMA Products == \A p, q \in Nat : p * q \in Nat /\ p * q = q * p
OBVIOUS

LEMMA SharesAdd ==
  ASSUME NEW p \in Nat, NEW q \in Nat, NEW r \in Nat, NEW u \in Nat, NEW s \in Nat, NEW t \in Nat,
         p * t <= s * q, r * t <= s * u
  PROVE  /\ (p + r) * t <= s * (q + u)
         /\ p * t < s * q \/ r * t < s * u => (p + r) * t < s * (q + u)
<1>1. (p + r) * t = p * t + r * t /\ s * (q + u) = s * q + s * u
  OBVIOUS
<1>2. p * t \in Nat /\ r * t \in Nat /\ s * q \in Nat /\ s * u \in Nat
  OBVIOUS
<1> DEFINE pt == p * t rt == r * t sq == s * q su == s * u
<1>3. pt <= sq /\ rt <= su /\ pt \in Nat /\ rt \in Nat /\ sq \in Nat /\ su \in Nat
  BY <1>2
<1>4. (p + r) * t = pt + rt /\ s * (q + u) = sq + su
  BY <1>1
<1> SUFFICES pt + rt <= sq + su /\ (pt < sq \/ rt < su => pt + rt < sq + su)
  BY <1>4
<1> HIDE DEF pt, rt, sq, su
<1>. QED  BY <1>3

\* By the least set of parts of which it fails.
LEMMA Weighed ==
  ASSUME NEW X, NEW A, NEW B, Parts(A, X), Parts(B, X), NEW s \in Nat, NEW t \in Nat,
         \A x \in X : Cardinality(A[x]) * t <= s * Cardinality(B[x])
  PROVE  Outweighed(A, B, s, t, X)
<1> DEFINE bad == {Y \in SUBSET X : ~Outweighed(A, B, s, t, Y)}
           sizes == {Cardinality(Y) : Y \in bad}
<1> SUFFICES ASSUME X \in bad PROVE FALSE
  OBVIOUS
<1>1. \A Y \in bad : IsFiniteSet(Y) /\ Cardinality(Y) \in Nat
  BY FS_Subset, FS_CardinalityType DEF Parts
<1>2. sizes \subseteq Nat /\ sizes # {}
  BY <1>1
<1>3. PICK n \in sizes : \A m \in sizes : n <= m
  <2> HIDE DEF sizes
  <2>. QED  BY <1>2, LeastNumber
<1>4. PICK Y \in bad : \A Z \in bad : Cardinality(Y) <= Cardinality(Z)
  BY <1>3
<1>5. Y # {}
  <2>1. Weight(A, {}) = 0 /\ Weight(B, {}) = 0
    <3>1. UNION {A[x] : x \in {}} = {} /\ UNION {B[x] : x \in {}} = {}
      OBVIOUS
    <3>. QED  BY <3>1, FS_EmptySet DEF Weight
  <2>2. Outweighed(A, B, s, t, {})
    BY <2>1 DEF Outweighed
  <2>. QED  BY <2>2
<1>6. PICK y \in Y : TRUE
  BY <1>5
<1> DEFINE Z == Y \ {y}
<1>7. Z \in SUBSET X /\ Cardinality(Z) = Cardinality(Y) - 1
  BY <1>1, <1>6, FS_RemoveElement
<1>8. Outweighed(A, B, s, t, Z)
  BY <1>1, <1>4, <1>7
<1>9. /\ Weight(A, Z) \in Nat /\ Cardinality(A[y]) \in Nat
      /\ Weight(A, Y) = Weight(A, Z) + Cardinality(A[y])
      /\ Weight(B, Z) \in Nat /\ Cardinality(B[y]) \in Nat
      /\ Weight(B, Y) = Weight(B, Z) + Cardinality(B[y])
  BY <1>6, WeightAdds
<1>10. Cardinality(A[y]) * t <= s * Cardinality(B[y])
  BY <1>6
<1>11. Weight(A, Z) * t <= s * Weight(B, Z)
  BY <1>8 DEF Outweighed
<1>12. /\ (Weight(A, Z) + Cardinality(A[y])) * t <= s * (Weight(B, Z) + Cardinality(B[y]))
       /\ \/ Weight(A, Z) * t < s * Weight(B, Z)
          \/ Cardinality(A[y]) * t < s * Cardinality(B[y])
          => (Weight(A, Z) + Cardinality(A[y])) * t < s * (Weight(B, Z) + Cardinality(B[y]))
  BY <1>9, <1>10, <1>11, SharesAdd
<1>13. ASSUME NEW x \in Y, Cardinality(A[x]) * t < s * Cardinality(B[x])
       PROVE  Weight(A, Y) * t < s * Weight(B, Y)
  <2>1. CASE x = y
    BY <1>9, <1>12, <1>13, <2>1
  <2>2. CASE x # y
    <3>1. Weight(A, Z) * t < s * Weight(B, Z)
      BY <1>8, <1>13, <2>2 DEF Outweighed
    <3>. QED  BY <1>9, <1>12, <3>1
  <2>. QED  BY <2>1, <2>2
<1>14. Outweighed(A, B, s, t, Y)
  BY <1>9, <1>12, <1>13 DEF Outweighed
<1>. QED  BY <1>4, <1>14

\* Where one segment is above the rate of all, another is below.
LEMMA SomeAboveSomeBelow ==
  ASSUME NEW X, NEW A, NEW B, Parts(A, X), Parts(B, X), NEW s \in Nat, NEW t \in Nat,
         Weight(A, X) = s, Weight(B, X) = t
  PROVE  (\E x \in X : Cardinality(A[x]) * t > s * Cardinality(B[x])) <=>
         (\E x \in X : s * Cardinality(B[x]) > Cardinality(A[x]) * t)
<1>1. \A x \in X : /\ Cardinality(A[x]) * t \in Nat /\ s * Cardinality(B[x]) \in Nat
                   /\ Cardinality(B[x]) * s \in Nat /\ t * Cardinality(A[x]) \in Nat
                   /\ Cardinality(B[x]) * s = s * Cardinality(B[x])
                   /\ t * Cardinality(A[x]) = Cardinality(A[x]) * t
  <2>1. \A x \in X : Cardinality(A[x]) \in Nat /\ Cardinality(B[x]) \in Nat
    BY WeightAdds
  <2>. QED  BY <2>1, Products, Zenon
<1>2. ASSUME \A x \in X : Cardinality(A[x]) * t <= s * Cardinality(B[x])
      PROVE  \A x \in X : ~(Cardinality(A[x]) * t < s * Cardinality(B[x]))
  <2>1. Outweighed(A, B, s, t, X)
    BY <1>2, Weighed
  <2>2. ~(s * t < s * t)
    OBVIOUS
  <2>. QED  BY <2>1, <2>2 DEF Outweighed
<1>3. ASSUME \A x \in X : Cardinality(B[x]) * s <= t * Cardinality(A[x])
      PROVE  \A x \in X : ~(Cardinality(B[x]) * s < t * Cardinality(A[x]))
  <2>1. Outweighed(B, A, t, s, X)
    BY <1>3, Weighed
  <2>2. ~(t * s < t * s)
    OBVIOUS
  <2>. QED  BY <2>1, <2>2 DEF Outweighed
<1>4. ASSUME \A x \in X : ~(Cardinality(A[x]) * t > s * Cardinality(B[x]))
      PROVE  \A x \in X : ~(s * Cardinality(B[x]) > Cardinality(A[x]) * t)
  BY <1>1, <1>2, <1>4
<1>5. ASSUME \A x \in X : ~(s * Cardinality(B[x]) > Cardinality(A[x]) * t)
      PROVE  \A x \in X : ~(Cardinality(A[x]) * t > s * Cardinality(B[x]))
  BY <1>1, <1>3, <1>5
<1>. QED  BY <1>4, <1>5

\* The columns of the breakdown by company and role.
LEMMA IdentityColumns ==
  ASSUME NEW f
  PROVE  LET rows == Breakdown(ByIdentity, f)
             column(part) == [x \in DOMAIN rows |-> rows[x][part]]
         IN  /\ DOMAIN rows = {apps[a].identity : a \in Counted(f)}
             /\ AddUp(column("applications"), Counted(f))
             /\ AddUp(column("responses"), With(ResponseLike, f))
             /\ AddUp(column("interviews"), With({"interview_scheduled"}, f))
             /\ AddUp(column("successes"), Successful(f))
             /\ AddUp(column("negatives"), Negative(f))
<1> DEFINE parts == [applications |-> Counted(f), responses |-> With(ResponseLike, f),
                     interviews |-> With({"interview_scheduled"}, f), offers |-> With({"offer"}, f),
                     successes |-> Successful(f), negatives |-> Negative(f)]
           rows == Segmented(ByIdentity, parts)
           column(part) == [x \in DOMAIN rows |-> rows[x][part]]
<1>1. Breakdown(ByIdentity, f) = rows
  BY DEF Breakdown
<1>2. \A a \in Counted(f) : ByIdentity[a] = {apps[a].identity}
  BY DEF ByIdentity, Counted
<1>3. DOMAIN rows = {apps[a].identity : a \in Counted(f)}
  <2>1. DOMAIN rows = UNION {ByIdentity[a] : a \in parts.applications}
    BY DEF Segmented
  <2>. QED  BY <1>2, <2>1
<1>4. \A part \in DOMAIN parts : parts[part] \subseteq parts.applications
  BY PartsCounted
<1>5. \A a \in parts.applications : \E y : ByIdentity[a] = {y}
  BY <1>2
<1>6. /\ parts.applications = Counted(f) /\ parts.responses = With(ResponseLike, f)
      /\ parts.interviews = With({"interview_scheduled"}, f)
      /\ parts.successes = Successful(f) /\ parts.negatives = Negative(f)
      /\ {"applications", "responses", "interviews", "successes", "negatives"} \subseteq DOMAIN parts
  OBVIOUS
<1> HIDE DEF parts
<1>7. \A part \in DOMAIN parts : AddUp(column(part), parts[part])
  BY <1>4, <1>5, SegmentsPartition
<1>8. /\ AddUp(column("applications"), parts["applications"])
      /\ AddUp(column("responses"), parts["responses"])
      /\ AddUp(column("interviews"), parts["interviews"])
      /\ AddUp(column("successes"), parts["successes"])
      /\ AddUp(column("negatives"), parts["negatives"])
  <2> HIDE DEF column
  <2>. QED  BY <1>6, <1>7
<1>. QED
  <2> HIDE DEF rows
  <2>. QED  BY <1>1, <1>3, <1>6, <1>8

LEMMA SegmentsFinite ==
  ASSUME TablesInv, NEW f
  PROVE  IsFiniteSet({apps[a].identity : a \in Counted(f)})
<1> DEFINE T == {apps[a].identity : a \in Counted(f)}
           g == [a \in Counted(f) |-> apps[a].identity]
<1>1. g \in [Counted(f) -> T] /\ \A x \in T : \E a \in Counted(f) : g[a] = x
  OBVIOUS
<1> HIDE DEF T, g
<1>2. g \in Surjection(Counted(f), T)
  BY <1>1 DEF Surjection
<1>3. IsFiniteSet(T)
  BY <1>2, CountedFinite, FS_Surjection
<1>. QED  BY <1>3 DEF T

LEMMA OutliersBalanced ==
  ASSUME TablesInv, NEW f
  PROVE  OutliersBalance(Diagnostics(f))
<1> DEFINE rows == Breakdown(ByIdentity, f)
           A == [x \in DOMAIN rows |-> rows[x]["responses"]]
           B == [x \in DOMAIN rows |-> rows[x]["applications"]]
           s == Cardinality(With(ResponseLike, f))
           t == Cardinality(Counted(f))
           strongest == {x \in DOMAIN rows : Cardinality(A[x]) * t > s * Cardinality(B[x])}
           weakest == {x \in DOMAIN rows : s * Cardinality(B[x]) > Cardinality(A[x]) * t}
<1>1. Diagnostics(f).strongest = strongest /\ Diagnostics(f).weakest = weakest
  BY DEF Diagnostics, Outliers, Lifted, Sunk, Above, ResponseSilence
<1>2. /\ DOMAIN rows = {apps[a].identity : a \in Counted(f)}
      /\ AddUp(B, Counted(f)) /\ AddUp(A, With(ResponseLike, f))
  BY IdentityColumns
<1>3. DOMAIN A = DOMAIN rows /\ DOMAIN B = DOMAIN rows
  OBVIOUS
<1> HIDE DEF rows, A, B
<1>4. With(ResponseLike, f) \in SUBSET Counted(f)
  BY PartsCounted
<1>5. /\ IsFiniteSet(With(ResponseLike, f)) /\ IsFiniteSet(Counted(f))
      /\ s \in Nat /\ t \in Nat
  BY <1>4, CountedFinite
<1>6. IsFiniteSet(DOMAIN rows)
  BY <1>2, SegmentsFinite
<1>7. /\ UNION {A[x] : x \in DOMAIN rows} = With(ResponseLike, f)
      /\ UNION {B[x] : x \in DOMAIN rows} = Counted(f)
      /\ \A x, y \in DOMAIN rows : x # y => A[x] \cap A[y] = {} /\ B[x] \cap B[y] = {}
  BY <1>2, <1>3 DEF AddUp
<1>8. /\ Parts(A, DOMAIN rows) /\ Parts(B, DOMAIN rows)
      /\ Weight(A, DOMAIN rows) = s /\ Weight(B, DOMAIN rows) = t
  BY <1>5, <1>6, <1>7 DEF Parts, Weight
<1> HIDE DEF s, t
<1>9. strongest = {} <=> weakest = {}
  <2>1. (\E x \in DOMAIN rows : Cardinality(A[x]) * t > s * Cardinality(B[x])) <=>
        (\E x \in DOMAIN rows : s * Cardinality(B[x]) > Cardinality(A[x]) * t)
    BY <1>5, <1>8, SomeAboveSomeBelow
  <2>. QED  BY <2>1
<1>10. strongest \cap weakest = {}
  <2>1. \A x \in DOMAIN rows : Cardinality(A[x]) \in Nat /\ Cardinality(B[x]) \in Nat
    BY <1>8, WeightAdds
  <2>2. \A x \in DOMAIN rows : Cardinality(A[x]) * t \in Nat /\ s * Cardinality(B[x]) \in Nat
    BY <1>5, <2>1, Products
  <2>3. \A m, n \in Nat : ~(m > n /\ n > m)
    OBVIOUS
  <2>. QED  BY <2>2, <2>3, Zenon
<1>. QED  BY <1>1, <1>9, <1>10 DEF OutliersBalance

\* A share that is above another is not zero, and the same part is a smaller share of more.
LEMMA SharesAbove ==
  ASSUME NEW p \in Nat, NEW q \in Nat, NEW s \in Nat, NEW t \in Nat
  PROVE  /\ Above(p, q, s, t) => p # 0
         /\ Above(p, q, p, t) => q < t
<1>1. s * q \in Nat /\ p * t \in Nat /\ p * q \in Nat
  BY Products
<1>2. p = 0 => p * t = 0
  OBVIOUS
<1>3. t <= q => p * t <= p * q
  OBVIOUS
<1>4. ASSUME Above(p, q, s, t), p = 0 PROVE FALSE
  <2>1. p * t > s * q
    BY <1>4 DEF Above
  <2>. QED  BY <1>1, <1>2, <1>4, <2>1
<1>5. ASSUME Above(p, q, p, t) PROVE q < t
  <2>1. p * t > p * q
    BY <1>5 DEF Above
  <2>. QED  BY <1>1, <1>3, <2>1
<1>. QED  BY <1>4, <1>5

LEMMA AdviceIsFounded ==
  ASSUME TablesInv, NEW f
  PROVE  AdviceFounded(Breakdown(BySkill, f), Rates(f).response.numerator, Diagnostics(f))
<1> DEFINE all == Counted(f)
           responses == With(ResponseLike, f)
           rows == Breakdown(ByIdentity, f)
           skills == Breakdown(BySkill, f)
           found == Diagnostics(f)
<1>1. Rates(f).response.numerator = responses
  BY DEF Rates, RatesOf, Rate, ResponseSilence
<1>2. /\ responses \in SUBSET all /\ Successful(f) \in SUBSET all
      /\ With({"interview_scheduled"}, f) \subseteq responses
  BY PartsCounted DEF With, OfType, ResponseLike, LifecycleTypes
<1>3. \A x \in DOMAIN skills :
        /\ skills[x].applications = {a \in all : x \in BySkill[a]}
        /\ skills[x].responses = {a \in responses : x \in BySkill[a]}
        /\ skills[x].interviews = {a \in With({"interview_scheduled"}, f) : x \in BySkill[a]}
  BY DEF Breakdown, Segmented
<1>4. \A x \in DOMAIN rows :
        /\ rows[x].applications = {a \in all : x \in ByIdentity[a]}
        /\ rows[x].successes = {a \in Successful(f) : x \in ByIdentity[a]}
  BY DEF Breakdown, Segmented
<1>5. /\ found.dead_weight = {x \in DOMAIN skills :
           Above(Cardinality(responses), Cardinality(all),
                 Cardinality(skills[x].responses), Cardinality(skills[x].applications))}
      /\ found.selling = {x \in DOMAIN skills : skills[x].interviews # {}}
      /\ found.successful = {x \in DOMAIN rows :
           Above(Cardinality(rows[x].successes), Cardinality(rows[x].applications),
                 Cardinality(Successful(f)), Cardinality(all))}
      /\ found.adjacent = {x \in DOMAIN rows : rows[x].successes # {}}
  BY DEF Diagnostics, Outliers, Lifted, Sunk, ResponseSilence
<1> HIDE DEF rows, skills, found
<1>6. \A part \in SUBSET all : Cardinality(part) \in Nat /\ Cardinality(part) <= Cardinality(all)
  BY CountedFinite
<1>7. Cardinality(all) \in Nat
  BY CountedFinite
<1> HIDE DEF all, responses
<1>8. ASSUME NEW x \in found.dead_weight PROVE responses \ skills[x].responses # {}
  <2> SUFFICES ASSUME responses \subseteq skills[x].responses PROVE FALSE
    OBVIOUS
  <2>1. x \in DOMAIN skills /\ skills[x].responses = responses
    BY <1>3, <1>5
  <2>2. skills[x].applications \in SUBSET all
    BY <1>3, <2>1
  <2> DEFINE p == Cardinality(responses)
             q == Cardinality(all)
             t == Cardinality(skills[x].applications)
  <2>3. p \in Nat /\ q \in Nat /\ t \in Nat /\ t <= q
    BY <1>2, <1>6, <1>7, <2>2
  <2>4. Above(p, q, p, t)
    BY <1>5, <2>1
  <2>5. q < t
    BY <2>3, <2>4, SharesAbove
  <2> HIDE DEF p, q, t
  <2>. QED  BY <2>3, <2>5
<1>9. \A x \in found.selling : skills[x].responses # {}
  BY <1>2, <1>3, <1>5
<1>10. found.successful \subseteq found.adjacent
  <2> SUFFICES ASSUME NEW x \in DOMAIN rows, rows[x].successes = {},
                      Above(Cardinality(rows[x].successes), Cardinality(rows[x].applications),
                            Cardinality(Successful(f)), Cardinality(all))
               PROVE  FALSE
    BY <1>5
  <2>1. Cardinality(rows[x].successes) = 0
    BY FS_EmptySet
  <2>2. Cardinality(rows[x].applications) \in Nat /\ Cardinality(Successful(f)) \in Nat
    BY <1>2, <1>4, <1>6
  <2>. QED  BY <1>7, <2>1, <2>2, SharesAbove
<1>. QED  BY <1>1, <1>8, <1>9, <1>10 DEF AdviceFounded, skills, found

\* Segments, days, rates and outliers of one page fit together: no application is lost
\* or counted twice, no rate is above one, where one segment is above the rate of all
\* another is below it, and what is advised has something to compare with.
THEOREM PagesAddUp == Spec => []SegmentsAddUp
<1>1. TimelineInv => SegmentsAddUp
  <2> SUFFICES ASSUME TablesInv, NEW f \in Filters
               PROVE  PageAddsUp(f, Rates(f), ResponseRateTrend(f))
    BY DEF SegmentsAddUp, TimelineInv
  <2>1. SegmentTotals(f, Breakdown(ByIdentity, f), Rates(f), Timeseries(f), ResponseRateTrend(f))
    <3> DEFINE rows == Breakdown(ByIdentity, f)
               column(part) == [x \in DOMAIN rows |-> rows[x][part]]
               trend == ResponseRateTrend(f)
    <3>1. /\ Rates(f).response.denominator = Counted(f)
          /\ Rates(f).response.numerator = With(ResponseLike, f)
          /\ Rates(f).application_to_interview.numerator = With({"interview_scheduled"}, f)
          /\ Funnel(f).applied = Counted(f)
      BY DEF Rates, RatesOf, Rate, ResponseSilence, Funnel
    <3>2. /\ AddUp(column("applications"), Counted(f))
          /\ AddUp(column("responses"), With(ResponseLike, f))
          /\ AddUp(column("interviews"), With({"interview_scheduled"}, f))
          /\ AddUp(column("successes"), Successful(f))
          /\ AddUp(column("negatives"), Negative(f))
      BY IdentityColumns
    <3>3. With(ResponseLike, f) \in SUBSET Counted(f)
      BY PartsCounted
    <3>4. /\ AddUp(Timeseries(f), Counted(f))
          /\ AddUp([d \in DOMAIN trend |-> trend[d].numerator], With(ResponseLike, f))
      BY <3>3, DaysPartition DEF Timeseries, ResponseRateTrend
    <3> HIDE DEF rows, trend
    <3>. QED  BY <3>1, <3>2, <3>4 DEF SegmentTotals, rows, trend
  <2>. QED  BY <2>1, SharesOf, OutliersBalanced, AdviceIsFounded DEF PageAddsUp
<1>. QED  BY <1>1, InitTimeline, TimelineInductive, PTL DEF Spec
=============================================================================
