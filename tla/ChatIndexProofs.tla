-------------------------- MODULE ChatIndexProofs --------------------------
(***************************************************************************)
(* Type correctness of ChatIndex, and that a reconciliation is exact and   *)
(* never drops mail that may be searched.                                  *)
(***************************************************************************)
EXTENDS ChatIndex, FiniteSetTheorems, TLAPS

\* A page starts at or before the place of every message on it.
LEMMA DivBounds ==
  ASSUME NEW n \in Nat, NEW m \in Nat \ {0}
  PROVE  n \div m \in Nat /\ (n \div m) * m <= n
  OBVIOUS

\* The page of a message of a listing starts before the listing ends.
LEMMA PageInListing ==
  ASSUME NEW mail \in SUBSET Mail, NEW e \in Mail
  PROVE  /\ PageOf(e, mail) \in Nat
         /\ Cardinality(mail) \in Nat
         /\ e \in mail => PageOf(e, mail) * MaxEmails < Cardinality(mail)
<1> DEFINE before == {f \in mail : f < e}
           rank == Cardinality(before)
<1>1. IsFiniteSet(mail) /\ IsFiniteSet(before)
  BY FS_Subset, IndexConstants
<1>2. Cardinality(mail) \in Nat /\ rank \in Nat
  BY <1>1, FS_CardinalityType
<1>3. rank \div MaxEmails \in Nat /\ (rank \div MaxEmails) * MaxEmails <= rank
  BY <1>2, DivBounds, IndexConstants
<1>4. ASSUME e \in mail PROVE rank < Cardinality(mail)
  <2>1. before \subseteq mail /\ before # mail
    BY <1>4, IndexConstants
  <2> QED BY <2>1, <1>1, <1>2, FS_Subset
<1>5. PageOf(e, mail) = rank \div MaxEmails
  BY DEF PageOf, Rank
<1> QED BY <1>2, <1>3, <1>4, <1>5, IndexConstants

\* What a reconciliation has read and written is consistent with what it counted
\* at its start, as long as that is still what is eligible.
PagesRead ==
  lock # Free /\ (~work.dirty \/ eligible = work.seen) =>
    /\ work.draft \cup work.pending \subseteq work.seen
    /\ \A e \in work.seen :
         PageOf(e, work.seen) <= work.page => e \in work.draft \cup work.pending

\* The draft lacks no mail of the index that may be searched.  Before the
\* transaction has written nothing, so what may be searched can still change.
DraftKeepsEligible ==
  /\ lock = Free => work = Idle
  /\ lock # Free => /\ index \cap eligible \subseteq work.draft
                    /\ ~work.dirty => index \subseteq work.draft

IndexInv == TypeOK /\ PagesRead /\ DraftKeepsEligible

-----------------------------------------------------------------------------
\* Reading on from a page keeps the types.
LEMMA ContinueTypes ==
  ASSUME TypeOK, NEW t \in Tasks, NEW seen \in SUBSET Mail, NEW indexed \in SUBSET Mail,
         NEW from \in Nat, NEW dirty \in BOOLEAN,
         Continue(t, seen, indexed, from, dirty), UNCHANGED eligible
  PROVE  TypeOK'
<1> DEFINE missing == Missing(from, Cardinality(seen), indexed)
<1>1. missing \subseteq Mail
  BY DEF Missing, TypeOK
<1>2. CASE index' = indexed /\ lock' = Free /\ work' = Idle
  BY <1>2 DEF TypeOK, Idle, Work
<1>3. ASSUME NEW e \in missing, lock' = t, UNCHANGED index,
             work' = [seen |-> seen, draft |-> indexed, dirty |-> dirty,
                      page |-> PageOf(e, eligible),
                      pending |-> {f \in missing :
                                     PageOf(f, eligible) = PageOf(e, eligible)}]
      PROVE  TypeOK'
  <2>1. PageOf(e, eligible) \in Nat
    BY <1>1, PageInListing DEF TypeOK
  <2>2. work' \in Work
    BY <1>1, <1>3, <2>1 DEF Work
  <2> QED BY <1>3, <2>2 DEF TypeOK
<1> QED BY <1>2, <1>3 DEF Continue

\* If what was read before `from` is exactly what the listing held there, a
\* reconciliation that commits is exact and one that goes on has read its page.
LEMMA ContinueIsExact ==
  ASSUME TypeOK, NEW t \in Tasks, NEW seen \in SUBSET Mail, NEW indexed \in SUBSET Mail,
         NEW from \in Nat, NEW dirty \in BOOLEAN,
         Continue(t, seen, indexed, from, dirty), UNCHANGED eligible,
         seen = eligible,
         indexed \subseteq seen,
         \A e \in seen : PageOf(e, seen) < from => e \in indexed
  PROVE  /\ lock' = Free => index' = eligible
         /\ lock' # Free =>
              /\ work'.draft \cup work'.pending \subseteq seen
              /\ \A e \in seen :
                   PageOf(e, seen) <= work'.page => e \in work'.draft \cup work'.pending
<1> DEFINE missing == Missing(from, Cardinality(seen), indexed)
<1>1. ASSUME NEW e \in seen, e \notin indexed PROVE e \in missing
  <2>1. PageOf(e, seen) \in Nat /\ PageOf(e, seen) * MaxEmails < Cardinality(seen)
    BY PageInListing
  <2>2. PageOf(e, seen) >= from
    BY <1>1, <2>1
  <2> QED BY <1>1, <2>1, <2>2 DEF Missing
<1>2. missing \subseteq seen
  BY DEF Missing
<1>3. CASE missing = {} /\ index' = indexed /\ lock' = Free /\ work' = Idle
  BY <1>1, <1>3
<1>4. ASSUME NEW e \in missing,
             \A f \in missing : PageOf(e, eligible) <= PageOf(f, eligible),
             lock' = t,
             work' = [seen |-> seen, draft |-> indexed, dirty |-> dirty,
                      page |-> PageOf(e, eligible),
                      pending |-> {f \in missing :
                                     PageOf(f, eligible) = PageOf(e, eligible)}]
      PROVE  /\ lock' # Free
             /\ work'.draft \cup work'.pending \subseteq seen
             /\ \A f \in seen :
                  PageOf(f, seen) <= work'.page => f \in work'.draft \cup work'.pending
  <2>1. \A f \in seen : PageOf(f, seen) \in Nat
    BY PageInListing
  <2>2. ASSUME NEW f \in seen, PageOf(f, seen) <= PageOf(e, seen), f \notin indexed
        PROVE  f \in missing /\ PageOf(f, eligible) = PageOf(e, eligible)
    <3>1. f \in missing
      BY <1>1, <2>2
    <3>2. PageOf(e, seen) <= PageOf(f, seen)
      BY <1>4, <3>1
    <3> QED BY <1>2, <2>1, <2>2, <3>1, <3>2
  <2>3. /\ work'.draft = indexed /\ work'.page = PageOf(e, seen)
        /\ work'.pending = {f \in missing : PageOf(f, eligible) = PageOf(e, eligible)}
    BY <1>4
  <2>4. lock' # Free
    BY <1>4, IndexConstants
  <2> QED BY <1>2, <2>2, <2>3, <2>4
<1> QED BY <1>3, <1>4, Zenon DEF Continue

-----------------------------------------------------------------------------
\* What the parameters of Continue are when a reconciliation starts.
LEMMA BeginContinues ==
  ASSUME IndexInv, NEW t \in Tasks, Begin(t)
  PROVE  /\ eligible \in SUBSET Mail /\ index \cap eligible \in SUBSET Mail /\ 0 \in Nat
         /\ (index \ eligible # {}) \in BOOLEAN
         /\ Continue(t, eligible, index \cap eligible, 0, index \ eligible # {})
         /\ UNCHANGED eligible
         /\ index \cap eligible \subseteq eligible
         /\ \A e \in eligible : PageOf(e, eligible) < 0 => e \in index \cap eligible
<1>1. \A e \in eligible : PageOf(e, eligible) \in Nat
  BY PageInListing DEF IndexInv, TypeOK
<1>2. \A e \in eligible : ~(PageOf(e, eligible) < 0)
  BY <1>1
<1> QED BY <1>2 DEF Begin, IndexInv, TypeOK

\* And when a page has been embedded.
LEMMA StorePageContinues ==
  ASSUME IndexInv, NEW t \in Tasks, StorePage(t)
  PROVE  /\ work.seen \in SUBSET Mail /\ work.draft \cup work.pending \in SUBSET Mail
         /\ work.page + 1 \in Nat /\ TRUE \in BOOLEAN
         /\ Continue(t, work.seen, work.draft \cup work.pending, work.page + 1, TRUE)
         /\ UNCHANGED eligible
         /\ work.seen = eligible =>
              /\ work.draft \cup work.pending \subseteq work.seen
              /\ \A e \in work.seen : PageOf(e, work.seen) < work.page + 1
                   => e \in work.draft \cup work.pending
<1>1. work \in Work /\ work.page \in Nat
  BY DEF IndexInv, TypeOK, Work
<1>2. lock # Free
  BY IndexConstants DEF StorePage
<1>3. \A e \in work.seen : PageOf(e, work.seen) \in Nat
  BY <1>1, PageInListing DEF Work
<1>4. ASSUME work.seen = eligible
      PROVE  /\ work.draft \cup work.pending \subseteq work.seen
             /\ \A e \in work.seen : PageOf(e, work.seen) < work.page + 1
                  => e \in work.draft \cup work.pending
  BY <1>1, <1>2, <1>3, <1>4 DEF IndexInv, PagesRead
<1>5. work.seen \in SUBSET Mail /\ work.draft \cup work.pending \in SUBSET Mail
  BY <1>1 DEF Work
<1>6. work.page + 1 \in Nat /\ TRUE \in BOOLEAN
  BY <1>1
<1>7. /\ Continue(t, work.seen, work.draft \cup work.pending, work.page + 1, TRUE)
      /\ UNCHANGED eligible
  BY DEF StorePage
<1> QED BY <1>4, <1>5, <1>6, <1>7

\* The step keeps DraftKeepsEligible and drops no eligible mail from the index.
LEMMA ContinueKeeps ==
  ASSUME NEW t \in Tasks, NEW seen, NEW indexed, NEW from, NEW dirty \in BOOLEAN,
         Continue(t, seen, indexed, from, dirty), UNCHANGED eligible,
         index \cap eligible \subseteq indexed,
         ~dirty => index \subseteq indexed
  PROVE  DraftKeepsEligible' /\ index \cap eligible' \subseteq index'
<1> DEFINE missing == Missing(from, Cardinality(seen), indexed)
<1>1. CASE index' = indexed /\ lock' = Free /\ work' = Idle
  BY <1>1 DEF DraftKeepsEligible
<1>2. ASSUME NEW e \in missing, lock' = t, UNCHANGED index,
             work' = [seen |-> seen, draft |-> indexed, dirty |-> dirty,
                      page |-> PageOf(e, eligible),
                      pending |-> {f \in missing :
                                     PageOf(f, eligible) = PageOf(e, eligible)}]
      PROVE  DraftKeepsEligible' /\ index \cap eligible' \subseteq index'
  <2>1. work'.draft = indexed /\ work'.dirty = dirty
    BY <1>2
  <2>2. lock' # Free
    BY <1>2, IndexConstants
  <2> QED BY <1>2, <2>1, <2>2 DEF DraftKeepsEligible
<1> QED BY <1>1, <1>2, Zenon DEF Continue

LEMMA ContinueWork ==
  ASSUME NEW t, NEW seen, NEW indexed, NEW from, NEW dirty,
         Continue(t, seen, indexed, from, dirty), lock' # Free
  PROVE  work'.seen = seen /\ work'.dirty = dirty
BY DEF Continue

-----------------------------------------------------------------------------
\* Every step keeps the invariant, drops no eligible mail and commits exactly.
LEMMA IndexStep ==
  ASSUME IndexInv, [Next]_vars
  PROVE  /\ IndexInv'
         /\ index \cap eligible' \subseteq index'
         /\ Commits(eligible) => index' = eligible
<1> USE DEF IndexInv
<1>1. ASSUME NEW t \in Tasks, Begin(t)
      PROVE  IndexInv' /\ index \cap eligible' \subseteq index'
             /\ (lock' = Free => index' = eligible)
  <2>1. TypeOK'
    BY <1>1, BeginContinues, ContinueTypes
  <2>2. /\ lock' = Free => index' = eligible
        /\ lock' # Free =>
             /\ work'.draft \cup work'.pending \subseteq eligible
             /\ \A e \in eligible : PageOf(e, eligible) <= work'.page
                  => e \in work'.draft \cup work'.pending
    BY <1>1, BeginContinues, ContinueIsExact
  <2>3. lock' # Free => work'.seen = eligible
    BY <1>1, BeginContinues, ContinueWork
  <2>4. PagesRead'
    BY <1>1, <2>2, <2>3 DEF PagesRead, Begin, PageOf, Rank
  <2>5. DraftKeepsEligible' /\ index \cap eligible' \subseteq index'
    BY <1>1, BeginContinues, ContinueKeeps
  <2> QED BY <2>1, <2>2, <2>4, <2>5
<1>2. ASSUME NEW t \in Tasks, StorePage(t)
      PROVE  IndexInv' /\ index \cap eligible' \subseteq index'
             /\ (lock' = Free /\ eligible = work.seen => index' = eligible)
  <2>1. TypeOK'
    BY <1>2, StorePageContinues, ContinueTypes
  <2>2. ASSUME work.seen = eligible
        PROVE  /\ lock' = Free => index' = eligible
               /\ lock' # Free =>
                    /\ work'.draft \cup work'.pending \subseteq work.seen
                    /\ \A e \in work.seen : PageOf(e, work.seen) <= work'.page
                         => e \in work'.draft \cup work'.pending
    <3>1. /\ Continue(t, work.seen, work.draft \cup work.pending, work.page + 1, TRUE)
          /\ UNCHANGED eligible
          /\ work.seen \in SUBSET Mail /\ work.draft \cup work.pending \in SUBSET Mail
          /\ work.page + 1 \in Nat /\ TRUE \in BOOLEAN
          /\ work.draft \cup work.pending \subseteq work.seen
          /\ \A e \in work.seen : PageOf(e, work.seen) < work.page + 1
               => e \in work.draft \cup work.pending
      BY <1>2, <2>2, StorePageContinues
    <3> HIDE DEF IndexInv
    <3>2. TypeOK
      BY DEF IndexInv
    <3> DEFINE seen == work.seen
               indexed == work.draft \cup work.pending
               from == work.page + 1
    <3>3. /\ TypeOK /\ seen \in SUBSET Mail /\ indexed \in SUBSET Mail /\ from \in Nat
          /\ Continue(t, seen, indexed, from, TRUE)
          /\ UNCHANGED eligible
          /\ seen = eligible
          /\ indexed \subseteq seen
          /\ \A e \in seen : PageOf(e, seen) < from => e \in indexed
      BY <2>2, <3>1, <3>2
    <3> HIDE DEF seen, indexed, from
    <3>4. /\ lock' = Free => index' = eligible
          /\ lock' # Free =>
               /\ work'.draft \cup work'.pending \subseteq seen
               /\ \A e \in seen : PageOf(e, seen) <= work'.page
                    => e \in work'.draft \cup work'.pending
      BY <3>3, ContinueIsExact
    <3> QED BY <3>4 DEF seen
  <2>3. lock' # Free => work'.seen = work.seen /\ work'.dirty = TRUE
    BY <1>2, StorePageContinues, ContinueWork
  <2>4. PagesRead'
    BY <1>2, <2>2, <2>3 DEF PagesRead, StorePage, PageOf, Rank
  <2>5. index \cap eligible \subseteq work.draft \cup work.pending
    BY <1>2, IndexConstants DEF DraftKeepsEligible, StorePage
  <2>6. DraftKeepsEligible' /\ index \cap eligible' \subseteq index'
    BY <1>2, <2>5, StorePageContinues, ContinueKeeps
  <2> QED BY <2>1, <2>2, <2>4, <2>6
<1>3. ASSUME Abandon PROVE IndexInv'
  BY <1>3 DEF Abandon, TypeOK, PagesRead, DraftKeepsEligible, Idle, Work
<1>4. ASSUME ChangeEligible PROVE IndexInv'
  BY <1>4 DEF ChangeEligible, TypeOK, PagesRead, DraftKeepsEligible, Idle, PageOf, Rank
<1>5. ASSUME UNCHANGED vars PROVE IndexInv'
  BY <1>5 DEF vars, TypeOK, PagesRead, DraftKeepsEligible, PageOf, Rank
<1>6. IndexInv' /\ index \cap eligible' \subseteq index'
  <2>1. CASE Abandon \/ ChangeEligible \/ UNCHANGED vars
    <3>1. index' = index
      BY <2>1 DEF Abandon, ChangeEligible, vars
    <3> QED BY <1>3, <1>4, <1>5, <2>1, <3>1
  <2> QED BY <1>1, <1>2, <2>1 DEF Next
<1>7. Commits(eligible) => index' = eligible
  BY <1>1, <1>2 DEF Commits
<1> QED BY <1>6, <1>7

\* The invariant holds throughout; the properties follow from it.
THEOREM IndexInvariant == Spec => []IndexInv
<1>1. Init => IndexInv
  BY DEF Init, IndexInv, TypeOK, PagesRead, DraftKeepsEligible, Idle, Work
<1>2. IndexInv /\ [Next]_vars => IndexInv'
  BY IndexStep
<1> QED BY <1>1, <1>2, PTL DEF Spec

\* The variables of the specification stay in their types.
THEOREM IndexTypeCorrect == Spec => []TypeOK
<1>1. IndexInv => TypeOK
  BY DEF IndexInv
<1> QED BY <1>1, IndexInvariant, PTL

\* A reconciliation that ends with the eligible mail it began with leaves exactly
\* that mail in the index, for any number of messages and any page size.
THEOREM ReconciliationsExact == Spec => ReconcileIsExact
<1>1. IndexInv /\ [Next]_vars => [Commits(eligible) => index' = eligible]_vars
  BY IndexStep
<1> QED BY <1>1, IndexInvariant, PTL DEF Spec, ReconcileIsExact

\* No step takes mail out of the index that may be searched after it.
THEOREM EligibleMailKept == Spec => KeepsEligibleMail
<1>1. IndexInv /\ [Next]_vars => [index \cap eligible' \subseteq index']_vars
  BY IndexStep
<1> QED BY <1>1, IndexInvariant, PTL DEF Spec, KeepsEligibleMail
=============================================================================
