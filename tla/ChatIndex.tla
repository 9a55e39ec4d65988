------------------------------ MODULE ChatIndex ------------------------------
(***************************************************************************)
(* The search index of retained job mail: ChatIndexService.reconcile.  A   *)
(* reconciliation compares the indexed mail with the mail that may be      *)
(* searched, drops what may not, and embeds what is missing one page at a  *)
(* time.  It waits for the embedding provider between a read and the       *)
(* write that depends on it, and commits once, at its end.                 *)
(***************************************************************************)
EXTENDS Integers, FiniteSets

CONSTANTS
  Mail,        \* retained mail, numbered in the order it was sent
  Tasks,       \* the coroutines that may reconcile
  Free,        \* nobody
  MaxEmails    \* mail in one page of a reconciliation

ASSUME IndexConstants ==
  /\ Mail \subseteq Nat /\ IsFiniteSet(Mail)
  /\ MaxEmails \in Nat \ {0}
  /\ Free \notin Tasks

VARIABLES
  eligible,    \* mail that is retained and classified as job-related
  index,       \* mail whose chunks are committed to the index
  lock,        \* the task that holds _RECONCILE_LOCK
  work         \* the locals of that task, and its open transaction

vars == <<eligible, index, lock, work>>

Idle == [seen |-> {}, draft |-> {}, page |-> 0, pending |-> {}, dirty |-> FALSE]

\* seen: the eligible mail counted at the start.  draft: the index as this
\* transaction sees it.  page, pending: the page being embedded and its mail.
\* dirty: the transaction has written, so no other connection can.
Work == [seen: SUBSET Mail, draft: SUBSET Mail, page: Nat,
         pending: SUBSET Mail, dirty: BOOLEAN]

\* The page on which a listing of `mail` shows message e.
Rank(e, mail) == Cardinality({f \in mail : f < e})
PageOf(e, mail) == Rank(e, mail) \div MaxEmails

\* Mutated form: the last message of the listing is not counted.
Missing_LastSkipped(from, count, indexed) ==
  {e \in eligible \ indexed :
     PageOf(e, eligible) >= from /\ PageOf(e, eligible) * MaxEmails < count - 1}

\* What is listed from page `from` on, of a listing that was to hold `count`
\* messages, and is not indexed yet.
Missing(from, count, indexed) ==
  {e \in eligible \ indexed :
     PageOf(e, eligible) >= from /\ PageOf(e, eligible) * MaxEmails < count}

\* The pages from `from` on are read up to the first with something to embed;
\* without one the transaction commits.
Continue(t, seen, indexed, from, dirty) ==
  LET missing == Missing(from, Cardinality(seen), indexed)
  IN  \/ /\ missing = {}
         /\ index' = indexed /\ lock' = Free /\ work' = Idle
      \/ \E e \in missing :
         /\ \A f \in missing : PageOf(e, eligible) <= PageOf(f, eligible)
         /\ lock' = t
         /\ work' = [seen |-> seen, draft |-> indexed, dirty |-> dirty,
                     page |-> PageOf(e, eligible),
                     pending |-> {f \in missing :
                                    PageOf(f, eligible) = PageOf(e, eligible)}]
         /\ UNCHANGED index

Init ==
  /\ eligible = {} /\ index = {}
  /\ lock = Free /\ work = Idle

\* Mutated forms: the deletions are only decided on, and written at the end; the
\* chunks of mail that is not eligible stay.
Begin_DeletesLate(t) ==
  /\ lock = Free
  /\ Continue(t, eligible, index \cap eligible, 0, FALSE)
  /\ UNCHANGED eligible

Begin_KeepsStale(t) ==
  /\ lock = Free
  /\ Continue(t, eligible, index, 0, FALSE)
  /\ UNCHANGED eligible

\* The lock is free: the chunks of mail that is not eligible are deleted, which
\* opens the write transaction if there are any.
Begin(t) ==
  /\ lock = Free
  /\ Continue(t, eligible, index \cap eligible, 0, index \ eligible # {})
  /\ UNCHANGED eligible

\* The embeddings of a page have arrived and replace the chunks of its mail.
StorePage(t) ==
  /\ lock = t
  /\ Continue(t, work.seen, work.draft \cup work.pending, work.page + 1, TRUE)
  /\ UNCHANGED eligible

\* The provider fails, or the process ends: the connection is closed without a
\* commit.
Abandon ==
  /\ lock # Free
  /\ lock' = Free /\ work' = Idle
  /\ UNCHANGED <<eligible, index>>

\* Classification or sync changes what may be searched.  It writes through a
\* connection of its own, so not while the reconciliation has written.
ChangeEligible ==
  /\ ~work.dirty
  /\ eligible' \in SUBSET Mail
  /\ UNCHANGED <<index, lock, work>>

Next ==
  \/ \E t \in Tasks : Begin(t) \/ StorePage(t)
  \/ Abandon
  \/ ChangeEligible

Spec == Init /\ [][Next]_vars

-----------------------------------------------------------------------------
(* Type correctness. *)
TypeOK ==
  /\ eligible \subseteq Mail /\ index \subseteq Mail
  /\ lock \in Tasks \cup {Free}
  /\ work \in Work

\* Ends the reconciliation with a commit, having started from `seen`.
Commits(seen) ==
  \/ \E t \in Tasks : Begin(t) /\ lock' = Free /\ seen = eligible
  \/ \E t \in Tasks : StorePage(t) /\ lock' = Free /\ seen = work.seen

\* A reconciliation that ends with the same eligible mail it started from has
\* made the index exactly that mail: paging by offset misses nothing, nothing is
\* left behind of mail that is no longer eligible, and whatever changed in
\* between and changed back has left no trace.
ReconcileIsExact ==
  [][Commits(eligible) => index' = eligible]_vars

\* No step takes eligible mail out of the index, not even mail that became
\* eligible again while its chunks were being deleted.
KeepsEligibleMail ==
  [][index \cap eligible' \subseteq index']_vars
=============================================================================
