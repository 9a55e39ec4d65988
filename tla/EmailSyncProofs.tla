-------------------------- MODULE EmailSyncProofs --------------------------
(* Theorems about EmailSync, for every number of callers, messages, faults,  *)
(* every page size and every set of sync options.                            *)
EXTENDS EmailSync, FiniteSetTheorems, TLAPS

(* A page of messages is a finite set, so counting it gives a number. *)
LEMMA PageFinite ==
    ASSUME NEW S \in SUBSET Messages
    PROVE  IsFiniteSet(S) /\ Cardinality(S) \in Nat
<1>1. IsFiniteSet(Messages)
  BY FS_Interval, BoundsAssumption DEF Messages
<1>. QED  BY <1>1, FS_Subset, FS_CardinalityType

LEMMA NewRunType ==
    ASSUME NEW path \in {"none", "backfill", "pages"}, NEW o \in Options
    PROVE  NewRun(path, o) \in Run
BY OptionsAssumption DEF NewRun, Run, Cursors, Tokens, NoToken, NoCursor, Messages

LEMMA NoTokenType == NoToken \in Tokens /\ NoCursor \in Cursors
BY DEF Tokens, NoToken, Cursors, NoCursor

LEMMA TokenType ==
    ASSUME NEW t \in Tokens, t # NoToken
    PROVE  t.kind \in {"full", "incr"} /\ t.anchor \in Nat /\ t.pos \in Nat
BY DEF Tokens

(* The tokens a listing issues are never mistaken for "no more pages". *)
LEMMA IssuedToken ==
    ASSUME NEW anchor \in Nat, NEW pos \in Nat
    PROVE  /\ FullToken(anchor, pos) \in Tokens /\ HistoryToken(anchor, pos) \in Tokens
           /\ FullToken(anchor, pos) # NoToken /\ HistoryToken(anchor, pos) # NoToken
           /\ FullToken(anchor, pos).kind = "full" /\ HistoryToken(anchor, pos).kind = "incr"
           /\ FullToken(anchor, pos).anchor = anchor /\ HistoryToken(anchor, pos).anchor = anchor
           /\ FullToken(anchor, pos).pos = pos /\ HistoryToken(anchor, pos).pos = pos
BY DEF Tokens, FullToken, HistoryToken, NoToken

(* What the updates of a run's locals leave alone. *)
LEMMA Listing ==
    ASSUME NEW r \in Run, NEW s, NEW m \in {"full", "incr"}, NEW t \in Tokens,
           NEW cur \in Cursors, NEW lat \in Cursors,
           s = [r EXCEPT !.mode = m, !.token = t, !.cursor = cur, !.latest = lat]
    PROVE  /\ s \in Run
           /\ s.mode = m /\ s.token = t /\ s.cursor = cur /\ s.latest = lat
           /\ s.path = r.path /\ s.opts = r.opts
BY Zenon DEF Run

LEMMA Received ==
    ASSUME NEW r \in Run, NEW s, NEW S \in SUBSET Messages, NEW t \in Tokens,
           NEW cur \in Cursors,
           s = [r EXCEPT !.msgs = S, !.next = t, !.newCursor = cur]
    PROVE  /\ s \in Run
           /\ s.msgs = S /\ s.next = t /\ s.newCursor = cur
           /\ s.path = r.path /\ s.opts = r.opts /\ s.mode = r.mode
           /\ s.token = r.token /\ s.cursor = r.cursor /\ s.latest = r.latest
BY Zenon DEF Run

LEMMA Restarted ==
    ASSUME NEW r \in Run, NEW s, s = [r EXCEPT !.mode = "full", !.token = NoToken]
    PROVE  /\ s \in Run
           /\ s.mode = "full" /\ s.token = NoToken
           /\ s.path = r.path /\ s.opts = r.opts
           /\ s.cursor = r.cursor /\ s.latest = r.latest
BY NoTokenType, Zenon DEF Run

LEMMA Advanced ==
    ASSUME NEW r \in Run, NEW s, NEW t \in Tokens, NEW cur \in Cursors,
           NEW lat \in Cursors, NEW p \in Nat, NEW f \in Nat,
           s = [r EXCEPT !.token = t, !.cursor = cur, !.latest = lat, !.pages = p,
                         !.fetched = f]
    PROVE  /\ s \in Run
           /\ s.token = t /\ s.cursor = cur /\ s.latest = lat
           /\ s.path = r.path /\ s.opts = r.opts /\ s.mode = r.mode
BY Zenon DEF Run

(* The tables and the runs keep their types. *)
LEMMA InitType == Init => TypeOK
BY NewRunType, OptionsAssumption, CallersAssumption, BoundsAssumption
   DEF Init, TypeOK, NoRun, NoProgress, FreshBackfill, Cursors, Tokens, NoToken, NoCursor, Steps

LEMMA NextType == TypeOK /\ [Next]_vars => TypeOK'
<1> SUFFICES ASSUME TypeOK, [Next]_vars PROVE TypeOK'
  OBVIOUS
<1> USE CallersAssumption, BoundsAssumption
<1>n. NoRun \in Run
  BY NewRunType, OptionsAssumption DEF NoRun
<1>t. NoToken \in Tokens /\ NoCursor \in Cursors
  BY NoTokenType
<1>1. CASE Arrive
  BY <1>1 DEF Arrive, TypeOK, durable, memory
<1>2. CASE Expire
  BY <1>2 DEF Expire, TypeOK, durable, memory
<1>3. CASE Reconnect
  BY <1>3 DEF Reconnect, TypeOK, provider, memory
<1>4. ASSUME NEW c \in Callers, NEW o \in Options, StartBackfill(c, o)
      PROVE  TypeOK'
  BY <1>4, NewRunType DEF StartBackfill, AcquireRun, Goto, TypeOK, Steps, provider, durable
<1>5. ASSUME NEW c \in Callers, NEW o \in Options, StartPages(c, o)
      PROVE  TypeOK'
  <2> DEFINE resumes == ~o.windowed /\ sync.token # NoToken
             mode == IF o.windowed THEN "full" ELSE IF resumes THEN sync.mode ELSE "incr"
             token == IF resumes THEN sync.token ELSE NoToken
             latest == IF resumes /\ mode = "full" THEN sync.cursor ELSE NoCursor
  <2>1. NewRun("pages", o) \in Run
    BY NewRunType
  <2>4. mode \in {"full", "incr"} /\ token \in Tokens /\ latest \in Cursors
        /\ sync.cursor \in Cursors
    BY <1>t DEF TypeOK
  <2>5. run' = [run EXCEPT ![c] = [NewRun("pages", o) EXCEPT !.mode = mode, !.token = token,
                                     !.cursor = sync.cursor, !.latest = latest]]
    BY <1>5 DEF StartPages
  <2> HIDE DEF mode, token, latest
  <2>6. [NewRun("pages", o) EXCEPT !.mode = mode, !.token = token,
                                   !.cursor = sync.cursor, !.latest = latest] \in Run
    BY <2>1, <2>4, Listing
  <2>2. run' \in [Callers -> Run]
    BY <2>5, <2>6 DEF TypeOK
  <2>3. pc' \in [Callers -> Steps]
    BY <1>5 DEF StartPages, Goto, FirstStep, TypeOK, Steps
  <2>. QED  BY <1>5, <2>2, <2>3 DEF StartPages, AcquireRun, TypeOK, provider, durable
<1>6. ASSUME NEW c \in Callers, FetchProfile(c) PROVE TypeOK'
  BY <1>6 DEF FetchProfile, Goto, TypeOK, Steps, Run, provider, durable
<1>7. ASSUME NEW c \in Callers, ListFullPage(c) PROVE TypeOK'
  <2> DEFINE r == run[c]
             top == IF r.token = NoToken THEN arrived ELSE r.token.pos
             page(cut) == {m \in r.opts.scope : cut < m /\ m <= top}
             more(cut) == \E m \in r.opts.scope : m <= cut
  <2>1. PICK cut \in 0 .. top :
           ReceivePage(c, page(cut),
                       IF more(cut) THEN FullToken(Anchor(r), cut) ELSE NoToken,
                       IF more(cut) THEN NoCursor ELSE Anchor(r))
    BY <1>7 DEF ListFullPage
  <2>2. r \in Run /\ top \in Nat
    BY DEF TypeOK, Run, Tokens
  <2>3. Anchor(r) \in Nat /\ Anchor(r) \in Cursors
    BY <2>2, TokenType DEF Anchor, Run, Cursors
  <2>4. page(cut) \in SUBSET Messages
    BY <2>2 DEF Run, SyncOptions
  <2>5. FullToken(Anchor(r), cut) \in Tokens
    BY <2>1, <2>2, <2>3, IssuedToken
  <2> DEFINE next == IF more(cut) THEN FullToken(Anchor(r), cut) ELSE NoToken
             newCursor == IF more(cut) THEN NoCursor ELSE Anchor(r)
             s == [r EXCEPT !.msgs = page(cut), !.next = next, !.newCursor = newCursor]
  <2>7. next \in Tokens /\ newCursor \in Cursors
    BY <2>3, <2>5, <1>t
  <2>8. run' = [run EXCEPT ![c] = s]
    BY <2>1 DEF ReceivePage
  <2> HIDE DEF page, more, top, next, newCursor
  <2>9. s \in Run
    BY <2>2, <2>4, <2>7, Received, Zenon
  <2>6. run' \in [Callers -> Run]
    BY <2>8, <2>9, Zenon DEF TypeOK
  <2>. QED  BY <2>1, <2>6 DEF ReceivePage, Goto, TypeOK, Steps, provider, durable
<1>8. ASSUME NEW c \in Callers, ListHistoryPage(c) PROVE TypeOK'
  <2> DEFINE r == run[c]
             from == IF r.token = NoToken THEN r.cursor ELSE r.token.pos
  <2>1. PICK cut \in from .. arrived :
           ReceivePage(c, (from + 1) .. cut,
                       IF cut < arrived THEN HistoryToken(r.cursor, cut) ELSE NoToken,
                       IF cut < arrived THEN NoCursor ELSE arrived)
    BY <1>8 DEF ListHistoryPage
  <2>2. r \in Run /\ from \in Nat
    <3>1. r \in Run /\ r.cursor >= horizon /\ horizon \in Nat
      BY <1>8 DEF ListHistoryPage, TypeOK
    <3>2. r.cursor \in Nat \cup {-1} /\ r.token.pos \in Nat
      BY <3>1, TokenType DEF Run, Cursors, NoCursor, NoToken
    <3>. QED  BY <3>1, <3>2
  <2>3. HistoryToken(r.cursor, cut) \in Tokens /\ arrived \in Cursors
    <3>1. r.cursor \in Nat /\ cut \in Nat /\ arrived \in Nat
      BY <1>8, <2>1, <2>2 DEF ListHistoryPage, TypeOK, Run, Cursors, NoCursor
    <3>. QED  BY <3>1, IssuedToken DEF Cursors
  <2>4. (from + 1) .. cut \in SUBSET Messages
    BY <2>1, <2>2 DEF TypeOK, Messages
  <2> HIDE DEF from
  <2>6. [r EXCEPT !.msgs = (from + 1) .. cut,
                  !.next = IF cut < arrived THEN HistoryToken(r.cursor, cut) ELSE NoToken,
                  !.newCursor = IF cut < arrived THEN NoCursor ELSE arrived] \in Run
    BY <2>2, <2>3, <2>4, <1>t, Received
  <2>5. run' \in [Callers -> Run]
    BY <2>1, <2>6 DEF ReceivePage, TypeOK
  <2>. QED  BY <2>1, <2>5 DEF ReceivePage, Goto, TypeOK, Steps, provider, durable
<1>9. ASSUME NEW c \in Callers, CursorExpired(c) PROVE TypeOK'
  <2>1. [run[c] EXCEPT !.mode = "full", !.token = NoToken] \in Run
    BY Restarted DEF TypeOK
  <2>. QED  BY <1>9, <2>1 DEF CursorExpired, Goto, TypeOK, Steps, provider, durable
<1>10. ASSUME NEW c \in Callers, PersistPage(c) PROVE TypeOK'
  BY <1>10 DEF PersistPage, Goto, TypeOK, Steps, Run, provider
<1>11. ASSUME NEW c \in Callers, ResumeBackfill(c) PROVE TypeOK'
  BY <1>11, <1>t DEF ResumeBackfill, ResumedBackfill, FreshBackfill, FirstStep, Goto,
                     TypeOK, Steps, Run, provider
<1>12. ASSUME NEW c \in Callers, RecordPage(c) PROVE TypeOK'
  BY <1>12, <1>t DEF RecordPage, RecordedPage, Recordable, NoProgress, Goto, At,
                     TypeOK, Steps, Run, provider
<1>13. ASSUME NEW c \in Callers, TallyPage(c) PROVE TypeOK'
  BY <1>13 DEF TallyPage, Goto, TypeOK, Steps, provider, durable
<1>14. ASSUME NEW c \in Callers, FinishBackfill(c) PROVE TypeOK'
  BY <1>14, <1>n DEF FinishBackfill, ReleaseRun, Goto, TypeOK, Steps, provider, durable
<1>p. ASSUME NEW c \in Callers, run[c].next # NoToken
      PROVE  PageProgress(run[c]) \in [cursor: Cursors, mode: {"none", "full", "incr"}, token: Tokens]
             /\ (PageProgress(run[c]).mode = "none" <=> PageProgress(run[c]).token = NoToken)
  BY <1>p DEF PageProgress, Latest, TypeOK, Run
<1>15. ASSUME NEW c \in Callers, AdvancePage(c) PROVE TypeOK'
  <2>1. Fetched(run[c]) \in Nat
    BY PageFinite DEF Fetched, TypeOK, Run
  <2> DEFINE r == run[c]
  <2> DEFINE cursor == IF r.mode = "full" THEN NoCursor ELSE r.cursor
             s == [r EXCEPT !.token = r.next, !.cursor = cursor, !.latest = Latest(r),
                            !.pages = r.pages + 1, !.fetched = Fetched(r)]
  <2>3. /\ r \in Run /\ r.next \in Tokens /\ r.pages + 1 \in Nat /\ Latest(r) \in Cursors
        /\ cursor \in Cursors
    BY <1>t DEF Latest, TypeOK, Run
  <2>5. run' = [run EXCEPT ![c] = s]
    BY <1>15 DEF AdvancePage
  <2>6. \A t \in Tokens, cur, lat \in Cursors, p, f \in Nat :
           [r EXCEPT !.token = t, !.cursor = cur, !.latest = lat, !.pages = p,
                     !.fetched = f] \in Run
    BY <2>3, Advanced, Zenon
  <2> HIDE DEF cursor
  <2>4. s \in Run
    BY <2>1, <2>3, <2>6, Zenon
  <2>2. run' \in [Callers -> Run]
    BY <2>4, <2>5, Zenon DEF TypeOK
  <2>. QED  BY <1>15, <1>p, <2>2 DEF AdvancePage, Goto, TypeOK, Steps, provider
<1>16. ASSUME NEW c \in Callers, StopAtLimit(c) PROVE TypeOK'
  BY <1>16, <1>n, <1>p DEF StopAtLimit, ReleaseRun, Goto, TypeOK, Steps, provider
<1>17. ASSUME NEW c \in Callers, LastPage(c) PROVE TypeOK'
  BY <1>17 DEF LastPage, Latest, Goto, TypeOK, Steps, Run, provider, durable
<1>18. ASSUME NEW c \in Callers, Finalize(c) PROVE TypeOK'
  BY <1>18, <1>n, <1>t DEF Finalize, NoProgress, ReleaseRun, Goto, TypeOK, Steps, Run, provider
<1>19. ASSUME NEW c \in Callers, Fail(c) PROVE TypeOK'
  <2>1. backfill' \in [status: {"absent", "running", "completed", "failed"},
                       token: Tokens, pages: Nat, cursor: Cursors]
        /\ (backfill'.status \in {"absent", "completed"} => backfill'.token = NoToken)
        /\ (backfill'.status = "completed" => backfill'.cursor # NoCursor)
    BY <1>19, <1>t DEF Fail, FailedBackfill, FreshBackfill, TypeOK
  <2>2. connected' \in BOOLEAN
    BY <1>19, Zenon DEF Fail, TypeOK
  <2>. QED  BY <1>19, <1>n, <2>1, <2>2 DEF Fail, ReleaseRun, Goto, TypeOK, Steps, provider
<1>20. ASSUME NEW c \in Callers, FailInHandler(c) PROVE TypeOK'
  BY <1>20, <1>n DEF FailInHandler, ReleaseRun, Goto, TypeOK, Steps, provider, durable
<1>21. CASE Crash
  BY <1>21, <1>n DEF Crash, TypeOK, Steps, provider, durable
<1>22. CASE UNCHANGED vars
  BY <1>22 DEF TypeOK, vars, provider, durable, memory
<1>. QED
  BY <1>1, <1>2, <1>3, <1>4, <1>5, <1>6, <1>7, <1>8, <1>9, <1>10, <1>11, <1>12, <1>13, <1>14,
     <1>15, <1>16, <1>17, <1>18, <1>19, <1>20, <1>21, <1>22 DEF Next, Start, RunStep

(* Type correctness, with the validators of the stored records. *)
THEOREM TypeCorrect == Spec => []TypeOK
BY InitType, NextType, PTL DEF Spec

----------------------------------------------------------------------------
(* The inductive invariant and the safety properties, for every number of     *)
(* callers, messages and faults, every page size and every set of options.   *)

(* At most one run is in progress: the one that holds the lock. *)
LEMMA OthersIdle ==
    ASSUME \A d \in Callers : RunShape(d), NEW c \in Callers, ~At(c, "idle")
    PROVE  lock = c /\ \A d \in Callers \ {c} : At(d, "idle")
BY DEF RunShape

LEMMA FreeMeansIdle ==
    ASSUME \A d \in Callers : RunShape(d), lock = Free
    PROVE  \A d \in Callers : At(d, "idle")
BY CallersAssumption DEF RunShape

(* An idle caller says nothing about the tables. *)
LEMMA IdleShape ==
    ASSUME NEW d \in Callers, RunShape(d), At(d, "idle"),
           run'[d] = run[d], pc'[d] = pc[d]
    PROVE  RunShape(d)' /\ RunCovered(d)'
BY DEF RunShape, RunCovered, At

LEMMA ReleasedShape ==
    ASSUME NEW d \in Callers, run'[d] = NoRun, pc'[d] = "idle"
    PROVE  RunShape(d)' /\ RunCovered(d)'
BY DEF RunShape, RunCovered, At, NoRun, NewRun

(* A step of one caller's run: the others stay idle, so only that caller's   *)
(* part of the invariant has to be shown again.                              *)
LEMMA OneRun ==
    ASSUME \A d \in Callers : RunShape(d), NEW c \in Callers,
           ~At(c, "idle") \/ lock = Free,
           \A d \in Callers \ {c} : run'[d] = run[d] /\ pc'[d] = pc[d],
           RunShape(c)', RunCovered(c)'
    PROVE  \A d \in Callers : RunShape(d)' /\ RunCovered(d)'
<1>1. \A d \in Callers \ {c} : At(d, "idle")
  BY OthersIdle, FreeMeansIdle
<1>. QED  BY <1>1, IdleShape

(* What has to be shown of a run after a step, in terms of its new locals s. *)
LEMMA CoveredNext ==
    ASSUME NEW c, NEW s, NEW step, NEW S, run'[c] = s, pc'[c] = step, stored' = S,
           s.opts.scope = Messages =>
             /\ step \in {"list", "persist"} /\ s.token # NoToken =>
                  TokenCovered(s, s.token, S)
             /\ step = "persist" => PageCovered(s, S \cup s.msgs)
             /\ step \in {"record", "advance"} => PageCovered(s, S)
    PROVE  RunCovered(c)'
BY DEF RunCovered, At

(* What the steps that set several locals of a run at once do to them *)
LEMMA ReceivedPage ==
    ASSUME TypeOK, NEW c \in Callers, NEW msgs \in SUBSET Messages, NEW next \in Tokens,
           NEW newCursor \in Cursors, ReceivePage(c, msgs, next, newCursor)
    PROVE  LET r == run[c]
               s == run'[c]
           IN  /\ s.msgs = msgs /\ s.next = next /\ s.newCursor = newCursor
               /\ s.path = r.path /\ s.opts = r.opts /\ s.mode = r.mode /\ s.anchor = r.anchor
               /\ s.token = r.token /\ s.cursor = r.cursor /\ s.latest = r.latest
               /\ pc'[c] = "persist"
               /\ \A d \in Callers \ {c} : run'[d] = run[d] /\ pc'[d] = pc[d]
<1> DEFINE r == run[c]
           s == [r EXCEPT !.msgs = msgs, !.next = next, !.newCursor = newCursor]
<1>1. /\ run' = [run EXCEPT ![c] = s] /\ pc' = [pc EXCEPT ![c] = "persist"]
      /\ run \in [Callers -> Run] /\ pc \in [Callers -> Steps] /\ r \in Run
  BY DEF ReceivePage, Goto, TypeOK
<1>2. s = [r EXCEPT !.msgs = msgs, !.next = next, !.newCursor = newCursor]
  OBVIOUS
<1> HIDE DEF s, r
<1>3. /\ s.msgs = msgs /\ s.next = next /\ s.newCursor = newCursor
      /\ s.path = r.path /\ s.opts = r.opts /\ s.mode = r.mode /\ s.anchor = r.anchor
      /\ s.token = r.token /\ s.cursor = r.cursor /\ s.latest = r.latest
  BY <1>1, <1>2, Zenon DEF Run
<1>4. /\ run'[c] = s /\ pc'[c] = "persist"
      /\ \A d \in Callers \ {c} : run'[d] = run[d] /\ pc'[d] = pc[d]
  BY <1>1, Zenon
<1>. QED  BY <1>3, <1>4 DEF r

LEMMA PagesStart ==
    ASSUME TypeOK, NEW c \in Callers, NEW o \in Options, StartPages(c, o)
    PROVE  LET resumes == ~o.windowed /\ sync.token # NoToken
               s == run'[c]
           IN  /\ s.mode = IF o.windowed THEN "full" ELSE IF resumes THEN sync.mode ELSE "incr"
               /\ s.token = IF resumes THEN sync.token ELSE NoToken
               /\ s.latest = IF resumes /\ s.mode = "full" THEN sync.cursor ELSE NoCursor
               /\ s.cursor = sync.cursor /\ s.path = "pages" /\ s.opts = o
               /\ s.anchor = 0 /\ s.msgs = {} /\ s.next = NoToken /\ s.newCursor = NoCursor
               /\ s.mode \in {"full", "incr"} /\ pc'[c] = FirstStep(s.mode, s.token)
               /\ \A d \in Callers \ {c} : run'[d] = run[d] /\ pc'[d] = pc[d]
<1> DEFINE resumes == ~o.windowed /\ sync.token # NoToken
           mode == IF o.windowed THEN "full" ELSE IF resumes THEN sync.mode ELSE "incr"
           token == IF resumes THEN sync.token ELSE NoToken
           latest == IF resumes /\ mode = "full" THEN sync.cursor ELSE NoCursor
           fresh == NewRun("pages", o)
           s == [fresh EXCEPT !.mode = mode, !.token = token,
                              !.cursor = sync.cursor, !.latest = latest]
<1>1. run' = [run EXCEPT ![c] = s] /\ pc' = [pc EXCEPT ![c] = FirstStep(mode, token)]
      /\ run \in [Callers -> Run] /\ pc \in [Callers -> Steps]
  BY DEF StartPages, Goto, TypeOK
<1>2. s = [fresh EXCEPT !.mode = mode, !.token = token,
                        !.cursor = sync.cursor, !.latest = latest]
  OBVIOUS
<1>3. /\ fresh \in Run /\ fresh.path = "pages" /\ fresh.opts = o /\ fresh.anchor = 0
      /\ fresh.msgs = {} /\ fresh.next = NoToken /\ fresh.newCursor = NoCursor
  BY NewRunType DEF NewRun
<1>4. mode \in {"full", "incr"}
  BY DEF TypeOK
<1> HIDE DEF s, mode, token, latest, fresh
<1>5. /\ s.mode = mode /\ s.token = token /\ s.cursor = sync.cursor /\ s.latest = latest
      /\ s.path = "pages" /\ s.opts = o /\ s.anchor = 0
      /\ s.msgs = {} /\ s.next = NoToken /\ s.newCursor = NoCursor
  BY <1>2, <1>3, Zenon DEF Run
<1>6. /\ run'[c] = s /\ pc'[c] = FirstStep(mode, token)
      /\ \A d \in Callers \ {c} : run'[d] = run[d] /\ pc'[d] = pc[d]
  BY <1>1, Zenon
<1>7. /\ mode = IF o.windowed THEN "full" ELSE IF resumes THEN sync.mode ELSE "incr"
      /\ token = IF resumes THEN sync.token ELSE NoToken
      /\ latest = IF resumes /\ mode = "full" THEN sync.cursor ELSE NoCursor
  BY DEF mode, token, latest
<1>. QED  BY <1>4, <1>5, <1>6, <1>7

LEMMA PageAdvance ==
    ASSUME TypeOK, NEW c \in Callers, AdvancePage(c)
    PROVE  LET r == run[c]
               s == run'[c]
           IN  /\ s.token = r.next /\ s.latest = Latest(r)
               /\ s.cursor = IF r.mode = "full" THEN NoCursor ELSE r.cursor
               /\ s.mode = r.mode /\ s.opts = r.opts /\ s.path = r.path
               /\ s.anchor = r.anchor /\ s.msgs = r.msgs /\ s.next = r.next
               /\ s.newCursor = r.newCursor /\ pc'[c] = "list"
               /\ \A d \in Callers \ {c} : run'[d] = run[d] /\ pc'[d] = pc[d]
<1> DEFINE r == run[c]
           cursor == IF r.mode = "full" THEN NoCursor ELSE r.cursor
           s == [r EXCEPT !.token = r.next, !.cursor = cursor, !.latest = Latest(r),
                          !.pages = r.pages + 1, !.fetched = Fetched(r)]
<1>1. run' = [run EXCEPT ![c] = s] /\ pc' = [pc EXCEPT ![c] = "list"]
      /\ run \in [Callers -> Run] /\ pc \in [Callers -> Steps] /\ r \in Run
  BY DEF AdvancePage, Goto, TypeOK
<1>2. s = [r EXCEPT !.token = r.next, !.cursor = cursor, !.latest = Latest(r),
                    !.pages = r.pages + 1, !.fetched = Fetched(r)]
  OBVIOUS
<1> HIDE DEF s, cursor, r
<1>3. /\ s.token = r.next /\ s.cursor = cursor /\ s.latest = Latest(r)
      /\ s.mode = r.mode /\ s.opts = r.opts /\ s.path = r.path
      /\ s.anchor = r.anchor /\ s.msgs = r.msgs /\ s.next = r.next
      /\ s.newCursor = r.newCursor
  BY <1>1, <1>2, Zenon DEF Run
<1>4. /\ run'[c] = s /\ pc'[c] = "list"
      /\ \A d \in Callers \ {c} : run'[d] = run[d] /\ pc'[d] = pc[d]
  BY <1>1, Zenon
<1>. QED  BY <1>3, <1>4 DEF r, cursor

LEMMA InitSync == Init => SyncInv
<1> SUFFICES ASSUME Init PROVE SyncInv
  OBVIOUS
<1>1. \A c \in Callers : RunShape(c) /\ RunCovered(c)
  BY DEF Init, RunShape, RunCovered, At, NoRun, NewRun
<1>. QED  BY <1>1 DEF Init, SyncInv, BackfillCovers, ResumeTokenSound, FreshBackfill, NoProgress

(* What the provider answers: a page continues the listing without a hole.   *)
LEMMA FullPageCovered ==
    ASSUME TypeOK, NEW c \in Callers, RunShape(c), RunCovered(c), ListFullPage(c)
    PROVE  /\ RunShape(c)' /\ RunCovered(c)' /\ At(c, "list")
           /\ run'[c].cursor = run[c].cursor /\ run'[c].latest = run[c].latest
           /\ \A d \in Callers \ {c} : run'[d] = run[d] /\ pc'[d] = pc[d]
<1> DEFINE r == run[c]
           top == IF r.token = NoToken THEN arrived ELSE r.token.pos
           page(cut) == {m \in r.opts.scope : cut < m /\ m <= top}
           more(cut) == \E m \in r.opts.scope : m <= cut
<1>1. PICK cut \in 0 .. top :
         ReceivePage(c, page(cut),
                     IF more(cut) THEN FullToken(Anchor(r), cut) ELSE NoToken,
                     IF more(cut) THEN NoCursor ELSE Anchor(r))
  BY DEF ListFullPage
<1>2. /\ At(c, "list") /\ r.mode = "full" /\ r \in Run /\ run \in [Callers -> Run]
      /\ pc \in [Callers -> Steps] /\ arrived \in Nat
  BY DEF ListFullPage, TypeOK
<1>3. top \in Nat /\ Anchor(r) \in Nat /\ cut \in Nat /\ cut <= top
  BY <1>1, <1>2, TokenType DEF Anchor, Run
<1>4. page(cut) \in SUBSET Messages
  BY <1>2 DEF Run, SyncOptions
<1> DEFINE next == IF more(cut) THEN FullToken(Anchor(r), cut) ELSE NoToken
           newCursor == IF more(cut) THEN NoCursor ELSE Anchor(r)
           s == run'[c]
<1>5. next \in Tokens /\ newCursor \in Cursors
  BY <1>3, NoTokenType, IssuedToken DEF Cursors
<1>6. lock' = lock /\ arrived' = arrived /\ backfill' = backfill /\ stored' = stored
  BY <1>1 DEF ReceivePage, provider, durable
<1>7. /\ run'[c] = s /\ pc'[c] = "persist"
      /\ \A d \in Callers \ {c} : run'[d] = run[d] /\ pc'[d] = pc[d]
  BY <1>1, <1>4, <1>5, ReceivedPage
<1>8. /\ s.msgs = page(cut) /\ s.next = next /\ s.newCursor = newCursor
      /\ s.path = r.path /\ s.opts = r.opts /\ s.mode = r.mode
      /\ s.token = r.token /\ s.cursor = r.cursor /\ s.latest = r.latest
  BY <1>1, <1>4, <1>5, ReceivedPage
<1> HIDE DEF s
<1>9. RunShape(c)'
  BY <1>2, <1>6, <1>7, <1>8 DEF RunShape, At
<1>10. RunCovered(c)'
  <2>a. ASSUME r.opts.scope = Messages
        PROVE  /\ s.token # NoToken => TokenCovered(s, s.token, stored)
               /\ PageCovered(s, stored \cup s.msgs)
    <3>1. r.token # NoToken => TokenCovered(r, r.token, stored)
      BY <1>2, <2>a DEF RunCovered, At
    <3>2. HaveIn(stored \cup page(cut), cut, Anchor(r))
      <4> SUFFICES ASSUME NEW m \in Messages, cut < m, m <= Anchor(r)
                   PROVE  m \in stored \cup page(cut)
        BY DEF HaveIn
      <4>1. CASE r.token = NoToken
        BY <1>2, <2>a, <4>1 DEF Anchor, RunShape, At, Run, Messages
      <4>2. CASE r.token # NoToken
        BY <1>2, <2>a, <3>1, <4>2, TokenType DEF Anchor, TokenCovered, HaveIn, Messages, Run
      <4>. QED  BY <4>1, <4>2
    <3>3. r.token # NoToken => TokenCovered(s, s.token, stored)
      BY <1>8, <3>1 DEF TokenCovered
    <3>4. PageCovered(s, stored \cup s.msgs)
      <4>1. CASE more(cut)
        <5>1. s.next = FullToken(Anchor(r), cut) /\ s.newCursor = NoCursor
          BY <1>8, <4>1
        <5>2. /\ s.next # NoToken /\ s.next.kind = "full" /\ s.next.anchor = Anchor(r)
              /\ s.next.pos = cut
          BY <1>3, <5>1, IssuedToken
        <5>3. TokenCovered(s, s.next, stored \cup s.msgs)
          BY <1>2, <1>8, <3>2, <5>2 DEF TokenCovered
        <5>. QED  BY <1>3, <1>8, <5>1, <5>2, <5>3 DEF PageCovered, Anchor
      <4>2. CASE ~more(cut)
        <5>1. s.next = NoToken /\ s.newCursor = Anchor(r) /\ s.newCursor # NoCursor
          BY <1>3, <1>8, <4>2 DEF NoCursor
        <5>2. HaveIn(stored \cup s.msgs, 0, Anchor(r))
          <6> SUFFICES ASSUME NEW m \in Messages, m <= Anchor(r)
                       PROVE  m \in stored \cup page(cut)
            BY <1>8 DEF HaveIn
          <6>1. cut < m
            BY <1>3, <2>a, <4>2, BoundsAssumption DEF Messages
          <6>. QED  BY <3>2, <6>1 DEF HaveIn
        <5>. QED  BY <1>2, <1>8, <5>1, <5>2 DEF PageCovered
      <4>. QED  BY <4>1, <4>2
    <3>. QED  BY <1>8, <3>3, <3>4
  <2>1. s.opts.scope = Messages =>
          /\ s.token # NoToken => TokenCovered(s, s.token, stored)
          /\ PageCovered(s, stored \cup s.msgs)
    BY <1>8, <2>a
  <2>2. run'[c] = s /\ pc'[c] = "persist" /\ stored' = stored
    BY <1>6, <1>7
  <2>. QED  BY <2>1, <2>2, CoveredNext
<1>. QED  BY <1>2, <1>7, <1>8, <1>9, <1>10

LEMMA HistoryPageCovered ==
    ASSUME TypeOK, NEW c \in Callers, RunShape(c), RunCovered(c), ListHistoryPage(c)
    PROVE  /\ RunShape(c)' /\ RunCovered(c)' /\ At(c, "list")
           /\ run'[c].cursor = run[c].cursor /\ run'[c].latest = run[c].latest
           /\ \A d \in Callers \ {c} : run'[d] = run[d] /\ pc'[d] = pc[d]
<1> DEFINE r == run[c]
           from == IF r.token = NoToken THEN r.cursor ELSE r.token.pos
<1>1. PICK cut \in from .. arrived :
         ReceivePage(c, (from + 1) .. cut,
                     IF cut < arrived THEN HistoryToken(r.cursor, cut) ELSE NoToken,
                     IF cut < arrived THEN NoCursor ELSE arrived)
  BY DEF ListHistoryPage
<1>2. /\ At(c, "list") /\ r.mode = "incr" /\ r \in Run /\ run \in [Callers -> Run]
      /\ pc \in [Callers -> Steps] /\ arrived \in Nat /\ arrived <= MaxArrivals
      /\ r.cursor >= horizon /\ horizon \in Nat
  BY BoundsAssumption DEF ListHistoryPage, TypeOK
<1>3. r.cursor \in Nat
  BY <1>2 DEF Run, Cursors, NoCursor
<1>4. from \in Nat /\ cut \in Nat /\ from <= cut /\ cut <= arrived
  BY <1>1, <1>2, <1>3, TokenType DEF Run
<1> DEFINE page == (from + 1) .. cut
           next == IF cut < arrived THEN HistoryToken(r.cursor, cut) ELSE NoToken
           newCursor == IF cut < arrived THEN NoCursor ELSE arrived
           s == run'[c]
<1>5. page \in SUBSET Messages /\ next \in Tokens /\ newCursor \in Cursors
  BY <1>2, <1>3, <1>4, NoTokenType, IssuedToken, BoundsAssumption DEF Cursors, Messages
<1>6. lock' = lock /\ arrived' = arrived /\ backfill' = backfill /\ stored' = stored
  BY <1>1 DEF ReceivePage, provider, durable
<1>7. /\ run'[c] = s /\ pc'[c] = "persist"
      /\ \A d \in Callers \ {c} : run'[d] = run[d] /\ pc'[d] = pc[d]
  BY <1>1, <1>5, ReceivedPage
<1>8. /\ s.msgs = page /\ s.next = next /\ s.newCursor = newCursor
      /\ s.path = r.path /\ s.opts = r.opts /\ s.mode = r.mode
      /\ s.token = r.token /\ s.cursor = r.cursor /\ s.latest = r.latest
  BY <1>1, <1>5, ReceivedPage
<1> HIDE DEF s
<1>9. RunShape(c)'
  BY <1>2, <1>6, <1>7, <1>8 DEF RunShape, At
<1>10. RunCovered(c)'
  <2>a. ASSUME r.opts.scope = Messages
        PROVE  /\ s.token # NoToken => TokenCovered(s, s.token, stored)
               /\ PageCovered(s, stored \cup s.msgs)
    <3>1. r.token # NoToken => TokenCovered(r, r.token, stored)
      BY <1>2, <2>a DEF RunCovered, At
    <3>2. HaveIn(stored \cup page, r.cursor, cut)
      <4>1. CASE r.token = NoToken
        BY <1>4, <4>1 DEF HaveIn, Messages
      <4>2. CASE r.token # NoToken
        BY <1>2, <1>3, <1>4, <3>1, <4>2 DEF TokenCovered, HaveIn, Messages
      <4>. QED  BY <4>1, <4>2
    <3>3. r.token # NoToken => TokenCovered(s, s.token, stored)
      BY <1>8, <3>1 DEF TokenCovered
    <3>4. PageCovered(s, stored \cup s.msgs)
      <4>1. CASE cut < arrived
        <5>1. s.next = HistoryToken(r.cursor, cut) /\ s.newCursor = NoCursor
          BY <1>8, <4>1
        <5>2. /\ s.next # NoToken /\ s.next.kind = "incr" /\ s.next.anchor = r.cursor
              /\ s.next.pos = cut
          BY <1>3, <1>4, <5>1, IssuedToken
        <5>. QED  BY <1>2, <1>8, <3>2, <5>1, <5>2 DEF PageCovered, TokenCovered
      <4>2. CASE ~(cut < arrived)
        <5>1. s.next = NoToken /\ s.newCursor = arrived /\ s.newCursor # NoCursor /\ cut = arrived
          BY <1>2, <1>4, <1>8, <4>2 DEF NoCursor
        <5>. QED  BY <1>2, <1>8, <3>2, <5>1 DEF PageCovered
      <4>. QED  BY <4>1, <4>2
    <3>. QED  BY <1>8, <3>3, <3>4
  <2> HIDE DEF page, next, newCursor, from, r
  <2>. QED  BY <1>6, <1>7, <1>8, <2>a, CoveredNext
<1>. QED  BY <1>2, <1>7, <1>8, <1>9, <1>10

(* The tables keep what they claim while messages are only added. *)
LEMMA BackfillKept ==
    ASSUME BackfillCovers, backfill' = backfill, stored \subseteq stored'
    PROVE  BackfillCovers'
BY DEF BackfillCovers, Have, HaveIn

LEMMA TokenKept ==
    ASSUME ResumeTokenSound, sync' = sync, stored \subseteq stored'
    PROVE  ResumeTokenSound'
BY DEF ResumeTokenSound, Have, HaveIn

LEMMA EnvironmentSync ==
    ASSUME TypeOK, SyncInv, Arrive \/ Expire \/ Reconnect \/ UNCHANGED vars
    PROVE  SyncInv'
<1>1. /\ run' = run /\ pc' = pc /\ lock' = lock /\ backfill' = backfill /\ sync' = sync
      /\ stored' = stored /\ arrived' \in {arrived, arrived + 1} /\ arrived \in Nat
  BY BoundsAssumption DEF Arrive, Expire, Reconnect, vars, provider, durable, memory, TypeOK
<1>2. ASSUME NEW c \in Callers PROVE RunShape(c)' /\ RunCovered(c)'
  <2>1. RunShape(c) /\ RunCovered(c) /\ run[c] \in Run
    BY DEF SyncInv, TypeOK
  <2>2. RunShape(c)'
    BY <1>1, <2>1 DEF RunShape, At, Run
  <2>. QED  BY <1>1, <2>1, <2>2 DEF RunCovered, At
<1>. QED  BY <1>1, <1>2, BackfillKept, TokenKept DEF SyncInv

LEMMA StartSync ==
    ASSUME TypeOK, SyncInv, NEW c \in Callers, NEW o \in Options, Start(c, o)
    PROVE  SyncInv'
<1>1. /\ backfill' = backfill /\ sync' = sync /\ stored' = stored /\ arrived' = arrived
      /\ lock = Free /\ lock' = c /\ run \in [Callers -> Run] /\ pc \in [Callers -> Steps]
  BY DEF Start, StartBackfill, StartPages, AcquireRun, provider, durable, TypeOK
<1>2. \A d \in Callers \ {c} : run'[d] = run[d] /\ pc'[d] = pc[d]
  BY <1>1, Zenon DEF Start, StartBackfill, StartPages, Goto
<1>3. RunShape(c)' /\ RunCovered(c)'
  <2>1. CASE StartBackfill(c, o)
    <3>1. run'[c] = NewRun("backfill", o) /\ pc'[c] = "resume" /\ ~o.windowed
      BY <1>1, <2>1 DEF StartBackfill, Goto
    <3>2. RunShape(c)'
      BY <1>1, <3>1 DEF RunShape, NewRun, At
    <3>. QED  BY <1>1, <3>1, <3>2 DEF RunCovered, NewRun, At
  <2>2. CASE StartPages(c, o)
    <3> DEFINE s == run'[c]
    <3>1. /\ s.mode \in {"full", "incr"} /\ s.path = "pages" /\ s.opts = o
          /\ s.mode = "incr" => s.latest = NoCursor /\ ~o.windowed
          /\ pc'[c] = FirstStep(s.mode, s.token)
          /\ s.token # NoToken =>
               s.token = sync.token /\ s.mode = sync.mode /\ s.cursor = sync.cursor
      BY <2>2, PagesStart
    <3>2. pc'[c] \in {"profile", "list"}
          /\ (pc'[c] = "profile" <=> s.mode = "full" /\ s.token = NoToken)
      BY <3>1 DEF FirstStep
    <3>3. run'[c] = s
      OBVIOUS
    <3> HIDE DEF s
    <3>4. s.token # NoToken => TokenCovered(s, s.token, stored)
      BY <3>1 DEF SyncInv, ResumeTokenSound, TokenCovered, Have, HaveIn
    <3>5. RunShape(c)'
      BY <1>1, <3>1, <3>2, <3>3 DEF RunShape, At
    <3>. QED  BY <1>1, <3>2, <3>3, <3>4, <3>5, CoveredNext
  <2>. QED  BY <2>1, <2>2 DEF Start
<1>4. \A d \in Callers : RunShape(d)' /\ RunCovered(d)'
  BY <1>1, <1>2, <1>3, OneRun DEF SyncInv
<1>. QED  BY <1>1, <1>4, BackfillKept, TokenKept DEF SyncInv

(* Steps that neither store messages nor move the tables. *)
LEMMA LocalSync ==
    ASSUME TypeOK, SyncInv, NEW c \in Callers,
           \/ FetchProfile(c) \/ ListFullPage(c) \/ ListHistoryPage(c) \/ CursorExpired(c)
           \/ TallyPage(c) \/ LastPage(c)
    PROVE  SyncInv'
<1> DEFINE r == run[c]
           others == \A d \in Callers \ {c} : run'[d] = run[d] /\ pc'[d] = pc[d]
<1>1. /\ RunShape(c) /\ RunCovered(c) /\ r \in Run
      /\ run \in [Callers -> Run] /\ pc \in [Callers -> Steps] /\ arrived \in Nat
  BY DEF SyncInv, TypeOK
<1>2. ASSUME FetchProfile(c)
      PROVE  RunShape(c)' /\ RunCovered(c)' /\ ~At(c, "idle") /\ others
  <2>1. /\ run' = [run EXCEPT ![c] = [r EXCEPT !.anchor = arrived]]
        /\ pc' = [pc EXCEPT ![c] = "list"] /\ At(c, "profile")
        /\ lock' = lock /\ arrived' = arrived /\ backfill' = backfill /\ stored' = stored
    BY <1>2 DEF FetchProfile, Goto, provider, durable
  <2>2. /\ run'[c].token = r.token /\ run'[c].mode = r.mode /\ run'[c].opts = r.opts
        /\ run'[c].path = r.path /\ run'[c].latest = r.latest /\ run'[c].anchor = arrived
        /\ pc'[c] = "list" /\ others
    BY <1>1, <2>1 DEF Run
  <2>3. RunShape(c)'
    BY <1>1, <2>1, <2>2 DEF RunShape, At
  <2>4. run'[c].token = NoToken
    BY <1>1, <2>1, <2>2 DEF RunShape, At
  <2>. QED  BY <2>1, <2>2, <2>3, <2>4 DEF RunCovered, At
<1>3. ASSUME CursorExpired(c)
      PROVE  RunShape(c)' /\ RunCovered(c)' /\ ~At(c, "idle") /\ others
  <2>1. /\ run' = [run EXCEPT ![c] = [r EXCEPT !.mode = "full", !.token = NoToken]]
        /\ pc' = [pc EXCEPT ![c] = "profile"] /\ At(c, "list") /\ r.mode = "incr"
        /\ lock' = lock /\ arrived' = arrived /\ backfill' = backfill /\ stored' = stored
    BY <1>3 DEF CursorExpired, Goto, provider, durable
  <2>2. /\ run'[c].token = NoToken /\ run'[c].mode = "full" /\ run'[c].opts = r.opts
        /\ run'[c].path = r.path /\ pc'[c] = "profile" /\ others
    BY <1>1, <2>1 DEF Run
  <2>3. RunShape(c)'
    BY <1>1, <2>1, <2>2 DEF RunShape, At
  <2>. QED  BY <2>1, <2>2, <2>3 DEF RunCovered, At
<1>4. ASSUME TallyPage(c)
      PROVE  RunShape(c)' /\ RunCovered(c)' /\ ~At(c, "idle") /\ others
  <2>1. /\ run' = run /\ pc' = [pc EXCEPT ![c] = "resume"] /\ At(c, "tally")
        /\ lock' = lock /\ arrived' = arrived /\ backfill' = backfill /\ stored' = stored
    BY <1>4 DEF TallyPage, Goto, provider, durable
  <2>2. pc'[c] = "resume" /\ others
    BY <1>1, <2>1
  <2>3. RunShape(c)'
    BY <1>1, <2>1, <2>2 DEF RunShape, At
  <2>. QED  BY <2>1, <2>2, <2>3 DEF RunCovered, At
<1>5. ASSUME LastPage(c)
      PROVE  RunShape(c)' /\ RunCovered(c)' /\ ~At(c, "idle") /\ others
  <2>1. /\ run' = [run EXCEPT ![c] = [r EXCEPT !.latest = Latest(r)]]
        /\ pc' = [pc EXCEPT ![c] = "finalize"] /\ At(c, "advance")
        /\ lock' = lock /\ arrived' = arrived /\ backfill' = backfill /\ stored' = stored
    BY <1>5 DEF LastPage, Goto, provider, durable
  <2>2. /\ run'[c].mode = r.mode /\ run'[c].opts = r.opts /\ run'[c].path = r.path
        /\ pc'[c] = "finalize" /\ others
    BY <1>1, <2>1 DEF Run
  <2>3. RunShape(c)'
    BY <1>1, <2>1, <2>2 DEF RunShape, At
  <2>. QED  BY <2>1, <2>2, <2>3 DEF RunCovered, At
<1>6. /\ backfill' = backfill /\ sync' = sync /\ stored' = stored
  BY DEF FetchProfile, ListFullPage, ListHistoryPage, CursorExpired, TallyPage, LastPage,
         ReceivePage, durable
<1>7. RunShape(c)' /\ RunCovered(c)' /\ ~At(c, "idle") /\ others
  BY <1>1, <1>2, <1>3, <1>4, <1>5, FullPageCovered, HistoryPageCovered DEF At
<1>8. \A d \in Callers : RunShape(d)' /\ RunCovered(d)'
  BY <1>7, OneRun DEF SyncInv
<1>. QED  BY <1>6, <1>8, BackfillKept, TokenKept DEF SyncInv

LEMMA PersistSync ==
    ASSUME TypeOK, SyncInv, NEW c \in Callers, PersistPage(c)
    PROVE  SyncInv'
<1>1. /\ run' = run /\ lock' = lock /\ arrived' = arrived /\ backfill' = backfill
      /\ sync' = sync /\ stored' = stored \cup run[c].msgs /\ At(c, "persist")
      /\ pc' = [pc EXCEPT ![c] = IF run[c].path = "backfill" THEN "record" ELSE "advance"]
      /\ pc \in [Callers -> Steps]
  BY DEF PersistPage, Goto, provider, TypeOK
<1>2. /\ pc'[c] = (IF run[c].path = "backfill" THEN "record" ELSE "advance")
      /\ \A d \in Callers \ {c} : run'[d] = run[d] /\ pc'[d] = pc[d]
  BY <1>1
<1>3. RunShape(c)'
  BY <1>1, <1>2 DEF RunShape, At, SyncInv
<1>4. run[c].opts.scope = Messages => PageCovered(run[c], stored')
  BY <1>1 DEF SyncInv, RunCovered, At
<1>5. RunCovered(c)'
  BY <1>1, <1>2, <1>4, CoveredNext
<1>6. \A d \in Callers : RunShape(d)' /\ RunCovered(d)'
  BY <1>1, <1>2, <1>3, <1>5, OneRun DEF SyncInv, At
<1>. QED  BY <1>1, <1>6, BackfillKept, TokenKept DEF SyncInv

LEMMA ResumeSync ==
    ASSUME TypeOK, SyncInv, NEW c \in Callers, ResumeBackfill(c)
    PROVE  SyncInv'
<1> DEFINE r == run[c]
<1>1. /\ run' = [run EXCEPT ![c] = [r EXCEPT !.token = ResumedBackfill.token]]
      /\ pc' = [pc EXCEPT ![c] = FirstStep("full", ResumedBackfill.token)]
      /\ backfill' = ResumedBackfill /\ At(c, "resume")
      /\ lock' = lock /\ arrived' = arrived /\ sync' = sync /\ stored' = stored
  BY DEF ResumeBackfill, Goto, provider
<1>2. /\ RunShape(c) /\ RunCovered(c) /\ r \in Run
      /\ run \in [Callers -> Run] /\ pc \in [Callers -> Steps]
      /\ backfill \in [status: {"absent", "running", "completed", "failed"},
                       token: Tokens, pages: Nat, cursor: Cursors]
  BY DEF SyncInv, TypeOK
<1>3. /\ run'[c].token = backfill'.token /\ run'[c].mode = r.mode /\ run'[c].opts = r.opts
      /\ run'[c].path = r.path /\ run'[c].latest = r.latest
      /\ pc'[c] = FirstStep("full", backfill'.token)
      /\ \A d \in Callers \ {c} : run'[d] = run[d] /\ pc'[d] = pc[d]
  BY <1>1, <1>2 DEF Run
<1>4. /\ backfill'.status = "running"
      /\ backfill'.token = IF backfill.status \in {"running", "failed"}
                           THEN backfill.token ELSE NoToken
  BY <1>1, <1>2 DEF ResumedBackfill, FreshBackfill
<1>5. BackfillCovers'
  BY <1>1, <1>4 DEF BackfillCovers, SyncInv, Have, HaveIn
<1>6. FirstStep("full", backfill'.token) \in {"profile", "list"}
      /\ (FirstStep("full", backfill'.token) = "profile" <=> backfill'.token = NoToken)
  BY DEF FirstStep
<1>7. r.path = "backfill" /\ r.mode = "full" /\ ~r.opts.windowed /\ lock = c /\ r.opts \in Options
  BY <1>1, <1>2 DEF RunShape, At
<1>8. RunShape(c)'
  BY <1>1, <1>2, <1>3, <1>4, <1>6, <1>7 DEF RunShape, At
<1>9. RunCovered(c)'
  <2>1. backfill'.token # NoToken => TokenCovered(run'[c], backfill'.token, stored)
    BY <1>1, <1>3, <1>5, <1>7 DEF BackfillCovers, TokenCovered, Have
  <2>. QED  BY <1>1, <1>3, <1>6, <2>1, CoveredNext
<1>10. \A d \in Callers : RunShape(d)' /\ RunCovered(d)'
  BY <1>1, <1>3, <1>8, <1>9, OneRun DEF SyncInv, At
<1>. QED  BY <1>1, <1>5, <1>10, TokenKept DEF SyncInv

(* A run that is not windowed lists the whole mailbox. *)
LEMMA WholeMailbox ==
    ASSUME NEW c \in Callers, RunShape(c), RunCovered(c),
           pc[c] \in {"record", "advance"}, ~run[c].opts.windowed
    PROVE  PageCovered(run[c], stored)
BY OptionsAssumption DEF RunShape, RunCovered, At

(* record_backfill_page accepts every page it is given. *)
LEMMA PageRecordable ==
    ASSUME SyncInv
    PROVE  BackfillRecordsItsPage
<1> SUFFICES ASSUME NEW c \in Callers, At(c, "record") PROVE Recordable(c)
  BY DEF BackfillRecordsItsPage
<1>1. RunShape(c) /\ RunCovered(c)
  BY DEF SyncInv
<1>2. PageCovered(run[c], stored)
  BY <1>1, WholeMailbox DEF RunShape, At
<1>. QED  BY <1>1, <1>2 DEF Recordable, RunShape, PageCovered, At

LEMMA RecordSync ==
    ASSUME TypeOK, SyncInv, NEW c \in Callers, RecordPage(c)
    PROVE  SyncInv'
<1> DEFINE r == run[c]
           recorded == RecordedPage(r)
<1>1. /\ run' = [run EXCEPT ![c] = [r EXCEPT !.pages = recorded.pages]]
      /\ pc' = [pc EXCEPT ![c] = "tally"]
      /\ backfill' = recorded /\ At(c, "record")
      /\ sync' = (IF recorded.status = "completed" THEN NoProgress(recorded.cursor) ELSE sync)
      /\ lock' = lock /\ arrived' = arrived /\ stored' = stored
  BY DEF RecordPage, Goto, provider
<1>2. /\ RunShape(c) /\ RunCovered(c) /\ r \in Run
      /\ run \in [Callers -> Run] /\ pc \in [Callers -> Steps]
  BY DEF SyncInv, TypeOK
<1>3. /\ run'[c].mode = r.mode /\ run'[c].opts = r.opts
      /\ run'[c].path = r.path /\ run'[c].latest = r.latest /\ pc'[c] = "tally"
      /\ \A d \in Callers \ {c} : run'[d] = run[d] /\ pc'[d] = pc[d]
  BY <1>1, <1>2 DEF Run
<1>4. r.path = "backfill" /\ r.mode = "full" /\ ~r.opts.windowed /\ lock = c
  BY <1>1, <1>2 DEF RunShape, At
<1>5. PageCovered(r, stored)
  BY <1>1, <1>2, <1>4, WholeMailbox DEF At
<1>6. /\ recorded.status = IF r.next = NoToken THEN "completed" ELSE "running"
      /\ recorded.token = r.next /\ recorded.cursor = r.newCursor
  BY DEF RecordedPage
<1>7. BackfillCovers'
  BY <1>1, <1>4, <1>5, <1>6 DEF BackfillCovers, PageCovered, TokenCovered, Have
<1>8. ResumeTokenSound'
  BY <1>1 DEF SyncInv, ResumeTokenSound, NoProgress, Have
<1>9. RunShape(c)'
  BY <1>1, <1>2, <1>3, <1>4, <1>6 DEF RunShape, At
<1>10. RunCovered(c)'
  BY <1>1, <1>3, CoveredNext
<1>11. \A d \in Callers : RunShape(d)' /\ RunCovered(d)'
  BY <1>1, <1>3, <1>9, <1>10, OneRun DEF SyncInv, At
<1>. QED  BY <1>7, <1>8, <1>11 DEF SyncInv

(* The progress a run stores after a page can be resumed. *)
LEMMA ProgressSound ==
    ASSUME TypeOK, SyncInv, NEW c \in Callers, At(c, "advance"), run[c].next # NoToken,
           sync' = PageProgress(run[c]), stored' = stored
    PROVE  ResumeTokenSound'
<1> DEFINE r == run[c]
<1>1. CASE r.opts.windowed
  BY <1>1, TokenKept DEF PageProgress, SyncInv
<1>2. CASE ~r.opts.windowed
  <2>1. RunShape(c) /\ RunCovered(c)
    BY DEF SyncInv
  <2>2. PageCovered(r, stored)
    BY <1>2, <2>1, WholeMailbox DEF At
  <2>3. TokenCovered(r, r.next, stored) /\ r.newCursor = NoCursor
    BY <2>2 DEF PageCovered
  <2>4. r.mode = "incr" => r.latest = NoCursor
    BY <2>1 DEF RunShape, At
  <2>5. /\ sync'.token = r.next /\ sync'.mode = r.mode
        /\ r.mode = "incr" => sync'.cursor = r.cursor
    BY <1>2, <2>3, <2>4 DEF PageProgress, Latest
  <2>. QED  BY <2>3, <2>5 DEF ResumeTokenSound, TokenCovered, Have
<1>. QED  BY <1>1, <1>2

LEMMA AdvanceSync ==
    ASSUME TypeOK, SyncInv, NEW c \in Callers, AdvancePage(c)
    PROVE  SyncInv'
<1> DEFINE r == run[c]
           s == run'[c]
<1>1. /\ r.next # NoToken /\ At(c, "advance") /\ sync' = PageProgress(r)
      /\ backfill' = backfill
      /\ lock' = lock /\ arrived' = arrived /\ stored' = stored
  BY DEF AdvancePage, provider
<1>2. /\ RunShape(c) /\ RunCovered(c) /\ r \in Run
  BY DEF SyncInv, TypeOK
<1>3. /\ run'[c] = s /\ pc'[c] = "list"
      /\ \A d \in Callers \ {c} : run'[d] = run[d] /\ pc'[d] = pc[d]
  BY PageAdvance
<1>4. /\ s.token = r.next /\ s.cursor = IF r.mode = "full" THEN NoCursor ELSE r.cursor
      /\ s.latest = Latest(r) /\ s.mode = r.mode /\ s.opts = r.opts /\ s.path = r.path
  BY PageAdvance
<1> HIDE DEF s
<1>5. r.path # "backfill"
  BY <1>1, <1>2 DEF RunShape, At
<1>6. r.mode = "incr" => Latest(r) = NoCursor
  <2>1. ~r.opts.windowed => r.newCursor = NoCursor
    BY <1>1, <1>2, WholeMailbox DEF PageCovered, At
  <2>. QED  BY <1>1, <1>2, <2>1 DEF RunShape, Latest, At
<1>7. ResumeTokenSound'
  BY <1>1, ProgressSound
<1>8. RunCovered(c)'
  <2>1. ASSUME r.opts.scope = Messages PROVE TokenCovered(s, s.token, stored)
    <3>1. TokenCovered(r, r.next, stored)
      BY <1>1, <1>2, <2>1 DEF RunCovered, PageCovered, At
    <3>. QED  BY <1>1, <1>2, <1>4, <3>1 DEF TokenCovered, RunShape, At
  <2>2. s.opts.scope = Messages => TokenCovered(s, s.token, stored)
    BY <1>4, <2>1
  <2>3. run'[c] = s /\ pc'[c] = "list" /\ stored' = stored
    BY <1>1, <1>3
  <2> HIDE DEF r
  <2>. QED  BY <2>2, <2>3, CoveredNext
<1>9. RunShape(c)'
  BY <1>1, <1>2, <1>3, <1>4, <1>5, <1>6 DEF RunShape, At
<1>10. \A d \in Callers : RunShape(d)' /\ RunCovered(d)'
  BY <1>1, <1>3, <1>8, <1>9, OneRun DEF SyncInv, At
<1>. QED  BY <1>1, <1>7, <1>10, BackfillKept DEF SyncInv

(* Runs that end leave every caller idle. *)
LEMMA ReleaseSync ==
    ASSUME TypeOK, \A d \in Callers : RunShape(d), NEW c \in Callers, NEW outcome,
           ~At(c, "idle"), ReleaseRun(c, outcome)
    PROVE  \A d \in Callers : RunShape(d)' /\ RunCovered(d)'
<1>1. /\ run'[c] = NoRun /\ pc'[c] = "idle"
      /\ \A d \in Callers \ {c} : run'[d] = run[d] /\ pc'[d] = pc[d]
  BY DEF ReleaseRun, Goto, TypeOK
<1>. QED  BY <1>1, ReleasedShape, OneRun

LEMMA EndSync ==
    ASSUME TypeOK, SyncInv, NEW c \in Callers,
           \/ FinishBackfill(c) \/ StopAtLimit(c) \/ Finalize(c) \/ Fail(c) \/ FailInHandler(c)
    PROVE  SyncInv'
<1>1. \A d \in Callers : RunShape(d)' /\ RunCovered(d)'
  BY ReleaseSync DEF SyncInv, FinishBackfill, StopAtLimit, Finalize, Fail, FailInHandler, At
<1>2. stored' = stored
  BY DEF FinishBackfill, StopAtLimit, Finalize, Fail, FailInHandler, durable
<1>3. BackfillCovers'
  <2>1. CASE backfill' = backfill
    BY <1>2, <2>1, BackfillKept DEF SyncInv
  <2>2. CASE backfill' = FailedBackfill
    <3>1. /\ backfill'.status = "failed"
          /\ backfill'.token # NoToken => backfill'.token = backfill.token
      BY <2>2 DEF FailedBackfill, FreshBackfill, TypeOK
    <3>. QED  BY <1>2, <3>1 DEF BackfillCovers, SyncInv, Have
  <2>. QED  BY <2>1, <2>2 DEF FinishBackfill, StopAtLimit, Finalize, Fail, FailInHandler, durable
<1>4. ResumeTokenSound'
  <2>1. CASE sync' = sync
    BY <1>2, <2>1, TokenKept DEF SyncInv
  <2>2. CASE StopAtLimit(c)
    BY <1>2, <2>2, ProgressSound DEF StopAtLimit
  <2>3. CASE Finalize(c)
    BY <2>3 DEF Finalize, NoProgress, ResumeTokenSound
  <2>. QED  BY <2>1, <2>2, <2>3 DEF FinishBackfill, StopAtLimit, Finalize, Fail, FailInHandler, durable
<1>. QED  BY <1>1, <1>3, <1>4 DEF SyncInv

LEMMA CrashSync ==
    ASSUME TypeOK, SyncInv, Crash
    PROVE  SyncInv'
<1>1. \A d \in Callers : RunShape(d)' /\ RunCovered(d)'
  BY ReleasedShape DEF Crash
<1>. QED  BY <1>1, BackfillKept, TokenKept DEF SyncInv, Crash, durable

LEMMA NextSync ==
    ASSUME TypeOK, SyncInv, [Next]_vars
    PROVE  SyncInv'
BY EnvironmentSync, StartSync, LocalSync, PersistSync, ResumeSync, RecordSync, AdvanceSync,
   EndSync, CrashSync DEF Next, RunStep

----------------------------------------------------------------------------
(* Without date windows *)

LEMMA InitCursor == Init => CursorInv
BY DEF Init, CursorInv, NoProgress, NoCursor, Have, HaveIn, Messages, At

(* Only the step's own run can disturb the invariant. *)
LEMMA OneCursor ==
    ASSUME CursorInv, NEW c \in Callers, stored \subseteq stored',
           \A d \in Callers \ {c} : run'[d] = run[d] /\ pc'[d] = pc[d],
           HaveIn(stored', 0, sync'.cursor),
           pc'[c] # "idle" => /\ HaveIn(stored', 0, run'[c].cursor)
                              /\ HaveIn(stored', 0, run'[c].latest)
    PROVE  CursorInv'
<1>1. ASSUME NEW d \in Callers, ~At(d, "idle")'
      PROVE  (Have(0, run[d].cursor) /\ Have(0, run[d].latest))'
  <2>1. CASE d = c
    BY <1>1, <2>1 DEF At, Have
  <2>2. CASE d # c
    <3>1. Have(0, run[d].cursor) /\ Have(0, run[d].latest)
          /\ run'[d] = run[d]
      BY <1>1, <2>2 DEF CursorInv, At
    <3>. QED  BY <3>1 DEF Have, HaveIn
  <2>. QED  BY <2>1, <2>2
<1>. QED  BY <1>1 DEF CursorInv, Have

(* What the page after which a run stands says about the whole mailbox *)
LEMMA UndatedPage ==
    ASSUME Undated, SyncInv, NEW c \in Callers, pc[c] \in {"record", "advance"}
    PROVE  PageCovered(run[c], stored)
BY DEF Undated, SyncInv, RunShape, RunCovered, At

LEMMA KeptCursor ==
    ASSUME CursorInv, NEW c \in Callers, ~At(c, "idle"), stored \subseteq stored',
           run'[c].cursor = run[c].cursor, run'[c].latest = run[c].latest
    PROVE  HaveIn(stored', 0, run'[c].cursor) /\ HaveIn(stored', 0, run'[c].latest)
BY DEF CursorInv, Have, HaveIn

(* The cursor a page loop would store next *)
LEMMA LatestCursor ==
    ASSUME Undated, TypeOK, SyncInv, CursorInv, NEW c \in Callers, At(c, "advance")
    PROVE  Have(0, Latest(run[c]))
<1> DEFINE r == run[c]
<1>1. PageCovered(r, stored) /\ Have(0, r.cursor) /\ Have(0, r.latest)
  BY UndatedPage DEF CursorInv, At
<1>2. CASE r.newCursor = NoCursor
  BY <1>1, <1>2 DEF Latest
<1>3. CASE r.newCursor # NoCursor
  <2>1. HaveIn(stored, IF r.mode = "full" THEN 0 ELSE r.cursor, r.newCursor)
    BY <1>1, <1>3 DEF PageCovered
  <2>2. r \in Run
    BY DEF TypeOK
  <2>3. Have(0, r.newCursor)
    BY <1>1, <2>1, <2>2 DEF Have, HaveIn, Run, Cursors, NoCursor, Messages
  <2>. QED  BY <1>3, <2>3 DEF Latest
<1>. QED  BY <1>2, <1>3

LEMMA ProgressCursor ==
    ASSUME Undated, TypeOK, SyncInv, CursorInv, NEW c \in Callers, At(c, "advance")
    PROVE  Have(0, PageProgress(run[c]).cursor)
<1>1. Have(0, Latest(run[c])) /\ Have(0, run[c].cursor) /\ Have(0, sync.cursor)
  BY LatestCursor DEF CursorInv, At
<1>. QED  BY <1>1 DEF PageProgress

LEMMA NextCursor ==
    ASSUME Undated, TypeOK, SyncInv, CursorInv, [Next]_vars
    PROVE  CursorInv'
<1> DEFINE others(c) == \A d \in Callers \ {c} : run'[d] = run[d] /\ pc'[d] = pc[d]
           kept(c) == run'[c].cursor = run[c].cursor /\ run'[c].latest = run[c].latest
<1>1. /\ run \in [Callers -> Run] /\ pc \in [Callers -> Steps]
      /\ HaveIn(stored, 0, sync.cursor) /\ HaveIn(stored, 0, NoCursor)
  BY DEF TypeOK, CursorInv, Have, HaveIn, NoCursor, Messages
<1>2. CASE Arrive \/ Expire \/ Reconnect \/ UNCHANGED vars
  <2>1. run' = run /\ pc' = pc /\ stored' = stored /\ sync' = sync
    BY <1>2 DEF Arrive, Expire, Reconnect, vars, provider, durable, memory
  <2>. QED  BY <2>1 DEF CursorInv, Have, HaveIn, At
<1>3. ASSUME NEW c \in Callers, NEW o \in Options, Start(c, o) PROVE CursorInv'
  <2>1. stored' = stored /\ sync' = sync
    BY <1>3 DEF Start, StartBackfill, StartPages, durable
  <2>2. CASE StartBackfill(c, o)
    <3>1. others(c) /\ run'[c] = NewRun("backfill", o)
      BY <1>1, <2>2, Zenon DEF StartBackfill, Goto
    <3>2. run'[c].cursor = NoCursor /\ run'[c].latest = NoCursor
      BY <3>1 DEF NewRun
    <3>. QED  BY <1>1, <2>1, <3>1, <3>2, OneCursor
  <2>3. CASE StartPages(c, o)
    <3>1. /\ others(c) /\ run'[c].cursor = sync.cursor
          /\ run'[c].latest \in {sync.cursor, NoCursor}
      BY <2>3, PagesStart
    <3>. QED  BY <1>1, <2>1, <3>1, OneCursor
  <2>. QED  BY <1>3, <2>2, <2>3 DEF Start
<1>4. ASSUME NEW c \in Callers,
             \/ FetchProfile(c) \/ ListFullPage(c) \/ ListHistoryPage(c) \/ CursorExpired(c)
             \/ PersistPage(c) \/ ResumeBackfill(c) \/ TallyPage(c)
      PROVE  CursorInv'
  <2>1. stored \subseteq stored' /\ sync' = sync /\ ~At(c, "idle")
    BY <1>4 DEF FetchProfile, ListFullPage, ListHistoryPage, CursorExpired, PersistPage,
                ResumeBackfill, TallyPage, ReceivePage, durable, At
  <2>2. others(c) /\ kept(c)
    <3>1. CASE FetchProfile(c)
      BY <1>1, <3>1 DEF FetchProfile, Goto, Run
    <3>2. CASE ListFullPage(c) \/ ListHistoryPage(c)
      BY <3>2, FullPageCovered, HistoryPageCovered DEF SyncInv
    <3>3. CASE CursorExpired(c)
      BY <1>1, <3>3 DEF CursorExpired, Goto, Run
    <3>4. CASE PersistPage(c) \/ TallyPage(c)
      BY <1>1, <3>4 DEF PersistPage, TallyPage, Goto, memory
    <3>5. CASE ResumeBackfill(c)
      BY <1>1, <3>5 DEF ResumeBackfill, Goto, Run
    <3>. QED  BY <1>4, <3>1, <3>2, <3>3, <3>4, <3>5
  <2>3. HaveIn(stored', 0, sync'.cursor)
    BY <1>1, <2>1 DEF HaveIn
  <2>. QED  BY <2>1, <2>2, <2>3, KeptCursor, OneCursor
<1>5. ASSUME NEW c \in Callers, RecordPage(c) PROVE CursorInv'
  <2>1. /\ At(c, "record") /\ stored' = stored /\ others(c) /\ kept(c)
        /\ sync' = IF run[c].next = NoToken THEN NoProgress(run[c].newCursor) ELSE sync
    BY <1>1, <1>5 DEF RecordPage, RecordedPage, Goto, Run
  <2>2. PageCovered(run[c], stored) /\ run[c].mode = "full"
    BY <2>1, UndatedPage DEF SyncInv, RunShape, At
  <2>3. HaveIn(stored, 0, sync'.cursor)
    BY <1>1, <2>1, <2>2 DEF PageCovered, NoProgress
  <2>. QED  BY <2>1, <2>3, KeptCursor, OneCursor DEF At
<1>6. ASSUME NEW c \in Callers, AdvancePage(c) PROVE CursorInv'
  <2>1. At(c, "advance") /\ stored' = stored /\ sync' = PageProgress(run[c])
    BY <1>6 DEF AdvancePage
  <2>2. /\ HaveIn(stored, 0, sync'.cursor) /\ HaveIn(stored, 0, Latest(run[c]))
        /\ HaveIn(stored, 0, run[c].cursor)
    BY <2>1, ProgressCursor, LatestCursor DEF CursorInv, Have, At
  <2>. QED  BY <1>1, <1>6, <2>1, <2>2, PageAdvance, OneCursor
<1>7. ASSUME NEW c \in Callers, LastPage(c) PROVE CursorInv'
  <2>1. /\ At(c, "advance") /\ stored' = stored /\ sync' = sync /\ others(c)
        /\ run'[c].cursor = run[c].cursor /\ run'[c].latest = Latest(run[c])
    BY <1>1, <1>7 DEF LastPage, Goto, Run, durable
  <2>2. HaveIn(stored, 0, Latest(run[c])) /\ HaveIn(stored, 0, run[c].cursor)
    BY <2>1, LatestCursor DEF CursorInv, Have, At
  <2>. QED  BY <1>1, <2>1, <2>2, OneCursor
<1>8. ASSUME NEW c \in Callers,
             \/ FinishBackfill(c) \/ StopAtLimit(c) \/ Finalize(c) \/ Fail(c)
             \/ FailInHandler(c)
      PROVE  CursorInv'
  <2>1. stored' = stored /\ others(c) /\ pc'[c] = "idle"
    BY <1>1, <1>8 DEF FinishBackfill, StopAtLimit, Finalize, Fail, FailInHandler,
                      ReleaseRun, Goto, durable
  <2>2. HaveIn(stored, 0, sync'.cursor)
    <3>1. CASE StopAtLimit(c)
      BY <3>1, ProgressCursor DEF StopAtLimit, Have
    <3>2. CASE Finalize(c)
      BY <1>1, <3>2 DEF Finalize, NoProgress, CursorInv, Have, At
    <3>3. CASE FinishBackfill(c) \/ Fail(c) \/ FailInHandler(c)
      BY <1>1, <3>3 DEF FinishBackfill, Fail, FailInHandler, durable
    <3>. QED  BY <1>8, <3>1, <3>2, <3>3
  <2>. QED  BY <2>1, <2>2, OneCursor
<1>9. CASE Crash
  <2>1. stored' = stored /\ sync' = sync /\ \A c \in Callers : pc'[c] = "idle"
    BY <1>9 DEF Crash, durable
  <2>. QED  BY <1>1, <2>1 DEF CursorInv, Have, HaveIn, At
<1>. QED  BY <1>2, <1>3, <1>4, <1>5, <1>6, <1>7, <1>8, <1>9 DEF Next, RunStep

----------------------------------------------------------------------------
(* The theorems *)

(* The tables and the locals of the run in progress always agree: the        *)
(* inductive invariant of the page loops of services/sync_service.py.        *)
THEOREM SyncInvariant == Spec => [](TypeOK /\ SyncInv)
<1>1. Init => TypeOK /\ SyncInv
  BY InitType, InitSync
<1>2. TypeOK /\ SyncInv /\ [Next]_vars => (TypeOK /\ SyncInv)'
  BY NextType, NextSync
<1>. QED  BY <1>1, <1>2, PTL DEF Spec

(* Wherever a run is cut off, the backfill row claims only pages whose       *)
(* messages were stored: the message upserts commit before the page.         *)
THEOREM BackfillNeverOverclaims == Spec => []BackfillCovers
<1>1. SyncInv => BackfillCovers
  BY DEF SyncInv
<1>. QED  BY <1>1, SyncInvariant, PTL

(* The page token that an interrupted page loop leaves in email_sync_state   *)
(* is of the stored mode and cursor, and nothing it has passed is missing.   *)
THEOREM ResumeTokensSound == Spec => []ResumeTokenSound
<1>1. SyncInv => ResumeTokenSound
  BY DEF SyncInv
<1>. QED  BY <1>1, SyncInvariant, PTL

(* record_backfill_page accepts every page a backfill gives it, however      *)
(* many callers there are: the run lock keeps its precondition true.         *)
THEOREM PagesRecordable == Spec => []BackfillRecordsItsPage
<1>1. SyncInv => BackfillRecordsItsPage
  BY PageRecordable
<1>. QED  BY <1>1, SyncInvariant, PTL

(* A backfill is only ever continued, by retries and after crashes too: no   *)
(* step starts its listing over before the step that completes it.           *)
THEOREM BackfillOnlyContinues == Spec => BackfillResumes
<1> DEFINE continued ==
      backfill.token # NoToken =>
        IF backfill'.token = NoToken THEN backfill'.status = "completed"
        ELSE /\ backfill'.token.anchor = backfill.token.anchor
             /\ backfill'.token.pos <= backfill.token.pos
<1>1. ASSUME TypeOK, SyncInv, [Next]_vars PROVE [continued]_vars
  <2>1. backfill.token # NoToken =>
          /\ backfill.status \in {"running", "failed"}
          /\ backfill.token.pos \in Nat
    BY <1>1, TokenType DEF TypeOK
  <2>2. CASE backfill' = backfill
    BY <2>1, <2>2
  <2>3. CASE backfill' \in {ResumedBackfill, FailedBackfill}
    <3>1. backfill.token # NoToken => backfill'.token = backfill.token
      BY <1>1, <2>1, <2>3 DEF ResumedBackfill, FailedBackfill, TypeOK
    <3>. QED  BY <2>1, <3>1
  <2>4. ASSUME NEW c \in Callers, RecordPage(c) PROVE continued
    <3>1. /\ At(c, "record") /\ backfill' = RecordedPage(run[c])
          /\ backfill.token = run[c].token
      BY <2>4 DEF RecordPage, Recordable
    <3>2. PageCovered(run[c], stored) /\ run[c].mode = "full"
      BY <1>1, <3>1, WholeMailbox DEF SyncInv, RunShape, At
    <3>. QED  BY <3>1, <3>2 DEF RecordedPage, PageCovered
  <2>5. ASSUME ~UNCHANGED vars
        PROVE  \/ backfill' = backfill
               \/ backfill' \in {ResumedBackfill, FailedBackfill}
               \/ \E c \in Callers : RecordPage(c)
    BY <1>1, <2>5 DEF Next, Arrive, Expire, Reconnect, Start, StartBackfill, StartPages, RunStep,
       FetchProfile, ListFullPage, ListHistoryPage, CursorExpired, PersistPage, ResumeBackfill,
       TallyPage, FinishBackfill, AdvancePage, StopAtLimit, LastPage, Finalize, Fail,
       FailInHandler, Crash, ReceivePage, durable
  <2>. QED  BY <2>2, <2>3, <2>4, <2>5
<1>2. Spec => [][continued]_vars
  BY <1>1, SyncInvariant, PTL DEF Spec
<1>. QED  BY <1>2 DEF BackfillResumes

(* Without date windows the cursor never passes a message that is not        *)
(* stored: this needs every cursor a run carries to be covered as well.      *)
THEOREM NoGapUndated == Undated => (Spec => []NoGap)
<1> SUFFICES ASSUME Undated PROVE Spec => []NoGap
  OBVIOUS
<1>1. Init => TypeOK /\ SyncInv /\ CursorInv
  BY InitType, InitSync, InitCursor
<1>2. TypeOK /\ SyncInv /\ CursorInv /\ [Next]_vars => (TypeOK /\ SyncInv /\ CursorInv)'
  BY NextType, NextSync, NextCursor
<1>3. CursorInv => NoGap
  BY DEF CursorInv, NoGap
<1>. QED  BY <1>1, <1>2, <1>3, PTL DEF Spec
-----------------------------------------------------------------------------
(* Without date windows the synchronisation implements the mailbox mirror:   *)
(* every step maps to a step of MailboxMirror or to a stutter.               *)

----------------------------------------------------------------------------
(* Nothing the program holds is ahead of the mailbox. *)

LEMMA NothingSeen ==
    ASSUME arrived \in Nat
    PROVE  Seen(NoToken) /\ NoCursor <= arrived
BY DEF Seen, NoToken, NoCursor

LEMMA FreshSeen ==
    ASSUME TypeOK, NEW c \in Callers, NEW path, NEW o, run'[c] = NewRun(path, o),
           arrived' = arrived
    PROVE  RunSeen(c)'
<1>1. arrived \in Nat
  BY DEF TypeOK
<1>2. /\ run'[c].msgs = {} /\ run'[c].cursor = NoCursor /\ run'[c].latest = NoCursor
      /\ run'[c].newCursor = NoCursor /\ run'[c].anchor = 0
      /\ run'[c].token = NoToken /\ run'[c].next = NoToken
  BY DEF NewRun
<1>. QED  BY <1>1, <1>2 DEF RunSeen, Seen, NoToken, NoCursor

LEMMA InitSeen == Init => SeenInv
<1> SUFFICES ASSUME Init PROVE SeenInv
  OBVIOUS
<1>1. arrived \in Nat /\ Seen(NoToken) /\ NoCursor <= arrived
  BY BoundsAssumption, NothingSeen DEF Init
<1>2. ASSUME NEW c \in Callers PROVE RunSeen(c)
  <2>1. /\ run[c].msgs = {} /\ run[c].cursor = NoCursor /\ run[c].latest = NoCursor
        /\ run[c].newCursor = NoCursor /\ run[c].anchor = 0
        /\ run[c].token = NoToken /\ run[c].next = NoToken
    BY DEF Init, NoRun, NewRun
  <2>. QED  BY <1>1, <2>1 DEF RunSeen
<1>3. stored = {} /\ sync.cursor = NoCursor /\ sync.token = NoToken /\ backfill.token = NoToken
  BY DEF Init, NoProgress, FreshBackfill
<1>. QED  BY <1>1, <1>2, <1>3 DEF SeenInv

(* A step of one run: what is left to show is its own locals and the tables. *)
LEMMA OneSeen ==
    ASSUME SeenInv, NEW c \in Callers, arrived' = arrived,
           \A d \in Callers \ {c} : run'[d] = run[d],
           RunSeen(c)', stored' \subseteq 1 .. arrived, sync'.cursor <= arrived,
           Seen(sync'.token), Seen(backfill'.token)
    PROVE  SeenInv'
<1>1. ASSUME NEW d \in Callers PROVE RunSeen(d)'
  <2>1. CASE d = c
    BY <2>1
  <2>2. CASE d # c
    <3>1. RunSeen(d) /\ run'[d] = run[d]
      BY <2>2 DEF SeenInv
    <3>. QED  BY <3>1 DEF RunSeen, Seen
  <2>. QED  BY <2>1, <2>2
<1>. QED  BY <1>1 DEF SeenInv, Seen

(* The page a provider answers with holds messages that have arrived. *)
LEMMA ListedSeen ==
    ASSUME TypeOK, SyncInv, SeenInv, NEW c \in Callers, ListFullPage(c) \/ ListHistoryPage(c)
    PROVE  RunSeen(c)'
<1> DEFINE r == run[c]
<1>1. /\ RunSeen(c) /\ r \in Run /\ arrived \in Nat /\ arrived <= MaxArrivals
      /\ MaxArrivals \in Nat
  BY BoundsAssumption DEF SeenInv, TypeOK
<1>2. ASSUME NEW msgs \in SUBSET Messages, NEW next \in Tokens, NEW newCursor \in Cursors,
             ReceivePage(c, msgs, next, newCursor), msgs \subseteq 1 .. arrived,
             Seen(next), newCursor <= arrived
      PROVE  RunSeen(c)'
  <2>1. arrived' = arrived
    BY <1>2 DEF ReceivePage, provider
  <2>2. /\ run'[c].msgs = msgs /\ run'[c].next = next /\ run'[c].newCursor = newCursor
        /\ run'[c].anchor = r.anchor /\ run'[c].token = r.token
        /\ run'[c].cursor = r.cursor /\ run'[c].latest = r.latest
    BY <1>2, ReceivedPage
  <2>. QED  BY <1>1, <1>2, <2>1, <2>2 DEF RunSeen, Seen
<1>3. CASE ListFullPage(c)
  <2> DEFINE top == IF r.token = NoToken THEN arrived ELSE r.token.pos
             page(cut) == {m \in r.opts.scope : cut < m /\ m <= top}
             more(cut) == \E m \in r.opts.scope : m <= cut
             next(cut) == IF more(cut) THEN FullToken(Anchor(r), cut) ELSE NoToken
             newCursor(cut) == IF more(cut) THEN NoCursor ELSE Anchor(r)
  <2>1. PICK cut \in 0 .. top : ReceivePage(c, page(cut), next(cut), newCursor(cut))
    BY <1>3 DEF ListFullPage
  <2>2. top \in Nat /\ top <= arrived /\ Anchor(r) \in Nat /\ Anchor(r) <= arrived
    BY <1>1, TokenType DEF Anchor, Run, RunSeen, Seen
  <2>3. page(cut) \in SUBSET Messages /\ page(cut) \subseteq 1 .. arrived
    BY <1>1, <2>1, <2>2 DEF Run, SyncOptions, Messages
  <2>4. next(cut) \in Tokens /\ Seen(next(cut))
    BY <1>1, <2>1, <2>2, NoTokenType, NothingSeen, IssuedToken DEF Seen
  <2>5. newCursor(cut) \in Cursors /\ newCursor(cut) <= arrived
    BY <1>1, <2>2, NothingSeen DEF Cursors
  <2> HIDE DEF page, next, newCursor
  <2>. QED  BY <1>2, <2>1, <2>3, <2>4, <2>5
<1>4. CASE ListHistoryPage(c)
  <2> DEFINE from == IF r.token = NoToken THEN r.cursor ELSE r.token.pos
             next(cut) == IF cut < arrived THEN HistoryToken(r.cursor, cut) ELSE NoToken
             newCursor(cut) == IF cut < arrived THEN NoCursor ELSE arrived
  <2>1. PICK cut \in from .. arrived :
          ReceivePage(c, (from + 1) .. cut, next(cut), newCursor(cut))
    BY <1>4 DEF ListHistoryPage
  <2>2. r.cursor \in Nat /\ r.cursor <= arrived
    BY <1>1, <1>4 DEF ListHistoryPage, Run, RunSeen, TypeOK, Cursors, NoCursor
  <2>3. from \in Nat /\ cut \in Nat /\ cut <= arrived
    BY <1>1, <2>1, <2>2, TokenType DEF Run
  <2>4. (from + 1) .. cut \in SUBSET Messages /\ (from + 1) .. cut \subseteq 1 .. arrived
    BY <1>1, <2>3 DEF Messages
  <2>5. next(cut) \in Tokens /\ Seen(next(cut))
    BY <1>1, <2>2, <2>3, NoTokenType, NothingSeen, IssuedToken DEF Seen
  <2>6. newCursor(cut) \in Cursors /\ newCursor(cut) <= arrived
    BY <1>1, NothingSeen, NoTokenType DEF Cursors
  <2> HIDE DEF from, next, newCursor
  <2>. QED  BY <1>2, <2>1, <2>4, <2>5, <2>6
<1>. QED  BY <1>3, <1>4

(* The progress a page loop stores *)
LEMMA ProgressSeen ==
    ASSUME TypeOK, SeenInv, NEW c \in Callers
    PROVE  Latest(run[c]) <= arrived /\ PageProgress(run[c]).cursor <= arrived
           /\ Seen(PageProgress(run[c]).token)
<1>1. Latest(run[c]) <= arrived
  BY DEF Latest, SeenInv, RunSeen
<1>. QED  BY <1>1 DEF PageProgress, SeenInv, RunSeen

LEMMA NextSeen ==
    ASSUME TypeOK, SyncInv, SeenInv, [Next]_vars
    PROVE  SeenInv'
<1> DEFINE others(c) == \A d \in Callers \ {c} : run'[d] = run[d]
<1>1. /\ run \in [Callers -> Run] /\ arrived \in Nat /\ Seen(NoToken) /\ NoCursor <= arrived
      /\ stored \subseteq 1 .. arrived /\ sync.cursor <= arrived
      /\ Seen(sync.token) /\ Seen(backfill.token) /\ \A c \in Callers : RunSeen(c)
  BY NothingSeen DEF TypeOK, SeenInv
<1>2. CASE Arrive \/ Expire \/ Reconnect \/ UNCHANGED vars
  <2>1. /\ run' = run /\ stored' = stored /\ sync' = sync /\ backfill' = backfill
        /\ arrived' \in {arrived, arrived + 1}
    BY <1>2 DEF Arrive, Expire, Reconnect, vars, provider, durable, memory
  <2>2. ASSUME NEW t \in Tokens, Seen(t) PROVE Seen(t)'
    BY <1>1, <2>1, <2>2, TokenType, NothingSeen DEF Seen, NoToken, NoCursor
  <2>3. ASSUME NEW n \in Cursors, n <= arrived PROVE n <= arrived'
    BY <1>1, <2>1, <2>3 DEF Cursors, NoCursor
  <2>4. ASSUME NEW c \in Callers PROVE RunSeen(c)'
    <3>1. RunSeen(c) /\ run[c] \in Run /\ run'[c] = run[c]
      BY <1>1, <2>1
    <3>2. /\ Seen(run[c].token)' /\ Seen(run[c].next)'
      BY <2>1, <2>2, <3>1 DEF RunSeen, Run
    <3>3. /\ run[c].cursor <= arrived' /\ run[c].latest <= arrived'
          /\ run[c].newCursor <= arrived' /\ run[c].anchor <= arrived'
      BY <2>3, <3>1 DEF RunSeen, Run, Cursors
    <3>4. run[c].msgs \subseteq 1 .. arrived'
      BY <1>1, <2>1, <3>1 DEF RunSeen
    <3>. QED  BY <2>1, <3>2, <3>3, <3>4 DEF RunSeen
  <2>5. Seen(sync.token)' /\ Seen(backfill.token)' /\ sync.cursor <= arrived'
    BY <1>1, <2>1, <2>2, <2>3 DEF TypeOK
  <2>. QED  BY <1>1, <2>1, <2>4, <2>5 DEF SeenInv
<1>3. ASSUME NEW c \in Callers, NEW o \in Options, Start(c, o) PROVE SeenInv'
  <2>1. /\ arrived' = arrived /\ stored' = stored /\ sync' = sync /\ backfill' = backfill
    BY <1>3 DEF Start, StartBackfill, StartPages, provider, durable
  <2>2. CASE StartBackfill(c, o)
    <3>1. others(c) /\ run'[c] = NewRun("backfill", o)
      BY <1>1, <2>2, Zenon DEF StartBackfill
    <3>. QED  BY <1>1, <2>1, <3>1, FreshSeen, OneSeen DEF Seen
  <2>3. CASE StartPages(c, o)
    <3> DEFINE t == run'[c]
    <3>1. /\ t.token \in {sync.token, NoToken} /\ t.latest \in {sync.cursor, NoCursor}
          /\ t.cursor = sync.cursor /\ t.anchor = 0 /\ t.msgs = {} /\ t.next = NoToken
          /\ t.newCursor = NoCursor /\ others(c)
      BY <2>3, PagesStart
    <3> HIDE DEF t
    <3>2. RunSeen(c)'
      BY <1>1, <2>1, <3>1 DEF RunSeen, Seen, t
    <3>. QED  BY <1>1, <2>1, <3>1, <3>2, OneSeen DEF Seen
  <2>. QED  BY <1>3, <2>2, <2>3 DEF Start
<1>4. ASSUME NEW c \in Callers, ListFullPage(c) \/ ListHistoryPage(c) PROVE SeenInv'
  <2>1. /\ arrived' = arrived /\ stored' = stored /\ sync' = sync /\ backfill' = backfill
    BY <1>4 DEF ListFullPage, ListHistoryPage, ReceivePage, provider, durable
  <2>2. others(c)
    BY <1>4, FullPageCovered, HistoryPageCovered DEF SyncInv
  <2>. QED  BY <1>1, <1>4, <2>1, <2>2, ListedSeen, OneSeen DEF Seen
<1>5. ASSUME NEW c \in Callers,
             \/ FetchProfile(c) \/ CursorExpired(c) \/ PersistPage(c) \/ ResumeBackfill(c)
             \/ RecordPage(c) \/ TallyPage(c) \/ LastPage(c)
      PROVE  SeenInv'
  <2>1. arrived' = arrived /\ others(c)
    BY <1>1, <1>5 DEF FetchProfile, CursorExpired, PersistPage, ResumeBackfill, RecordPage,
                      TallyPage, LastPage, provider, memory
  <2>2. RunSeen(c)'
    <3>1. /\ run'[c].msgs = run[c].msgs /\ run'[c].cursor = run[c].cursor
          /\ run'[c].newCursor = run[c].newCursor /\ run'[c].next = run[c].next
          /\ run'[c].latest \in {run[c].latest, Latest(run[c])}
          /\ run'[c].anchor \in {run[c].anchor, arrived}
          /\ run'[c].token \in {run[c].token, NoToken, ResumedBackfill.token}
      <4>1. CASE FetchProfile(c)
        BY <1>1, <4>1 DEF FetchProfile, Run
      <4>2. CASE CursorExpired(c)
        BY <1>1, <4>2 DEF CursorExpired, Run
      <4>3. CASE PersistPage(c) \/ TallyPage(c)
        BY <1>1, <4>3 DEF PersistPage, TallyPage, memory, Run
      <4>4. CASE ResumeBackfill(c)
        BY <1>1, <4>4 DEF ResumeBackfill, Run
      <4>5. CASE RecordPage(c)
        BY <1>1, <4>5 DEF RecordPage, Run
      <4>6. CASE LastPage(c)
        BY <1>1, <4>6 DEF LastPage, Run
      <4>. QED  BY <1>5, <4>1, <4>2, <4>3, <4>4, <4>5, <4>6
    <3>2. Seen(ResumedBackfill.token)
      BY <1>1 DEF ResumedBackfill, FreshBackfill, TypeOK
    <3>3. RunSeen(c) /\ Latest(run[c]) <= arrived
      BY <1>1, ProgressSeen
    <3>. QED  BY <1>1, <2>1, <3>1, <3>2, <3>3 DEF RunSeen, Seen
  <2>3. /\ stored' \in {stored, stored \cup run[c].msgs}
        /\ backfill' \in {backfill, ResumedBackfill, RecordedPage(run[c])}
        /\ sync' \in {sync, NoProgress(run[c].newCursor)}
    BY <1>5 DEF FetchProfile, CursorExpired, PersistPage, ResumeBackfill, RecordPage,
                TallyPage, LastPage, durable, RecordedPage
  <2>4. stored' \subseteq 1 .. arrived
    BY <1>1, <2>3 DEF RunSeen
  <2>5. Seen(backfill'.token)
    BY <1>1, <2>3 DEF ResumedBackfill, FreshBackfill, RecordedPage, RunSeen, TypeOK
  <2>6. sync'.cursor <= arrived /\ Seen(sync'.token)
    BY <1>1, <2>3 DEF NoProgress, RunSeen
  <2>. QED  BY <2>1, <2>2, <2>4, <2>5, <2>6, OneSeen DEF Seen
<1>6. ASSUME NEW c \in Callers, AdvancePage(c) PROVE SeenInv'
  <2>1. /\ arrived' = arrived /\ stored' = stored /\ sync' = PageProgress(run[c])
        /\ backfill' = backfill
    BY <1>6 DEF AdvancePage, provider
  <2> DEFINE t == run'[c]
             r == run[c]
  <2>2. /\ t.token = r.next /\ t.latest = Latest(r) /\ t.cursor \in {NoCursor, r.cursor}
        /\ t.anchor = r.anchor /\ t.msgs = r.msgs /\ t.next = r.next
        /\ t.newCursor = r.newCursor /\ others(c)
    BY <1>6, PageAdvance
  <2> HIDE DEF t
  <2>3. RunSeen(c)'
    BY <1>1, <2>1, <2>2, ProgressSeen DEF RunSeen, Seen, t
  <2>. QED  BY <1>1, <2>1, <2>2, <2>3, ProgressSeen, OneSeen DEF Seen
<1>7. ASSUME NEW c \in Callers,
             \/ FinishBackfill(c) \/ StopAtLimit(c) \/ Finalize(c) \/ Fail(c)
             \/ FailInHandler(c)
      PROVE  SeenInv'
  <2>1. arrived' = arrived /\ stored' = stored /\ others(c) /\ run'[c] = NoRun
    BY <1>1, <1>7 DEF FinishBackfill, StopAtLimit, Finalize, Fail, FailInHandler,
                      ReleaseRun, provider, durable
  <2>2. /\ backfill' \in {backfill, FailedBackfill}
        /\ \/ sync' \in {sync, PageProgress(run[c])}
           \/ sync' \in {NoProgress(run[c].latest), NoProgress(sync.cursor)}
    BY <1>7 DEF FinishBackfill, StopAtLimit, Finalize, Fail, FailInHandler, durable
  <2>3. Seen(backfill'.token)
    BY <1>1, <2>2 DEF FailedBackfill, FreshBackfill, TypeOK
  <2>4. sync'.cursor <= arrived /\ Seen(sync'.token)
    BY <1>1, <2>2, ProgressSeen DEF NoProgress, RunSeen
  <2>5. RunSeen(c)'
    BY <2>1, FreshSeen DEF NoRun
  <2>. QED  BY <1>1, <2>1, <2>3, <2>4, <2>5, OneSeen DEF Seen
<1>8. CASE Crash
  <2>1. /\ arrived' = arrived /\ stored' = stored /\ sync' = sync /\ backfill' = backfill
        /\ \A c \in Callers : run'[c] = NoRun
    BY <1>8 DEF Crash, provider, durable
  <2>2. \A c \in Callers : RunSeen(c)'
    BY <2>1, FreshSeen DEF NoRun
  <2>. QED  BY <1>1, <2>1, <2>2 DEF SeenInv, Seen
<1>. QED  BY <1>2, <1>3, <1>4, <1>5, <1>6, <1>7, <1>8 DEF Next, RunStep

----------------------------------------------------------------------------
(* The refinement *)

Watermark == IF backfill.status = "completed" THEN sync.cursor ELSE NoCursor

(* Messages 1..n are mirrored when the cursor n has passed them. *)
LEMMA CoveredPrefix ==
    ASSUME arrived \in Nat, arrived <= MaxArrivals, NEW n \in Cursors, n <= arrived, Have(0, n)
    PROVE  n = NoCursor \/ (n \in 0 .. arrived /\ 1 .. n \subseteq stored)
BY BoundsAssumption DEF Have, HaveIn, Messages, Cursors, NoCursor

LEMMA InitMirror == Init => Mirror!Init
BY BoundsAssumption DEF Init, Mirror!Init, FreshBackfill, NoProgress

LEMMA StepMirror ==
    ASSUME Undated, TypeOK, TypeOK', SyncInv, SeenInv, SeenInv', CursorInv, CursorInv',
           [Next]_vars
    PROVE  [Mirror!Next]_<<arrived, stored, Watermark>>
<1>1. /\ arrived \in Nat /\ arrived <= MaxArrivals /\ stored \subseteq 1 .. arrived
      /\ sync'.cursor \in Cursors /\ stored' \subseteq 1 .. arrived'
  BY BoundsAssumption DEF TypeOK, SeenInv
<1>2. CASE Arrive \/ Expire \/ Reconnect \/ UNCHANGED vars
  <2>1. /\ stored' = stored /\ Watermark' = Watermark
        /\ arrived' \in {arrived, arrived + 1}
    BY <1>2 DEF Arrive, Expire, Reconnect, vars, provider, durable, Watermark
  <2>. QED  BY <2>1 DEF Mirror!Next, Mirror!Arrive, Watermark
<1>3. CASE \E c \in Callers : PersistPage(c)
  <2>1. /\ arrived' = arrived /\ stored \subseteq stored' /\ Watermark' = Watermark
    BY <1>3 DEF PersistPage, provider, Watermark
  <2>. QED  BY <1>1, <2>1 DEF Mirror!Next, Mirror!Copy, Watermark
<1>4. CASE Next /\ ~(\E c \in Callers : PersistPage(c)) /\ ~(Arrive \/ Expire \/ Reconnect)
  <2>1. arrived' = arrived /\ stored' = stored
    BY <1>4 DEF Next, Start, StartBackfill, StartPages, RunStep, FetchProfile, ListFullPage,
       ListHistoryPage, CursorExpired, ResumeBackfill, RecordPage, TallyPage, FinishBackfill,
       AdvancePage, StopAtLimit, LastPage, Finalize, Fail, FailInHandler, Crash, ReceivePage,
       provider, durable
  <2>2. Watermark' \in Cursors /\ Watermark' <= arrived /\ Have(0, Watermark')
    BY <1>1, <2>1, NothingSeen, NoTokenType
       DEF Watermark, SeenInv, CursorInv, Have, HaveIn, NoCursor, Messages
  <2>3. Watermark' = NoCursor \/ (Watermark' \in 0 .. arrived /\ 1 .. Watermark' \subseteq stored)
    BY <1>1, <2>2, CoveredPrefix
  <2>. QED  BY <2>1, <2>3 DEF Mirror!Next, Mirror!Mark, Mirror!Unmark, Watermark
<1>. QED  BY <1>2, <1>3, <1>4

(* What holds of every reachable state, with nothing left out: the tables,   *)
(* the run in progress and the mailbox agree.                                *)
THEOREM InductiveInvariant == Spec => []IInv
<1>1. Init => IInv
  BY InitType, InitSync, InitSeen, InitCursor DEF IInv
<1>2. IInv /\ [Next]_vars => IInv'
  <2>1. ASSUME IInv, [Next]_vars PROVE Undated => CursorInv'
    BY <2>1, NextCursor DEF IInv
  <2>. QED  BY <2>1, NextType, NextSync, NextSeen DEF IInv, Undated
<1>. QED  BY <1>1, <1>2, PTL DEF Spec

(* Without date windows the runs of the sync service only ever do what the   *)
(* mailbox mirror allows: they copy messages that have arrived, and they set *)
(* the cursor incremental syncs start from to a point below which all of     *)
(* them are stored, or give it up.                                           *)
THEOREM SyncImplementsMirror == Undated => (Spec => ImplementsMirror)
<1> SUFFICES ASSUME Undated PROVE Spec => ImplementsMirror
  OBVIOUS
<1>1. Init => TypeOK /\ SyncInv /\ SeenInv /\ CursorInv
  BY InitType, InitSync, InitSeen, InitCursor
<1>2. TypeOK /\ SyncInv /\ SeenInv /\ CursorInv /\ [Next]_vars
        => (TypeOK /\ SyncInv /\ SeenInv /\ CursorInv)'
  BY NextType, NextSync, NextSeen, NextCursor
<1>3. TypeOK /\ SyncInv /\ SeenInv /\ CursorInv /\ (TypeOK /\ SyncInv /\ SeenInv /\ CursorInv)'
        /\ [Next]_vars => [Mirror!Next]_<<arrived, stored, Watermark>>
  BY StepMirror
<1>4. Spec => Mirror!Init /\ [][Mirror!Next]_<<arrived, stored, Watermark>>
  BY <1>1, <1>2, <1>3, InitMirror, PTL DEF Spec
<1>. QED  BY <1>4 DEF ImplementsMirror, Mirror!Spec, Mirror!mirrorVars, Watermark
=============================================================================
