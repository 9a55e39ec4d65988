--------------------------- MODULE AccountsProofs ---------------------------
(***************************************************************************)
(* Credentials and connections stay accounted for, and what the user is    *)
(* told stays true, for any number of mailboxes, requests, nonces, grants, *)
(* updates and failures.                                                   *)
(***************************************************************************)
EXTENDS Accounts, WellFoundedInduction, TLAPS

Connection == [since : 1 .. MaxGrants, reauth : BOOLEAN]

\* Connections and credentials are of grants that were issued, no two connections
\* of the same.
TablesInv ==
  /\ rows \in [Accounts -> {None} \cup Connection]
  /\ secrets \in [Accounts -> {None} \cup 1 .. MaxGrants]
  /\ keys \subseteq {"client", "azure"} /\ schema \in BOOLEAN
  /\ grants \in 0 .. MaxGrants /\ revoked \subseteq 1 .. grants
  /\ history \in History /\ faults \in Nat
  /\ history.parted # {} => history.interrupted
  /\ ~schema => Connected = {}
  /\ \A a \in Accounts : /\ secrets[a] # None => secrets[a] <= grants
                         /\ rows[a] # None => rows[a].since <= grants
  /\ \A a, b \in Connected : rows[a].since = rows[b].since => a = b

\* What a request waits for is complete, and its grant was issued.
WellTask(t, issuedGrants) ==
  /\ t \in TaskTypes
  /\ t.sync => t.at \in {"refreshing", "requesting"}
  /\ t.at \in {"resolved", "refreshing", "requesting"} => t.account \in Accounts
  /\ t.at \in {"refreshing", "requesting"} => t.grant \in 1 .. MaxGrants
  /\ t.at \in {"collected", "wiping"} => t.grant \in 0 .. MaxGrants
  /\ t.grant # None => t.grant <= issuedGrants

\* A sync run or a wipe has the run lock.
Locking(t) == t.sync \/ t.at \in {"collected", "wiping"}
LockInv ==
  /\ lock = Free \/ (lock \in Requests /\ Locking(task[lock]))
  /\ \A r \in Requests : Locking(task[r]) => lock = r

TasksInv ==
  /\ task \in [Requests -> TaskTypes]
  /\ \A r \in Requests : WellTask(task[r], grants)
  /\ LockInv

\* A nonce that is still good has let nobody through.
NonceInv ==
  /\ issued \in [States -> {"unused", "pending", "expired", "gone"}]
  /\ redeemed \in [States -> {0, 1}]
  /\ \A s \in States : issued[s] # "gone" => redeemed[s] = 0

\* The settings in force are valid.
SettingsInv ==
  /\ settings \in Settings /\ Valid(settings)
  /\ stored \in Settings \cup {None} /\ job \in BOOLEAN
  /\ ~schema => stored = None
  /\ SettingsAgree

\* Unless something overlapped, a credential that is being refreshed is there, and an
\* exchange ends with the tables in place.
CredentialInv ==
  /\ NoCredentialLeftBehind
  /\ ~history.overlapped =>
       \A r \in Requests : /\ task[r].at = "refreshing" => secrets[task[r].account] # None
                           /\ task[r].at = "exchanging" => schema

LEMMA CredentialsInFlight ==
  ASSUME CredentialInv, ~history.overlapped, NEW r \in Requests
  PROVE  /\ task[r].at = "refreshing" => secrets[task[r].account] # None
         /\ task[r].at = "exchanging" => schema
BY DEF CredentialInv

\* A wipe meets no connection it did not collect but those made since; and, unless
\* something overlapped, when it has deleted the credentials it collected, it meets only
\* newer ones in their place.
Collected(r) == task[r].at \in {"collected", "wiping"}
WipeInv ==
  \A r \in Requests :
    /\ Collected(r) => \A a \in Connected : a \notin task[r].refs => rows[a].since > task[r].grant
    /\ ~history.overlapped /\ task[r].at = "wiping" =>
         /\ \A a \in task[r].refs : secrets[a] # None => secrets[a] > task[r].grant
         /\ \A p \in Requests :
              task[p].at = "refreshing" /\ task[p].account \in task[r].refs =>
                task[p].grant > task[r].grant

\* Connections are made and used with the client they were authorised by.
KeysInv ==
  (/\ schema /\ ~Wiping /\ ~history.interrupted
   /\ Connected # {} \/ \E r \in Requests : task[r].at = "exchanging")
  => "client" \in keys

ConnectionsInv ==
  /\ TablesInv /\ TasksInv /\ SettingsInv
  /\ ConnectionsHaveCredentials /\ CredentialInv /\ WipeInv
  /\ KeysInv /\ ReauthJustified

AccountsInv == ConnectionsInv /\ NonceInv

-----------------------------------------------------------------------------
\* The lock follows the task that takes it, has it or gives it back.
LEMMA LockMoves ==
  ASSUME LockInv, DOMAIN task = Requests, NEW r \in Requests, NEW new,
         task' = [task EXCEPT ![r] = new],
         \/ lock' = lock /\ (Locking(new) <=> Locking(task[r]))
         \/ lock' = r /\ lock \in {Free, r} /\ Locking(new)
         \/ lock' = Free /\ lock \in {Free, r} /\ ~Locking(new)
  PROVE  LockInv'
<1>1. task'[r] = new /\ \A p \in Requests : p # r => task'[p] = task[p]
  OBVIOUS
<1>2. Free \notin Requests
  BY ValuesDiffer
<1> QED BY <1>1, <1>2 DEF LockInv, Locking

LEMMA IdleTask == WellTask(Idle, 0) /\ ~Locking(Idle) /\ Idle.at = "idle" /\ Idle.grant = None
BY ValuesDiffer DEF WellTask, TaskTypes, Idle, Locking

LEMMA LaterGrants ==
  ASSUME NEW t, NEW g \in Nat, NEW h \in Nat, g <= h, WellTask(t, g), MaxGrants \in Nat
  PROVE  WellTask(t, h)
BY ValuesDiffer DEF WellTask, TaskTypes

\* A task that waits for Google with a credential.
LEMMA WaitingTask ==
  ASSUME TablesInv, NEW sync \in BOOLEAN, NEW a \in Accounts, secrets[a] # None,
         NEW at \in {"refreshing", "requesting"}
  PROVE  /\ WellTask(Waiting(at, sync, a, secrets[a]), grants)
         /\ Locking(Waiting(at, sync, a, secrets[a])) <=> sync
         /\ Waiting(at, sync, a, secrets[a]).at = at
         /\ Waiting(at, sync, a, secrets[a]).account = a
         /\ Waiting(at, sync, a, secrets[a]).grant = secrets[a]
BY DEF WellTask, TaskTypes, Waiting, Locking, TablesInv

LEMMA NoneDiffers == None \notin Connection /\ None \notin Nat /\ None \notin Accounts
<1>1. None \notin [since : Nat, reauth : BOOLEAN]
  BY ValuesDiffer
<1>2. 1 .. MaxGrants \subseteq Nat
  BY BoundsAreNat
<1>3. \A c \in Connection : c \in [since : Nat, reauth : BOOLEAN]
  BY <1>2 DEF Connection
<1> QED BY <1>1, <1>3, ValuesDiffer

\* Of some connections one is the newest.
LEMMA NewestExists ==
  ASSUME TablesInv, NEW S, S \subseteq Connected, S # {}
  PROVE  NewestOf(S) \in S /\ \A b \in S : rows[b].since <= rows[NewestOf(S)].since
<1> DEFINE age(a) == MaxGrants - rows[a].since
           T == {age(a) : a \in S}
<1>1. \A a \in S : rows[a].since \in 1 .. MaxGrants
  BY DEF TablesInv, Connected, Connection
<1>2. T \subseteq Nat /\ T # {}
  BY <1>1, BoundsAreNat
<1>3. PICK x \in T : \A y \in T : ~(<<y, x>> \in OpToRel(<, Nat))
  <2> HIDE DEF T
  <2> QED BY <1>2, WFMin, NatLessThanWellFounded
<1>4. \A y \in T : ~(y < x)
  BY <1>2, <1>3 DEF OpToRel
<1>5. PICK a \in S : x = age(a)
  BY <1>3
<1>6. \A b \in S : rows[b].since <= rows[a].since
  BY <1>1, <1>4, <1>5, BoundsAreNat
<1> QED BY <1>6 DEF NewestOf

LEMMA DefaultConnected ==
  ASSUME TablesInv, Default # None
  PROVE  Default \in Connected
BY NewestExists DEF Default, Connected

-----------------------------------------------------------------------------
\* A connection may be marked, for a reason, and nothing else happens to it.
Remarked ==
  /\ rows' \in [Accounts -> {None} \cup Connection]
  /\ \A a \in Accounts : /\ rows'[a] = None <=> rows[a] = None
                         /\ rows[a] # None => rows'[a].since = rows[a].since
Reasoned == rows' = rows \/ revoked # {} \/ faults' # 0 \/ history.interrupted

\* What a request does on its own, apart from nonces, leaves credentials, settings and
\* tables alone.
Quiet(r) ==
  /\ \E new : /\ task' = [task EXCEPT ![r] = new]
              /\ WellTask(new, grants)
              /\ new.at \notin {"collected", "wiping"}
              /\ new.at = "refreshing" => /\ secrets[new.account] # None
                                          /\ new.grant = secrets[new.account]
              /\ new.at = "exchanging" => schema /\ "client" \in keys
  /\ ~Collected(r)
  /\ LockInv' /\ Remarked /\ Reasoned
  /\ faults' \in Nat /\ faults <= faults'
  /\ UNCHANGED <<credentials, keys, schema, settings, stored, job, history>>

LEMMA NobodyWipes ==
  ASSUME TasksInv, NEW r, lock \in {Free, r}, ~Collected(r)
  PROVE  ~Wiping /\ BeingWiped = {}
BY ValuesDiffer DEF TasksInv, LockInv, Locking, Wiping, BeingWiped, Collected

LEMMA RejectedMarks ==
  ASSUME TablesInv, NEW r, NEW sync \in BOOLEAN, NEW a \in Accounts, Rejected(r, sync, a)
  PROVE  /\ Remarked
         /\ rows' = rows \/ (sync /\ rows[a] # None)
<1>1. rows' = IF sync /\ rows[a] # None THEN [rows EXCEPT ![a].reauth = TRUE] ELSE rows
  BY DEF Rejected
<1>2. rows \in [Accounts -> {None} \cup Connection]
  BY DEF TablesInv
<1>3. CASE sync /\ rows[a] # None
  <2>1. rows[a] \in Connection
    BY <1>2, <1>3
  <2>2. rows' = [rows EXCEPT ![a] = [rows[a] EXCEPT !.reauth = TRUE]]
    BY <1>1, <1>3
  <2>3. /\ [rows[a] EXCEPT !.reauth = TRUE] \in Connection
        /\ [rows[a] EXCEPT !.reauth = TRUE].since = rows[a].since
    BY <2>1 DEF Connection
  <2>4. /\ rows'[a] = [rows[a] EXCEPT !.reauth = TRUE]
        /\ \A b \in Accounts : b # a => rows'[b] = rows[b]
    BY <1>2, <2>2
  <2>5. Remarked
    BY <1>2, <1>3, <2>2, <2>3, <2>4, NoneDiffers DEF Remarked
  <2> QED BY <1>3, <2>5
<1>4. CASE ~(sync /\ rows[a] # None)
  BY <1>1, <1>2, <1>4 DEF Remarked
<1> QED BY <1>3, <1>4

\* Who may mark a connection has a reason to: its credential or the client is missing.
LEMMA NextRequestMoves ==
  ASSUME TablesInv, TasksInv, ConnectionsHaveCredentials, KeysInv,
         NEW r \in Requests, NEW sync \in BOOLEAN, NEW a \in Accounts,
         NextRequest(r, sync, a),
         ~Collected(r), task[r].sync => sync, sync => lock \in {Free, r}
  PROVE  /\ \E new : /\ task' = [task EXCEPT ![r] = new]
                     /\ WellTask(new, grants)
                     /\ new.at \in {"idle", "refreshing", "requesting"}
                     /\ new.at = "refreshing" => /\ secrets[new.account] # None
                                                 /\ new.grant = secrets[new.account]
         /\ LockInv' /\ Remarked /\ Reasoned
         /\ faults' \in Nat /\ faults <= faults'
<1>1. LockInv /\ DOMAIN task = Requests /\ WellTask(Idle, grants)
  <2>1. grants \in Nat /\ 0 \in Nat /\ 0 <= grants
    BY BoundsAreNat DEF TablesInv
  <2> QED BY <2>1, IdleTask, LaterGrants, BoundsAreNat DEF TasksInv
<1>2. ~sync => ~Locking(task[r])
  BY DEF Locking, Collected
<1>3. CASE \E at \in {"refreshing", "requesting"} :
              /\ secrets[a] # None
              /\ task' = [task EXCEPT ![r] = Waiting(at, sync, a, secrets[a])]
              /\ lock' = IF sync THEN r ELSE lock
              /\ UNCHANGED <<rows, faults>>
  <2>1. PICK at \in {"refreshing", "requesting"} :
              /\ secrets[a] # None
              /\ task' = [task EXCEPT ![r] = Waiting(at, sync, a, secrets[a])]
              /\ lock' = IF sync THEN r ELSE lock
              /\ UNCHANGED <<rows, faults>>
    BY <1>3
  <2> DEFINE new == Waiting(at, sync, a, secrets[a])
  <2>2. /\ WellTask(new, grants)
        /\ Locking(new) <=> sync
        /\ new.at = at /\ new.account = a /\ new.grant = secrets[a]
    BY <2>1, WaitingTask
  <2>a. task' = [task EXCEPT ![r] = new]
    BY <2>1
  <2> HIDE DEF new
  <2>b. \/ lock' = lock /\ (Locking(new) <=> Locking(task[r]))
        \/ lock' = r /\ lock \in {Free, r} /\ Locking(new)
    <3>1. CASE sync
      BY <2>1, <2>2, <3>1
    <3>2. CASE ~sync
      BY <1>2, <2>1, <2>2, <3>2
    <3> QED BY <3>1, <3>2
  <2>3. LockInv'
    BY <1>1, <2>a, <2>b, LockMoves
  <2>4. Remarked /\ Reasoned
    BY <2>1 DEF Remarked, Reasoned, TablesInv
  <2>5. faults' \in Nat /\ faults <= faults'
    BY <2>1 DEF TablesInv
  <2>6. /\ new.at \in {"idle", "refreshing", "requesting"}
        /\ new.at = "refreshing" => /\ secrets[new.account] # None
                                    /\ new.grant = secrets[new.account]
    BY <2>1, <2>2
  <2> QED BY <2>a, <2>2, <2>3, <2>4, <2>5, <2>6
<1>4. CASE Rejected(r, sync, a) /\ \/ UNCHANGED faults /\ secrets[a] = None
                                   \/ UNCHANGED faults /\ "client" \notin keys
                                   \/ Fault
  <2>1. task' = [task EXCEPT ![r] = Idle] /\ lock' = IF sync THEN Free ELSE lock
    BY <1>4 DEF Rejected
  <2>2. LockInv'
    BY <1>1, <1>2, <2>1, IdleTask, LockMoves
  <2>3. Remarked /\ (rows' = rows \/ (sync /\ rows[a] # None))
    BY <1>4, RejectedMarks
  <2>4. faults' \in Nat /\ faults <= faults' /\ (Fault => faults' # 0)
    BY <1>4 DEF TablesInv, Fault
  <2>5. ASSUME ~Fault, sync, rows[a] # None PROVE Reasoned
    <3>1. ~Wiping /\ BeingWiped = {}
      BY <2>5, NobodyWipes
    <3>2. schema /\ a \in Connected
      BY <2>5 DEF TablesInv, Connected
    <3>3. history.interrupted
      <4>1. CASE secrets[a] = None
        <5>1. a \in history.parted
          BY <3>1, <3>2, <4>1 DEF ConnectionsHaveCredentials
        <5> QED BY <5>1 DEF TablesInv
      <4>2. CASE "client" \notin keys
        BY <3>1, <3>2, <4>2 DEF KeysInv
      <4> QED BY <1>4, <2>5, <4>1, <4>2
    <3>4. Reasoned
      BY <3>3 DEF Reasoned
    <3> QED BY <3>4
  <2>6. Reasoned
    BY <2>3, <2>4, <2>5 DEF Reasoned
  <2> QED BY <1>1, <2>1, <2>2, <2>3, <2>4, <2>6, IdleTask
<1> QED BY <1>3, <1>4 DEF NextRequest

\* A request that is done, or given up, for a reason.
LEMMA EndQuiet ==
  ASSUME AccountsInv, NEW r \in Requests, ~Collected(r),
         task' = [task EXCEPT ![r] = Idle],
         lock' = IF task[r].sync THEN Free ELSE lock,
         Remarked, Reasoned, faults' \in Nat, faults <= faults',
         UNCHANGED <<credentials, keys, schema, settings, stored, job, history>>
  PROVE  Quiet(r)
<1>1. LockInv /\ DOMAIN task = Requests /\ WellTask(Idle, grants)
  <2>1. grants \in Nat /\ 0 \in Nat /\ 0 <= grants
    BY BoundsAreNat DEF AccountsInv, ConnectionsInv, TablesInv
  <2> QED BY <2>1, IdleTask, LaterGrants, BoundsAreNat DEF AccountsInv, ConnectionsInv, TasksInv
<1>2. \/ lock' = lock /\ (Locking(Idle) <=> Locking(task[r]))
      \/ lock' = Free /\ lock \in {Free, r} /\ ~Locking(Idle)
  <2>1. CASE task[r].sync
    BY <1>1, <2>1, IdleTask DEF LockInv, Locking
  <2>2. CASE ~task[r].sync
    BY <2>2, IdleTask DEF Locking, Collected
  <2> QED BY <2>1, <2>2
<1>3. LockInv'
  BY <1>1, <1>2, LockMoves
<1> QED BY <1>1, <1>3, IdleTask DEF Quiet

LEMMA NextRequestQuiet ==
  ASSUME AccountsInv, NEW r \in Requests, NEW sync \in BOOLEAN, NEW a \in Accounts,
         NextRequest(r, sync, a),
         ~Collected(r), task[r].sync => sync, sync => lock \in {Free, r},
         UNCHANGED <<credentials, keys, schema, settings, stored, job, history>>
  PROVE  Quiet(r)
<1>1. /\ \E new : /\ task' = [task EXCEPT ![r] = new]
                  /\ WellTask(new, grants)
                  /\ new.at \in {"idle", "refreshing", "requesting"}
                  /\ new.at = "refreshing" => /\ secrets[new.account] # None
                                              /\ new.grant = secrets[new.account]
      /\ LockInv' /\ Remarked /\ Reasoned
      /\ faults' \in Nat /\ faults <= faults'
  BY NextRequestMoves DEF AccountsInv, ConnectionsInv
<1> QED BY <1>1 DEF Quiet

LEMMA SameRows == ASSUME TablesInv, UNCHANGED rows PROVE Remarked /\ Reasoned
BY DEF TablesInv, Remarked, Reasoned

LEMMA QuietSteps ==
  ASSUME AccountsInv, NEW r \in Requests,
         \/ Callback(r) \/ ExchangeFails(r) \/ StartSync(r) \/ OpenMessage(r)
         \/ ReadMessage(r) \/ RefreshRejected(r) \/ Answered(r)
         \/ AnsweredUnauthorized(r) \/ RequestFails(r)
  PROVE  Quiet(r)
<1> DEFINE t == task[r]
<1>1. /\ TablesInv /\ TasksInv /\ LockInv /\ DOMAIN task = Requests
      /\ WellTask(t, grants) /\ t \in TaskTypes /\ t.sync \in BOOLEAN
      /\ t.sync => lock = r
  BY DEF AccountsInv, ConnectionsInv, TasksInv, LockInv, Locking, TaskTypes
<1>2. /\ faults \in Nat /\ faults <= faults
      /\ Fault => faults' \in Nat /\ faults <= faults' /\ faults' # 0
  BY <1>1 DEF TablesInv, Fault
<1>3. ASSUME t.sync PROVE t.at \in {"refreshing", "requesting"}
  BY <1>1, <1>3 DEF WellTask
<1>4. ASSUME t.at \in {"resolved", "refreshing", "requesting"} PROVE t.account \in Accounts
  BY <1>1, <1>4 DEF WellTask
<1>5. WellTask(Idle, grants)
  <2>1. grants \in Nat /\ 0 \in Nat /\ 0 <= grants
    BY <1>1, BoundsAreNat DEF TablesInv
  <2> QED BY <2>1, IdleTask, LaterGrants, BoundsAreNat
<1>a. CASE Callback(r)
  <2>1. t = Idle /\ schema
        /\ UNCHANGED <<rows, secrets, keys, schema, settings, stored, job, lock, grants,
                       revoked, history, faults, updates>>
    BY <1>a DEF Callback
  <2>2. PICK new : /\ task' = [task EXCEPT ![r] = new]
                   /\ \/ new = Idle
                      \/ /\ "client" \in keys
                         /\ new = Waiting("exchanging", FALSE, None, None)
    <3>1. CASE task' = task
      <4>1. task = [task EXCEPT ![r] = task[r]]
        BY <1>1 DEF TasksInv
      <4> QED BY <2>1, <3>1, <4>1
    <3>2. CASE /\ "client" \in keys
               /\ task' = [task EXCEPT ![r] = Waiting("exchanging", FALSE, None, None)]
      BY <3>2
    <3> QED BY <1>a, <3>1, <3>2 DEF Callback
  <2>3. WellTask(new, grants) /\ ~Locking(new) /\ new.at \in {"idle", "exchanging"}
        /\ (new.at = "exchanging" => "client" \in keys)
    <3>1. CASE new = Idle
      BY <1>5, <3>1, IdleTask
    <3>2. CASE "client" \in keys /\ new = Waiting("exchanging", FALSE, None, None)
      BY <3>2 DEF Waiting, WellTask, TaskTypes, Locking
    <3> QED BY <2>2, <3>1, <3>2
  <2>4. LockInv'
    <3>1. ~Locking(t)
      BY <2>1, IdleTask
    <3>2. lock' = lock /\ (Locking(new) <=> Locking(t)) /\ task' = [task EXCEPT ![r] = new]
      BY <2>1, <2>2, <2>3, <3>1
    <3> QED BY <1>1, <3>2, LockMoves
  <2>5. /\ \E n : /\ task' = [task EXCEPT ![r] = n]
                  /\ WellTask(n, grants)
                  /\ n.at \notin {"collected", "wiping"}
                  /\ n.at = "refreshing" => /\ secrets[n.account] # None
                                            /\ n.grant = secrets[n.account]
                  /\ n.at = "exchanging" => schema /\ "client" \in keys
    BY <2>1, <2>2, <2>3
  <2>6. ~Collected(r) /\ Remarked /\ Reasoned
    BY <1>1, <2>1, IdleTask, SameRows DEF Collected
  <2> QED BY <1>2, <2>1, <2>4, <2>5, <2>6 DEF Quiet, credentials
<1>b. CASE ExchangeFails(r)
  <2>1. ~Collected(r) /\ ~t.sync
    BY <1>3, <1>b DEF ExchangeFails, Collected
  <2> QED BY <1>1, <1>2, <1>b, <2>1, SameRows, EndQuiet DEF ExchangeFails, tables, credentials
<1>c. CASE StartSync(r)
  <2>1. ~Collected(r) /\ ~t.sync
    BY <1>c, IdleTask DEF StartSync, Idle, Collected
  <2>2. Default \in Accounts
    BY <1>1, <1>c, DefaultConnected DEF StartSync, Connected
  <2> QED BY <1>c, <2>1, <2>2, NextRequestQuiet DEF StartSync, credentials
<1>d. CASE OpenMessage(r)
  <2>1. ~Collected(r) /\ ~t.sync /\ ~Locking(t)
    BY <1>d, IdleTask DEF OpenMessage, Idle, Collected
  <2>2. Default \in Accounts
    BY <1>1, <1>d, DefaultConnected DEF OpenMessage, Connected
  <2>3. PICK new : new = Waiting("resolved", FALSE, Default, None)
    OBVIOUS
  <2>4. WellTask(new, grants) /\ ~Locking(new) /\ new.at = "resolved"
    BY <2>2, <2>3 DEF Waiting, WellTask, TaskTypes, Locking
  <2>5. task' = [task EXCEPT ![r] = new] /\ lock' = lock
    BY <1>d, <2>3 DEF OpenMessage
  <2>6. LockInv'
    BY <1>1, <2>1, <2>4, <2>5, LockMoves
  <2>7. \E n : /\ task' = [task EXCEPT ![r] = n]
               /\ WellTask(n, grants)
               /\ n.at \notin {"collected", "wiping"}
               /\ n.at = "refreshing" => /\ secrets[n.account] # None
                                         /\ n.grant = secrets[n.account]
               /\ n.at = "exchanging" => schema /\ "client" \in keys
    BY <2>4, <2>5
  <2>8. Remarked /\ Reasoned
    BY <1>1, <1>d, SameRows DEF OpenMessage, tables
  <2> QED BY <1>2, <1>d, <2>1, <2>6, <2>7, <2>8 DEF Quiet, OpenMessage, tables, credentials
<1>e. CASE ReadMessage(r)
  <2>1. ~Collected(r) /\ ~t.sync /\ t.account \in Accounts
    BY <1>3, <1>4, <1>e DEF ReadMessage, Collected
  <2> QED BY <1>e, <2>1, NextRequestQuiet DEF ReadMessage, credentials
<1>f. CASE RefreshRejected(r) \/ AnsweredUnauthorized(r)
  <2>1. /\ ~Collected(r) /\ t.account \in Accounts
        /\ Rejected(r, t.sync, t.account)
        /\ (revoked # {} /\ UNCHANGED faults) \/ Fault
        /\ UNCHANGED <<issued, credentials, keys, schema, settings, stored, job,
                       redeemed, history, updates>>
    BY <1>4, <1>f DEF RefreshRejected, AnsweredUnauthorized, Collected
  <2>2. Remarked
    BY <1>1, <2>1, RejectedMarks
  <2>3. Reasoned /\ faults' \in Nat /\ faults <= faults'
    BY <1>2, <2>1 DEF Reasoned
  <2>4. task' = [task EXCEPT ![r] = Idle] /\ lock' = IF t.sync THEN Free ELSE lock
    BY <2>1 DEF Rejected
  <2> QED BY <2>1, <2>2, <2>3, <2>4, EndQuiet
<1>g. CASE Answered(r)
  <2>1. ~Collected(r) /\ t.account \in Accounts
        /\ UNCHANGED <<issued, credentials, keys, schema, settings, stored, job,
                       redeemed, history, updates>>
    BY <1>4, <1>g DEF Answered, Collected
  <2>2. CASE t.sync /\ NextRequest(r, TRUE, t.account)
    BY <1>1, <2>1, <2>2, NextRequestQuiet
  <2>3. CASE /\ task' = [task EXCEPT ![r] = Idle]
             /\ lock' = IF t.sync THEN Free ELSE lock
             /\ UNCHANGED <<rows, faults>>
    BY <1>1, <1>2, <2>1, <2>3, SameRows, EndQuiet
  <2> QED BY <1>g, <2>2, <2>3 DEF Answered
<1>h. CASE RequestFails(r)
  BY <1>1, <1>2, <1>h, SameRows, EndQuiet DEF RequestFails, GivenUp, Collected
<1> QED BY <1>a, <1>b, <1>c, <1>d, <1>e, <1>f, <1>g, <1>h

LEMMA QuietKeeps ==
  ASSUME AccountsInv, NEW r \in Requests, Quiet(r)
  PROVE  ConnectionsInv'
<1>1. TablesInv /\ TasksInv /\ SettingsInv /\ ConnectionsHaveCredentials /\ CredentialInv /\ WipeInv
      /\ KeysInv /\ ReauthJustified
  BY DEF AccountsInv, ConnectionsInv
<1>2. PICK new : /\ task' = [task EXCEPT ![r] = new]
                 /\ WellTask(new, grants)
                 /\ new.at \notin {"collected", "wiping"}
                 /\ new.at = "refreshing" => /\ secrets[new.account] # None
                                             /\ new.grant = secrets[new.account]
                 /\ new.at = "exchanging" => schema /\ "client" \in keys
  BY DEF Quiet
<1>3. /\ secrets' = secrets /\ grants' = grants /\ revoked' = revoked /\ keys' = keys
      /\ schema' = schema /\ settings' = settings /\ stored' = stored /\ job' = job
      /\ history' = history /\ faults' \in Nat /\ faults \in Nat /\ faults <= faults'
      /\ ~Collected(r) /\ LockInv'
  BY <1>1 DEF Quiet, credentials, TablesInv
<1>4. /\ task'[r] = new /\ \A p \in Requests : p # r => task'[p] = task[p]
      /\ new \in TaskTypes
  BY <1>1, <1>2 DEF TasksInv, WellTask
<1>5. /\ rows' \in [Accounts -> {None} \cup Connection]
      /\ \A a \in Accounts : /\ rows'[a] = None <=> rows[a] = None
                             /\ rows[a] # None => rows'[a].since = rows[a].since
      /\ Connected' = Connected
  BY DEF Quiet, Remarked, Connected
<1>6. /\ Wiping' <=> Wiping
      /\ BeingWiped' = BeingWiped
      /\ \A p \in Requests : Collected(p)' => p # r /\ Collected(p) /\ task'[p] = task[p]
  BY <1>2, <1>3, <1>4, <1>5 DEF Wiping, BeingWiped, Collected
<1>7. TablesInv'
  BY <1>1, <1>3, <1>5 DEF TablesInv, Connected
<1>8. TasksInv'
  <2>1. task' \in [Requests -> TaskTypes]
    BY <1>1, <1>2, <1>4 DEF TasksInv
  <2> QED BY <1>1, <1>2, <1>3, <1>4, <2>1 DEF TasksInv
<1>9. SettingsInv'
  BY <1>1, <1>3 DEF SettingsInv, SettingsAgree, Valid
<1>10. ConnectionsHaveCredentials'
  BY <1>1, <1>3, <1>5, <1>6 DEF ConnectionsHaveCredentials
<1>11. CredentialInv'
  <2>1. NoCredentialLeftBehind'
    BY <1>1, <1>3, <1>5 DEF CredentialInv, NoCredentialLeftBehind
  <2>2. ASSUME ~history.overlapped, NEW p \in Requests
        PROVE  /\ task'[p].at = "refreshing" => secrets'[task'[p].account] # None
               /\ task'[p].at = "exchanging" => schema'
    BY <1>1, <1>2, <1>3, <1>4, <2>2, CredentialsInFlight
  <2> QED BY <1>3, <2>1, <2>2 DEF CredentialInv
<1>w. WipeInv'
  <2> SUFFICES ASSUME NEW p \in Requests, Collected(p)'
               PROVE  /\ \A a \in Connected' : a \notin task'[p].refs => rows'[a].since > task'[p].grant
                      /\ ~history'.overlapped /\ task'[p].at = "wiping" =>
                           /\ \A a \in task'[p].refs : secrets'[a] # None => secrets'[a] > task'[p].grant
                           /\ \A q \in Requests :
                                task'[q].at = "refreshing" /\ task'[q].account \in task'[p].refs =>
                                  task'[q].grant > task'[p].grant
    BY DEF WipeInv, Collected
  <2>1. p # r /\ Collected(p) /\ task'[p] = task[p]
    BY <1>6
  <2>2. \A a \in Connected' : a \notin task'[p].refs => rows'[a].since > task'[p].grant
    BY <1>1, <1>5, <2>1 DEF WipeInv, Connected
  <2>3. ASSUME ~history'.overlapped, task'[p].at = "wiping"
        PROVE  /\ \A a \in task'[p].refs : secrets'[a] # None => secrets'[a] > task'[p].grant
               /\ \A q \in Requests :
                    task'[q].at = "refreshing" /\ task'[q].account \in task'[p].refs =>
                      task'[q].grant > task'[p].grant
    <3>1. \A a \in task'[p].refs : secrets'[a] # None => secrets'[a] > task'[p].grant
      BY <1>1, <1>3, <2>1, <2>3 DEF WipeInv
    <3>2. ASSUME NEW q \in Requests, task'[q].at = "refreshing", task'[q].account \in task'[p].refs
          PROVE  task'[q].grant > task'[p].grant
      <4>1. CASE q = r
        BY <1>2, <1>3, <1>4, <3>1, <3>2, <4>1
      <4>2. CASE q # r
        BY <1>1, <1>3, <1>4, <2>1, <2>3, <3>2, <4>2 DEF WipeInv
      <4> QED BY <4>1, <4>2
    <3> QED BY <3>1, <3>2
  <2> QED BY <2>2, <2>3
<1>12. KeysInv'
  BY <1>1, <1>2, <1>3, <1>4, <1>5, <1>6 DEF KeysInv
<1>13. ReauthJustified'
  <2>1. ASSUME revoked = {}, faults' = 0, ~history.interrupted PROVE rows' = rows /\ faults = 0
    BY <1>3, <2>1 DEF Quiet, Reasoned
  <2> QED BY <1>1, <1>3, <1>5, <2>1 DEF ReauthJustified
<1> QED BY <1>7, <1>8, <1>9, <1>10, <1>11, <1>12, <1>13, <1>w DEF ConnectionsInv

-----------------------------------------------------------------------------
\* Nonces, and what is not shown, matter to nothing else.
LEMMA NothingMoves ==
  ASSUME ConnectionsInv,
         UNCHANGED <<rows, secrets, keys, schema, settings, stored, job, task, lock,
                     grants, revoked, history, faults>>
  PROVE  ConnectionsInv'
<1>1. TablesInv' /\ SettingsInv' /\ (Wiping' <=> Wiping)
  BY DEF ConnectionsInv, TablesInv, Connected, SettingsInv, SettingsAgree, Valid, Wiping
<1>2. TasksInv'
  BY DEF ConnectionsInv, TasksInv, LockInv
<1>3. ConnectionsHaveCredentials' /\ ReauthJustified'
  BY <1>1 DEF ConnectionsInv, ConnectionsHaveCredentials, ReauthJustified, Connected, BeingWiped
<1>4. CredentialInv' /\ WipeInv'
  BY DEF ConnectionsInv, CredentialInv, NoCredentialLeftBehind, WipeInv, Collected, Connected
<1>5. KeysInv'
  BY <1>1 DEF ConnectionsInv, KeysInv, Connected
<1> QED BY <1>1, <1>2, <1>3, <1>4, <1>5 DEF ConnectionsInv

LEMMA RevokeKeeps ==
  ASSUME ConnectionsInv, NEW a \in Accounts, Revoke(a)
  PROVE  ConnectionsInv'
<1>1. /\ UNCHANGED <<rows, secrets, keys, schema, settings, stored, job, task, lock,
                     grants, history, faults>>
      /\ secrets[a] # None /\ revoked' = revoked \cup {secrets[a]}
  BY DEF Revoke, tables, process
<1>2. revoked' \subseteq 1 .. grants /\ revoked' # {}
  <2>1. secrets[a] \in 1 .. MaxGrants /\ secrets[a] <= grants
    BY <1>1 DEF ConnectionsInv, TablesInv
  <2>2. secrets[a] \in 1 .. grants /\ revoked \subseteq 1 .. grants
    BY <2>1, BoundsAreNat DEF ConnectionsInv, TablesInv
  <2> QED BY <1>1, <2>2
<1>3. TablesInv' /\ SettingsInv' /\ (Wiping' <=> Wiping)
  BY <1>1, <1>2
  DEF ConnectionsInv, TablesInv, Connected, SettingsInv, SettingsAgree, Valid, Wiping
<1>4. TasksInv'
  BY <1>1 DEF ConnectionsInv, TasksInv, LockInv
<1>5. ConnectionsHaveCredentials' /\ ReauthJustified'
  BY <1>1, <1>2, <1>3
  DEF ConnectionsInv, ConnectionsHaveCredentials, ReauthJustified, Connected, BeingWiped
<1>6. CredentialInv' /\ WipeInv'
  BY <1>1 DEF ConnectionsInv, CredentialInv, NoCredentialLeftBehind, WipeInv, Collected, Connected
<1>7. KeysInv'
  BY <1>1, <1>3 DEF ConnectionsInv, KeysInv, Connected
<1> QED BY <1>3, <1>4, <1>5, <1>6, <1>7 DEF ConnectionsInv

\* What is added to the history.
LEMMA SettledIs ==
  ASSUME history \in History, NEW a \in Accounts
  PROVE  /\ Settled(a) \in History
         /\ Settled(a).lost = history.lost \ {a} /\ Settled(a).parted = history.parted \ {a}
         /\ Settled(a).overlapped = history.overlapped
         /\ Settled(a).interrupted = history.interrupted
         /\ Settled(a).unsaved = history.unsaved
BY DEF Settled, History

LEMMA StrayIs ==
  ASSUME NEW h \in History, NEW a \in Accounts
  PROVE  /\ Stray(h, a) \in History
         /\ Stray(h, a).lost = IF rows[a] = None THEN h.lost \cup {a} ELSE h.lost
         /\ Stray(h, a).parted = h.parted /\ Stray(h, a).overlapped = h.overlapped
         /\ Stray(h, a).interrupted = h.interrupted /\ Stray(h, a).unsaved = h.unsaved
<1>1. PICK l : l = IF rows[a] = None THEN h.lost \cup {a} ELSE h.lost
  OBVIOUS
<1>2. l \in SUBSET Accounts
  BY <1>1 DEF History
<1>3. Stray(h, a) = [h EXCEPT !.lost = l]
  BY <1>1 DEF Stray
<1> QED BY <1>1, <1>2, <1>3 DEF History

LEMMA HalvedIs ==
  ASSUME NEW h \in History, NEW S
  PROVE  /\ Halved(h, S) \in History
         /\ Halved(h, S).parted = h.parted \cup (S \cap Connected)
         /\ Halved(h, S).lost = h.lost /\ Halved(h, S).overlapped = h.overlapped
         /\ Halved(h, S).interrupted /\ Halved(h, S).unsaved = h.unsaved
<1>1. Connected \subseteq Accounts
  BY DEF Connected
<1> QED BY <1>1 DEF Halved, History

LEMMA OverlappingIs ==
  ASSUME NEW h \in History
  PROVE  /\ Overlapping(h) \in History
         /\ Overlapping(h).overlapped <=> h.overlapped \/ \E p \in Requests : InFlight(p)
         /\ Overlapping(h).lost = h.lost /\ Overlapping(h).parted = h.parted
         /\ Overlapping(h).interrupted = h.interrupted
         /\ Overlapping(h).unsaved = h.unsaved
<1>1. PICK busy \in BOOLEAN : busy <=> \E p \in Requests : InFlight(p)
  OBVIOUS
<1>2. Overlapping(h) = [h EXCEPT !.overlapped = h.overlapped \/ busy]
  BY <1>1 DEF Overlapping
<1> QED BY <1>1, <1>2 DEF History

\* The new connection is of a grant of its own, later than any wipe under way.  If its
\* row could not be written, the history says so.
LEMMA ExchangeKeeps ==
  ASSUME AccountsInv, NEW r \in Requests, ExchangeSucceeds(r)
  PROVE  ConnectionsInv'
<1>1. TablesInv /\ TasksInv /\ SettingsInv /\ ConnectionsHaveCredentials /\ CredentialInv /\ WipeInv
      /\ KeysInv /\ ReauthJustified
  BY DEF AccountsInv, ConnectionsInv
<1>2. PICK a \in Accounts :
        /\ secrets' = WithSecret(a, grants + 1)
        /\ \/ rows' = Saved(a) /\ history' = Settled(a) /\ UNCHANGED faults
           \/ Fault /\ history' = Stray(history, a) /\ UNCHANGED rows
  BY DEF ExchangeSucceeds
<1>3. /\ task[r].at = "exchanging" /\ grants < MaxGrants /\ grants' = grants + 1
      /\ task' = [task EXCEPT ![r] = Idle]
      /\ UNCHANGED <<keys, schema, settings, stored, job, lock, revoked>>
      /\ grants \in Nat /\ MaxGrants \in Nat /\ grants + 1 \in 1 .. MaxGrants
  BY <1>1, BoundsAreNat DEF ExchangeSucceeds, TablesInv
<1>4. /\ secrets'[a] = grants + 1
      /\ \A b \in Accounts : b # a => secrets'[b] = secrets[b]
      /\ secrets' \in [Accounts -> {None} \cup 1 .. MaxGrants]
  BY <1>1, <1>2, <1>3 DEF WithSecret, TablesInv
<1>5. /\ \/ rows'[a] = rows[a]
         \/ schema /\ rows'[a] = [since |-> grants + 1, reauth |-> FALSE]
      /\ \A b \in Accounts : b # a => rows'[b] = rows[b]
      /\ rows' \in [Accounts -> {None} \cup Connection]
  <2>1. PICK row \in Connection : row = [since |-> grants + 1, reauth |-> FALSE]
    BY <1>3 DEF Connection
  <2>2. rows' = rows \/ (schema /\ rows' = [rows EXCEPT ![a] = row])
    BY <1>2, <2>1 DEF Saved
  <2>3. rows \in [Accounts -> {None} \cup Connection]
    BY <1>1 DEF TablesInv
  <2> QED BY <2>1, <2>2, <2>3
<1>6. [since |-> grants + 1, reauth |-> FALSE] # None /\ grants + 1 # None
  <2>1. [since |-> grants + 1, reauth |-> FALSE] \in Connection
    BY <1>3 DEF Connection
  <2>2. grants + 1 \in Nat
    BY <1>3
  <2> QED BY <2>1, <2>2, NoneDiffers
<1>a. schema /\ rows'[a] = None => rows' = rows /\ history' = Stray(history, a)
  BY <1>1, <1>2, <1>6 DEF Saved, TablesInv
<1>b. /\ history' \in History
      /\ history'.overlapped = history.overlapped
      /\ history'.interrupted = history.interrupted /\ history'.unsaved = history.unsaved
      /\ history'.parted \subseteq history.parted
      /\ \A b \in Accounts : b # a => /\ b \in history'.parted <=> b \in history.parted
                                      /\ b \in history'.lost <=> b \in history.lost
      /\ schema /\ rows'[a] = None => a \in history'.lost
      /\ faults' \in Nat /\ (faults' = 0 => faults = 0)
  <2>1. history \in History /\ faults \in Nat
    BY <1>1 DEF TablesInv
  <2>2. CASE history' = Settled(a) /\ UNCHANGED faults /\ rows' = Saved(a)
    <3>1. ~(schema /\ rows'[a] = None)
      BY <1>1, <1>6, <2>2 DEF Saved, TablesInv
    <3> QED BY <2>1, <2>2, <3>1, SettledIs
  <2>3. CASE history' = Stray(history, a) /\ Fault /\ UNCHANGED rows
    <3>1. faults' \in Nat /\ faults' # 0
      BY <2>1, <2>3 DEF Fault
    <3> QED BY <2>1, <2>3, <3>1, StrayIs
  <2> QED BY <1>2, <2>2, <2>3
<1>7. /\ task'[r] = Idle /\ \A p \in Requests : p # r => task'[p] = task[p]
      /\ Idle.at = "idle"
  BY <1>1, <1>3, IdleTask DEF TasksInv
<1>8. /\ Wiping' <=> Wiping
      /\ \A b \in BeingWiped : rows'[b] # None => b \in BeingWiped'
  BY <1>3, <1>7 DEF Wiping, BeingWiped, Connected
<1>9. TablesInv'
  <2>1. \A b \in Accounts : /\ secrets'[b] # None => secrets'[b] <= grants'
                            /\ rows'[b] # None => rows'[b].since <= grants'
    BY <1>1, <1>3, <1>4, <1>5, <1>6 DEF TablesInv, Connection
  <2>2. revoked' \subseteq 1 .. grants' /\ grants' \in 0 .. MaxGrants
    BY <1>1, <1>3 DEF TablesInv
  <2>3. ~schema' => Connected' = {}
    BY <1>1, <1>3, <1>5 DEF TablesInv, Connected
  <2>4. ASSUME NEW b \in Connected', NEW c \in Connected', rows'[b].since = rows'[c].since
        PROVE  b = c
    <3>1. \A d \in Connected : rows[d].since <= grants
      BY <1>1 DEF TablesInv, Connected
    <3>2. \A d \in Connected' : d # a => d \in Connected /\ rows'[d].since <= grants
      BY <1>5, <3>1 DEF Connected
    <3>3. CASE schema /\ rows'[a] = [since |-> grants + 1, reauth |-> FALSE]
      <4>1. rows'[a].since = grants + 1
        BY <3>3
      <4>2. CASE b # a /\ c # a
        BY <1>1, <1>5, <2>4, <3>2, <4>2 DEF TablesInv, Connected
      <4>3. CASE b = a /\ c # a
        BY <1>3, <2>4, <3>2, <4>1, <4>3
      <4>4. CASE b # a /\ c = a
        BY <1>3, <2>4, <3>2, <4>1, <4>4
      <4> QED BY <4>2, <4>3, <4>4
    <3>4. CASE rows'[a] = rows[a]
      <4>1. b \in Connected /\ c \in Connected /\ rows'[b] = rows[b] /\ rows'[c] = rows[c]
        BY <1>5, <3>4 DEF Connected
      <4> QED BY <1>1, <2>4, <4>1 DEF TablesInv
    <3> QED BY <1>5, <3>3, <3>4
  <2>5. history'.parted # {} => history'.interrupted
    BY <1>1, <1>b DEF TablesInv
  <2> QED BY <1>1, <1>3, <1>4, <1>5, <1>b, <2>1, <2>2, <2>3, <2>4, <2>5 DEF TablesInv
<1>10. TasksInv'
  <2>1. WellTask(Idle, grants')
    <3>1. grants + 1 \in Nat /\ 0 \in Nat /\ 0 <= grants + 1
      BY <1>3
    <3> QED BY <1>3, <3>1, IdleTask, LaterGrants
  <2>2. \A p \in Requests : p # r => WellTask(task'[p], grants')
    <3>1. grants + 1 \in Nat /\ grants <= grants + 1
      BY <1>3
    <3> QED BY <1>1, <1>3, <1>7, <3>1, LaterGrants DEF TasksInv
  <2>3. LockInv'
    <3>1. ~Locking(task[r])
      BY <1>1, <1>3 DEF TasksInv, WellTask, Locking
    <3>2. LockInv /\ DOMAIN task = Requests /\ lock' = lock
      BY <1>1, <1>3 DEF TasksInv
    <3> QED BY <1>3, <3>1, <3>2, IdleTask, LockMoves
  <2>4. Idle \in TaskTypes
    BY <2>1 DEF WellTask
  <2> QED BY <1>1, <1>3, <1>7, <2>1, <2>2, <2>3, <2>4 DEF TasksInv
<1>11. SettingsInv'
  BY <1>1, <1>3, <1>b DEF SettingsInv, SettingsAgree, Valid
<1>12. ConnectionsHaveCredentials'
  <2> SUFFICES ASSUME NEW b \in Connected', secrets'[b] = None
               PROVE  b \in history'.parted \cup BeingWiped'
    BY DEF ConnectionsHaveCredentials
  <2>1. b \in Accounts /\ b # a /\ rows'[b] # None
    BY <1>4, <1>6 DEF Connected
  <2>2. b \in Connected /\ secrets[b] = None
    BY <1>4, <1>5, <2>1 DEF Connected
  <2>3. b \in history.parted \cup BeingWiped
    BY <1>1, <2>2 DEF ConnectionsHaveCredentials
  <2>4. CASE b \in history.parted
    BY <1>b, <2>1, <2>4
  <2>5. CASE b \in BeingWiped
    BY <1>8, <2>1, <2>5
  <2> QED BY <2>3, <2>4, <2>5
<1>13. CredentialInv'
  <2>1. ASSUME ~history.overlapped PROVE schema
    BY <1>1, <1>3, <2>1 DEF CredentialInv
  <2>2. NoCredentialLeftBehind'
    BY <1>1, <1>3, <1>4, <1>5, <1>6, <1>b, <2>1 DEF CredentialInv, NoCredentialLeftBehind
  <2>3. ASSUME ~history.overlapped, NEW p \in Requests, task'[p].at = "refreshing"
        PROVE  secrets'[task'[p].account] # None
    <3>1. task'[p] = task[p] /\ WellTask(task[p], grants)
      BY <1>1, <1>7, <2>3 DEF TasksInv
    <3>2. task[p].account \in Accounts /\ secrets[task[p].account] # None
      BY <1>1, <2>3, <3>1, CredentialsInFlight DEF WellTask
    <3> QED BY <1>4, <1>6, <3>1, <3>2
  <2> QED BY <1>3, <1>b, <2>1, <2>2, <2>3 DEF CredentialInv
<1>c. WipeInv'
  <2> SUFFICES ASSUME NEW p \in Requests, Collected(p)'
               PROVE  /\ \A b \in Connected' : b \notin task'[p].refs => rows'[b].since > task'[p].grant
                      /\ ~history'.overlapped /\ task'[p].at = "wiping" =>
                           /\ \A b \in task'[p].refs : secrets'[b] # None => secrets'[b] > task'[p].grant
                           /\ \A q \in Requests :
                                task'[q].at = "refreshing" /\ task'[q].account \in task'[p].refs =>
                                  task'[q].grant > task'[p].grant
    BY DEF WipeInv, Collected
  <2>1. /\ task'[p] = task[p] /\ Collected(p) /\ grants + 1 > task[p].grant
        /\ task[p].refs \subseteq Accounts
    <3>1. task'[p] = task[p] /\ Collected(p)
      BY <1>7 DEF Collected
    <3>2. task[p].grant \in 0 .. MaxGrants /\ task[p].grant <= grants
      <4>1. WellTask(task[p], grants) /\ None \notin 0 .. MaxGrants
        BY <1>1, <1>3, NoneDiffers DEF TasksInv
      <4> QED BY <3>1, <4>1 DEF WellTask, Collected
    <3>3. task[p].refs \subseteq Accounts
      BY <1>1 DEF TasksInv, TaskTypes
    <3> QED BY <1>3, <3>1, <3>2, <3>3
  <2>2. ASSUME NEW b \in Connected', b \notin task'[p].refs PROVE rows'[b].since > task'[p].grant
    <3>1. CASE rows'[b] = rows[b]
      BY <1>1, <2>1, <2>2, <3>1 DEF WipeInv, Connected
    <3>2. CASE rows'[b] = [since |-> grants + 1, reauth |-> FALSE]
      BY <2>1, <3>2
    <3> QED BY <1>5, <3>1, <3>2 DEF Connected
  <2>3. ASSUME ~history'.overlapped, task'[p].at = "wiping", NEW b \in task'[p].refs,
               secrets'[b] # None
        PROVE  secrets'[b] > task'[p].grant
    <3>1. CASE b = a
      BY <1>4, <2>1, <3>1
    <3>2. CASE b # a
      BY <1>1, <1>4, <1>b, <2>1, <2>3, <3>2 DEF WipeInv
    <3> QED BY <3>1, <3>2
  <2>4. ASSUME ~history'.overlapped, task'[p].at = "wiping", NEW q \in Requests,
               task'[q].at = "refreshing", task'[q].account \in task'[p].refs
        PROVE  task'[q].grant > task'[p].grant
    BY <1>1, <1>7, <1>b, <2>1, <2>4 DEF WipeInv
  <2> QED BY <2>2, <2>3, <2>4
<1>14. KeysInv'
  BY <1>1, <1>3, <1>8, <1>b DEF KeysInv
<1>15. ReauthJustified'
  BY <1>1, <1>3, <1>5, <1>b DEF ReauthJustified, Connected
<1> QED BY <1>9, <1>10, <1>11, <1>12, <1>13, <1>14, <1>15, <1>c DEF ConnectionsInv

\* The refreshed credential is stored where its connection is, unless somebody deleted
\* it meanwhile and made the overlap known.
LEMMA RefreshKeeps ==
  ASSUME AccountsInv, NEW r \in Requests, Refreshed(r)
  PROVE  ConnectionsInv'
<1>1. TablesInv /\ TasksInv /\ SettingsInv /\ ConnectionsHaveCredentials /\ CredentialInv /\ WipeInv
      /\ KeysInv /\ ReauthJustified
  BY DEF AccountsInv, ConnectionsInv
<1>2. PICK a, g : a = task[r].account /\ g = task[r].grant
  OBVIOUS
<1>3. PICK new : new = [task[r] EXCEPT !.at = "requesting"]
  OBVIOUS
<1>4. /\ task[r].at = "refreshing" /\ secrets' = [secrets EXCEPT ![a] = g]
      /\ task' = [task EXCEPT ![r] = new]
      /\ UNCHANGED <<rows, keys, schema, settings, stored, job, lock, grants, revoked,
                     history, faults>>
  BY <1>2, <1>3 DEF Refreshed, WithSecret, tables
<1>5. a \in Accounts /\ g \in 1 .. MaxGrants /\ g <= grants /\ g # None
  <2>1. WellTask(task[r], grants) /\ \A n \in 1 .. MaxGrants : n # None
    BY <1>1, NoneDiffers DEF TasksInv
  <2> QED BY <1>2, <1>4, <2>1 DEF WellTask
<1>6. /\ new.at = "requesting" /\ new \in TaskTypes
      /\ WellTask(new, grants) /\ (Locking(new) <=> Locking(task[r]))
  <2>1. WellTask(task[r], grants) /\ task[r] \in TaskTypes
    BY <1>1 DEF TasksInv
  <2>2. /\ new.at = "requesting" /\ new.sync = task[r].sync
        /\ new.account = task[r].account /\ new.grant = task[r].grant
        /\ new.refs = task[r].refs
        /\ new \in TaskTypes
    BY <1>3, <2>1 DEF TaskTypes
  <2>3. Locking(new) <=> Locking(task[r])
    BY <1>4, <2>2 DEF Locking
  <2> QED BY <1>2, <1>4, <1>5, <2>1, <2>2, <2>3 DEF WellTask
<1>7. /\ secrets'[a] = g
      /\ \A b \in Accounts : b # a => secrets'[b] = secrets[b]
      /\ secrets' \in [Accounts -> {None} \cup 1 .. MaxGrants]
  BY <1>1, <1>4, <1>5 DEF TablesInv
<1>8. task'[r] = new /\ \A p \in Requests : p # r => task'[p] = task[p]
  BY <1>1, <1>4 DEF TasksInv
<1>9. (Wiping' <=> Wiping) /\ BeingWiped' = BeingWiped /\ Connected' = Connected
  BY <1>4, <1>6, <1>8 DEF Wiping, BeingWiped, Connected
<1>10. TablesInv'
  BY <1>1, <1>4, <1>5, <1>7 DEF TablesInv, Connected
<1>11. TasksInv'
  <2>1. LockInv'
    <3>1. LockInv /\ DOMAIN task = Requests
      BY <1>1 DEF TasksInv
    <3> QED BY <1>4, <1>6, <3>1, LockMoves
  <2> QED BY <1>1, <1>4, <1>6, <1>8, <2>1 DEF TasksInv
<1>12. SettingsInv'
  BY <1>1, <1>4 DEF SettingsInv, SettingsAgree, Valid
<1>13. ConnectionsHaveCredentials'
  BY <1>1, <1>4, <1>5, <1>7, <1>9 DEF ConnectionsHaveCredentials
<1>14. CredentialInv'
  <2>1. ASSUME ~history.overlapped PROVE secrets[a] # None
    <3>1. r \in Requests /\ task[r].at = "refreshing" /\ task[r].account = a
      BY <1>2, <1>4
    <3> QED BY <1>1, <2>1, <3>1, CredentialsInFlight
  <2>2. NoCredentialLeftBehind'
    BY <1>1, <1>4, <1>7, <2>1 DEF CredentialInv, NoCredentialLeftBehind
  <2>3. ASSUME ~history.overlapped, NEW p \in Requests, task'[p].at = "refreshing"
        PROVE  secrets'[task'[p].account] # None
    <3>1. task'[p] = task[p] /\ WellTask(task[p], grants)
      BY <1>1, <1>6, <1>8, <2>3 DEF TasksInv
    <3>2. task[p].account \in Accounts /\ secrets[task[p].account] # None
      BY <1>1, <2>3, <3>1, CredentialsInFlight DEF WellTask
    <3> QED BY <1>5, <1>7, <3>1, <3>2
  <2>4. ASSUME ~history.overlapped, NEW p \in Requests, task'[p].at = "exchanging"
        PROVE  schema'
    BY <1>1, <1>4, <1>6, <1>8, <2>4 DEF CredentialInv
  <2> QED BY <1>4, <2>2, <2>3, <2>4 DEF CredentialInv
<1>w. WipeInv'
  <2> SUFFICES ASSUME NEW p \in Requests, Collected(p)'
               PROVE  /\ \A b \in Connected' : b \notin task'[p].refs => rows'[b].since > task'[p].grant
                      /\ ~history'.overlapped /\ task'[p].at = "wiping" =>
                           /\ \A b \in task'[p].refs : secrets'[b] # None => secrets'[b] > task'[p].grant
                           /\ \A q \in Requests :
                                task'[q].at = "refreshing" /\ task'[q].account \in task'[p].refs =>
                                  task'[q].grant > task'[p].grant
    BY DEF WipeInv, Collected
  <2>1. task'[p] = task[p] /\ Collected(p) /\ task[p].refs \subseteq Accounts
    BY <1>1, <1>6, <1>8 DEF Collected, TasksInv, TaskTypes
  <2>2. \A b \in Connected' : b \notin task'[p].refs => rows'[b].since > task'[p].grant
    BY <1>1, <1>4, <1>9, <2>1 DEF WipeInv
  <2>3. ASSUME ~history'.overlapped, task'[p].at = "wiping", NEW b \in task'[p].refs,
               secrets'[b] # None
        PROVE  secrets'[b] > task'[p].grant
    <3>1. CASE b = a
      BY <1>1, <1>2, <1>4, <1>7, <2>1, <2>3, <3>1 DEF WipeInv
    <3>2. CASE b # a
      BY <1>1, <1>4, <1>7, <2>1, <2>3, <3>2 DEF WipeInv
    <3> QED BY <3>1, <3>2
  <2>4. ASSUME ~history'.overlapped, task'[p].at = "wiping", NEW q \in Requests,
               task'[q].at = "refreshing", task'[q].account \in task'[p].refs
        PROVE  task'[q].grant > task'[p].grant
    BY <1>1, <1>4, <1>6, <1>8, <2>1, <2>4 DEF WipeInv
  <2> QED BY <2>2, <2>3, <2>4
<1>15. KeysInv'
  BY <1>1, <1>4, <1>6, <1>8, <1>9 DEF KeysInv, Connected
<1>16. ReauthJustified'
  BY <1>1, <1>4 DEF ReauthJustified, Connected
<1> QED BY <1>10, <1>11, <1>12, <1>13, <1>14, <1>15, <1>16, <1>w DEF ConnectionsInv

-----------------------------------------------------------------------------
\* Tables that lose connections and credentials stay well formed.
LEMMA FewerTables ==
  ASSUME TablesInv,
         rows' \in [Accounts -> {None} \cup Connection],
         secrets' \in [Accounts -> {None} \cup 1 .. MaxGrants],
         \A b \in Accounts : /\ rows'[b] \in {None, rows[b]}
                             /\ secrets'[b] \in {None, secrets[b]},
         keys' \subseteq {"client", "azure"}, schema' \in BOOLEAN, ~schema' => Connected' = {},
         history' \in History, history'.parted # {} => history'.interrupted,
         faults' \in Nat, UNCHANGED <<grants, revoked>>
  PROVE  TablesInv'
<1>1. \A b \in Accounts : /\ secrets'[b] # None => secrets'[b] <= grants'
                          /\ rows'[b] # None => rows'[b].since <= grants'
  BY DEF TablesInv
<1>2. \A b \in Connected' : b \in Connected /\ rows'[b] = rows[b]
  BY DEF Connected
<1>3. \A b, c \in Connected' : rows'[b].since = rows'[c].since => b = c
  BY <1>2 DEF TablesInv
<1> QED BY <1>1, <1>3 DEF TablesInv

LEMMA FewerToWipe ==
  ASSUME TasksInv, WipeInv, UNCHANGED task,
         \A b \in Accounts : rows'[b] \in {None, rows[b]} /\ secrets'[b] \in {None, secrets[b]},
         history.overlapped => history'.overlapped
  PROVE  WipeInv'
<1> SUFFICES ASSUME NEW p \in Requests, Collected(p)
             PROVE  /\ \A b \in Connected' : b \notin task[p].refs => rows'[b].since > task[p].grant
                    /\ ~history'.overlapped /\ task[p].at = "wiping" =>
                         /\ \A b \in task[p].refs : secrets'[b] # None => secrets'[b] > task[p].grant
                         /\ \A q \in Requests :
                              task[q].at = "refreshing" /\ task[q].account \in task[p].refs =>
                                task[q].grant > task[p].grant
  BY DEF WipeInv, Collected
<1>1. task[p].refs \subseteq Accounts
  BY DEF TasksInv, TaskTypes
<1>2. \A b \in Connected' : b \in Connected /\ rows'[b] = rows[b]
  BY DEF Connected
<1>3. \A b \in Connected' : b \notin task[p].refs => rows'[b].since > task[p].grant
  BY <1>2 DEF WipeInv
<1>4. ASSUME ~history'.overlapped, task[p].at = "wiping"
      PROVE  /\ \A b \in task[p].refs : secrets'[b] # None => secrets'[b] > task[p].grant
             /\ \A q \in Requests :
                  task[q].at = "refreshing" /\ task[q].account \in task[p].refs =>
                    task[q].grant > task[p].grant
  BY <1>1, <1>4 DEF WipeInv
<1> QED BY <1>3, <1>4

LEMMA DisconnectKeeps ==
  ASSUME AccountsInv, NEW a \in Accounts, Disconnect(a)
  PROVE  ConnectionsInv'
<1>1. TablesInv /\ TasksInv /\ SettingsInv /\ ConnectionsHaveCredentials /\ CredentialInv /\ WipeInv
      /\ KeysInv /\ ReauthJustified
  BY DEF AccountsInv, ConnectionsInv
<1>2. UNCHANGED <<keys, schema, settings, stored, job, task, lock, grants, revoked>>
  BY DEF Disconnect, process
<1>3. TasksInv' /\ (Wiping' <=> Wiping)
  BY <1>1, <1>2 DEF TasksInv, LockInv, Wiping
<1>4. CASE /\ secrets' = Deleting({a})
           /\ \/ /\ rows' = Dropping({a}) /\ history' = Overlapping(Settled(a))
                 /\ UNCHANGED faults
              \/ /\ Fault
                 /\ history' = Overlapping(Halved(history, {a})) /\ UNCHANGED rows
  <2>1. /\ secrets'[a] = None
        /\ \A b \in Accounts : b # a => secrets'[b] = secrets[b] /\ rows'[b] = rows[b]
        /\ \A b \in Accounts : rows'[b] \in {None, rows[b]} /\ secrets'[b] \in {None, secrets[b]}
        /\ rows' \in [Accounts -> {None} \cup Connection]
        /\ secrets' \in [Accounts -> {None} \cup 1 .. MaxGrants]
    BY <1>1, <1>4 DEF Deleting, Dropping, TablesInv
  <2>2. /\ history' \in History
        /\ history'.overlapped <=> history.overlapped \/ \E p \in Requests : InFlight(p)
        /\ history'.unsaved = history.unsaved
        /\ \A b \in Accounts : b # a => /\ b \in history'.parted <=> b \in history.parted
                                        /\ b \in history'.lost <=> b \in history.lost
        /\ history.interrupted => history'.interrupted
        /\ history'.parted # {} => history'.interrupted
        /\ rows'[a] # None => a \in history'.parted
        /\ faults' \in Nat /\ (faults' = 0 => faults = 0)
    <3>1. /\ history \in History /\ faults \in Nat
          /\ history.parted # {} => history.interrupted
      BY <1>1 DEF TablesInv
    <3>2. CASE rows' = Dropping({a}) /\ history' = Overlapping(Settled(a)) /\ UNCHANGED faults
      <4>1. rows'[a] = None
        BY <3>2 DEF Dropping
      <4>2. PICK h \in History : h = Settled(a)
        BY <3>1, SettledIs
      <4>3. history' = Overlapping(h)
        BY <3>2, <4>2
      <4>4. /\ h.lost = history.lost \ {a} /\ h.parted = history.parted \ {a}
            /\ h.overlapped = history.overlapped
            /\ h.interrupted = history.interrupted /\ h.unsaved = history.unsaved
        BY <3>1, <4>2, SettledIs
      <4> QED BY <3>1, <3>2, <4>1, <4>3, <4>4, OverlappingIs
    <3>3. CASE Fault /\ history' = Overlapping(Halved(history, {a})) /\ UNCHANGED rows
      <4>1. faults' \in Nat /\ faults' # 0
        BY <3>1, <3>3 DEF Fault
      <4>2. PICK h \in History : h = Halved(history, {a})
        BY <3>1, HalvedIs
      <4>3. history' = Overlapping(h)
        BY <3>3, <4>2
      <4>4. /\ h.lost = history.lost /\ h.parted = history.parted \cup ({a} \cap Connected)
            /\ h.overlapped = history.overlapped
            /\ h.interrupted /\ h.unsaved = history.unsaved
        BY <3>1, <4>2, HalvedIs
      <4>5. rows'[a] # None => a \in h.parted
        BY <3>3, <4>4 DEF Connected
      <4>6. \A b \in Accounts : b # a => /\ b \in h.parted <=> b \in history.parted
                                         /\ b \in h.lost <=> b \in history.lost
        BY <4>4
      <4>7. /\ history' \in History
            /\ history'.overlapped <=> history.overlapped \/ \E p \in Requests : InFlight(p)
            /\ history'.lost = h.lost /\ history'.parted = h.parted
            /\ history'.interrupted /\ history'.unsaved = history.unsaved
        BY <4>3, <4>4, OverlappingIs
      <4> QED BY <4>1, <4>5, <4>6, <4>7
    <3> QED BY <1>4, <3>2, <3>3
  <2>3. /\ Connected' \subseteq Connected
        /\ \A b \in BeingWiped : rows'[b] # None => b \in BeingWiped'
    BY <1>2, <2>1 DEF Connected, BeingWiped
  <2>4. TablesInv'
    <3>1. /\ keys' \subseteq {"client", "azure"} /\ schema' \in BOOLEAN
          /\ ~schema' => Connected' = {}
      BY <1>1, <1>2, <2>3 DEF TablesInv
    <3> QED BY <1>1, <1>2, <2>1, <2>2, <3>1, FewerTables
  <2>5. SettingsInv'
    BY <1>1, <1>2, <2>2 DEF SettingsInv, SettingsAgree, Valid
  <2>6. ConnectionsHaveCredentials'
    <3> SUFFICES ASSUME NEW b \in Connected', secrets'[b] = None
                 PROVE  b \in history'.parted \cup BeingWiped'
      BY DEF ConnectionsHaveCredentials
    <3>1. b \in Accounts /\ rows'[b] # None /\ b \in Connected
      BY <2>3 DEF Connected
    <3>2. CASE b = a
      BY <2>2, <3>1, <3>2
    <3>3. CASE b # a
      <4>1. secrets[b] = None
        BY <2>1, <3>1, <3>3
      <4>2. b \in history.parted \cup BeingWiped
        BY <1>1, <3>1, <4>1 DEF ConnectionsHaveCredentials
      <4>3. CASE b \in history.parted
        BY <2>2, <3>1, <3>3, <4>3
      <4>4. CASE b \in BeingWiped
        BY <2>3, <3>1, <4>4
      <4> QED BY <4>2, <4>3, <4>4
    <3> QED BY <3>2, <3>3
  <2>7. CredentialInv'
    <3>1. NoCredentialLeftBehind'
      BY <1>1, <2>1, <2>2 DEF CredentialInv, NoCredentialLeftBehind
    <3>2. ASSUME ~history'.overlapped, NEW p \in Requests
          PROVE  task'[p].at \notin {"refreshing", "exchanging"}
      BY <1>2, <2>2, <3>2 DEF InFlight
    <3> QED BY <3>1, <3>2 DEF CredentialInv
  <2>8. WipeInv'
    BY <1>1, <1>2, <2>1, <2>2, FewerToWipe
  <2>9. KeysInv'
    BY <1>1, <1>2, <1>3, <2>2, <2>3 DEF KeysInv
  <2>10. ReauthJustified'
    BY <1>1, <1>2, <2>1, <2>2, <2>3 DEF ReauthJustified, Connected
  <2> QED BY <1>3, <2>4, <2>5, <2>6, <2>7, <2>8, <2>9, <2>10 DEF ConnectionsInv
<1>5. CASE Fault /\ UNCHANGED <<secrets, rows, history>>
  <2>1. faults' \in Nat /\ faults' # 0
    BY <1>1, <1>5 DEF Fault, TablesInv
  <2>2. TablesInv'
    BY <1>1, <1>2, <1>5, <2>1 DEF TablesInv, Connected
  <2>3. SettingsInv'
    BY <1>1, <1>2, <1>5 DEF SettingsInv, SettingsAgree, Valid
  <2>4. ConnectionsHaveCredentials' /\ ReauthJustified'
    BY <1>1, <1>2, <1>5, <2>1
    DEF ConnectionsHaveCredentials, ReauthJustified, Connected, BeingWiped
  <2>5. CredentialInv' /\ WipeInv'
    BY <1>1, <1>2, <1>5
    DEF CredentialInv, NoCredentialLeftBehind, WipeInv, Collected, Connected
  <2>6. KeysInv'
    BY <1>1, <1>2, <1>3, <1>5 DEF KeysInv, Connected
  <2> QED BY <1>3, <2>2, <2>3, <2>4, <2>5, <2>6 DEF ConnectionsInv
<1> QED BY <1>4, <1>5 DEF Disconnect

\* A wipe knows every connection there is when it starts.
LEMMA StartWipeKeeps ==
  ASSUME AccountsInv, NEW r \in Requests, StartWipe(r)
  PROVE  ConnectionsInv'
<1>1. TablesInv /\ TasksInv /\ SettingsInv /\ ConnectionsHaveCredentials /\ CredentialInv /\ WipeInv
      /\ KeysInv /\ ReauthJustified /\ LockInv
  BY DEF AccountsInv, ConnectionsInv, TasksInv
<1>2. PICK new : new = [Idle EXCEPT !.at = "collected", !.grant = grants, !.refs = WipeRefs]
  OBVIOUS
<1>3. /\ UNCHANGED <<rows, secrets, keys, schema, settings, stored, job, grants, revoked,
                     history, faults>>
      /\ task[r] = Idle /\ lock = Free /\ lock' = r /\ task' = [task EXCEPT ![r] = new]
  BY <1>2 DEF StartWipe, tables, credentials
<1>4. /\ new.at = "collected" /\ new.sync = FALSE /\ new.grant = grants
      /\ new.refs = Connected /\ new \in TaskTypes /\ WellTask(new, grants) /\ Locking(new)
  <2>1. new = [at |-> "collected", sync |-> FALSE, account |-> None, grant |-> grants,
               refs |-> Connected]
    BY <1>2 DEF Idle, WipeRefs
  <2>2. grants \in 0 .. MaxGrants /\ grants <= grants /\ Connected \in SUBSET Accounts
    BY <1>1, BoundsAreNat DEF TablesInv, Connected
  <2> QED BY <2>1, <2>2 DEF TaskTypes, WellTask, Locking
<1>5. /\ task'[r] = new /\ \A p \in Requests : p # r => task'[p] = task[p]
      /\ \A p \in Requests : ~Collected(p)
  BY <1>1, <1>3, ValuesDiffer DEF TasksInv, LockInv, Locking, Collected
<1>6. TasksInv'
  <2>1. LockInv'
    <3>1. lock' = r /\ lock \in {Free, r} /\ DOMAIN task = Requests
      BY <1>1, <1>3 DEF TasksInv
    <3> QED BY <1>1, <1>3, <1>4, <3>1, LockMoves
  <2> QED BY <1>1, <1>3, <1>4, <1>5, <2>1 DEF TasksInv
<1>7. Connected' = Connected /\ ~Wiping' /\ ~Wiping /\ BeingWiped' = {} /\ BeingWiped = {}
  BY <1>3, <1>4, <1>5 DEF Connected, Wiping, BeingWiped, Collected
<1>8. TablesInv' /\ SettingsInv'
  BY <1>1, <1>3, <1>7 DEF TablesInv, SettingsInv, SettingsAgree, Valid
<1>9. ConnectionsHaveCredentials' /\ ReauthJustified'
  BY <1>1, <1>3, <1>7 DEF ConnectionsHaveCredentials, ReauthJustified
<1>10. CredentialInv'
  BY <1>1, <1>3, <1>4, <1>5 DEF CredentialInv, NoCredentialLeftBehind
<1>11. WipeInv'
  <2>1. ASSUME NEW p \in Requests, task'[p].at \in {"collected", "wiping"}
        PROVE  task'[p].refs = Connected' /\ task'[p].at = "collected"
    BY <1>4, <1>5, <1>7, <2>1 DEF Collected
  <2> QED BY <2>1 DEF WipeInv, Collected
<1>12. KeysInv'
  BY <1>1, <1>3, <1>4, <1>5, <1>7 DEF KeysInv
<1> QED BY <1>6, <1>8, <1>9, <1>10, <1>11, <1>12 DEF ConnectionsInv

\* A wipe deletes the credentials of the connections it collected.  If it fails half way,
\* the connections without one are known to be such.
LEMMA WipeSecretsKeeps ==
  ASSUME AccountsInv, NEW r \in Requests, WipeSecrets(r)
  PROVE  ConnectionsInv'
<1>1. TablesInv /\ TasksInv /\ SettingsInv /\ ConnectionsHaveCredentials /\ CredentialInv /\ WipeInv
      /\ KeysInv /\ ReauthJustified /\ LockInv
  BY DEF AccountsInv, ConnectionsInv, TasksInv
<1>2. /\ UNCHANGED <<rows, stored, schema, settings, job, grants, revoked>>
      /\ task[r].at = "collected"
  BY DEF WipeSecrets, tables
<1>3. /\ lock = r /\ lock \in {Free, r} /\ DOMAIN task = Requests
      /\ \A p \in Requests : p # r => ~Collected(p)
      /\ ~Wiping /\ BeingWiped = {}
      /\ task[r].refs \subseteq Accounts /\ WellTask(task[r], grants) /\ task[r] \in TaskTypes
  BY <1>1, <1>2 DEF TasksInv, LockInv, Locking, Collected, Wiping, BeingWiped, TaskTypes
<1>4. ASSUME NEW S, S \subseteq Accounts, secrets' = Deleting(S)
      PROVE  /\ secrets' \in [Accounts -> {None} \cup 1 .. MaxGrants]
             /\ \A b \in Accounts : secrets'[b] = IF b \in S THEN None ELSE secrets[b]
  BY <1>1, <1>4 DEF Deleting, TablesInv
<1>5. Connected' = Connected /\ rows \in [Accounts -> {None} \cup Connection]
  BY <1>1, <1>2 DEF Connected, TablesInv
<1>6. CASE /\ secrets' = Deleting(task[r].refs) /\ keys' = {}
           /\ task' = [task EXCEPT ![r].at = "wiping"]
           /\ history' = Overlapping(history)
           /\ UNCHANGED <<lock, faults>>
  <2>1. PICK new : new = [task[r] EXCEPT !.at = "wiping"]
    OBVIOUS
  <2>2. task' = [task EXCEPT ![r] = new]
    BY <1>6, <2>1
  <2>3. /\ new.at = "wiping" /\ new.sync = task[r].sync /\ new.grant = task[r].grant
        /\ new.refs = task[r].refs /\ new \in TaskTypes
        /\ WellTask(new, grants) /\ Locking(new)
    <3>1. /\ new.at = "wiping" /\ new.sync = task[r].sync /\ new.grant = task[r].grant
          /\ new.refs = task[r].refs /\ new \in TaskTypes
      BY <1>3, <2>1 DEF TaskTypes
    <3>2. WellTask(new, grants)
      BY <1>2, <1>3, <3>1 DEF WellTask
    <3> QED BY <3>1, <3>2 DEF Locking
  <2>4. task'[r] = new /\ Wiping' /\ \A p \in Requests : p # r => task'[p] = task[p]
    BY <1>3, <2>2, <2>3 DEF Wiping
  <2>5. \A b \in Accounts : secrets'[b] = IF b \in task[r].refs THEN None ELSE secrets[b]
    BY <1>3, <1>4, <1>6
  <2>6. /\ history' \in History
        /\ history'.overlapped <=> history.overlapped \/ \E p \in Requests : InFlight(p)
        /\ history'.lost = history.lost /\ history'.parted = history.parted
        /\ history'.interrupted = history.interrupted
        /\ history'.unsaved = history.unsaved
    BY <1>1, <1>6, OverlappingIs DEF TablesInv
  <2>7. TablesInv'
    <3>1. secrets' \in [Accounts -> {None} \cup 1 .. MaxGrants]
      BY <1>3, <1>4, <1>6
    <3>2. /\ keys' \subseteq {"client", "azure"} /\ schema' \in BOOLEAN /\ faults' \in Nat
          /\ ~schema' => Connected' = {}
          /\ history'.parted # {} => history'.interrupted
      BY <1>1, <1>2, <1>5, <1>6, <2>6 DEF TablesInv
    <3>3. \A b \in Accounts : rows'[b] \in {None, rows[b]} /\ secrets'[b] \in {None, secrets[b]}
      BY <1>2, <2>5
    <3> QED BY <1>1, <1>2, <1>5, <2>6, <3>1, <3>2, <3>3, FewerTables
  <2>8. TasksInv'
    <3>1. LockInv'
      <4>1. lock' = lock /\ (Locking(new) <=> Locking(task[r]))
        BY <1>2, <1>6, <2>3 DEF Locking
      <4> QED BY <1>1, <1>3, <2>2, <4>1, LockMoves
    <3> QED BY <1>1, <1>2, <2>2, <2>3, <2>4, <3>1 DEF TasksInv
  <2>9. SettingsInv'
    BY <1>1, <1>2, <2>6 DEF SettingsInv, SettingsAgree, Valid
  <2>10. ConnectionsHaveCredentials' /\ KeysInv'
    <3>1. \A b \in Connected' : b \in task[r].refs => b \in BeingWiped'
      BY <2>3, <2>4 DEF BeingWiped
    <3>2. ASSUME NEW b \in Connected', secrets'[b] = None
          PROVE  b \in history'.parted \cup BeingWiped'
      BY <1>1, <1>3, <1>5, <2>5, <2>6, <3>1, <3>2 DEF ConnectionsHaveCredentials, Connected
    <3> QED BY <2>4, <3>2 DEF ConnectionsHaveCredentials, KeysInv
  <2>11. ASSUME ~history'.overlapped, NEW p \in Requests
         PROVE  task'[p].at \notin {"refreshing", "exchanging"}
    BY <2>3, <2>4, <2>6, <2>11 DEF InFlight
  <2>12. CredentialInv'
    <3>1. NoCredentialLeftBehind'
      BY <1>1, <1>2, <2>5, <2>6 DEF CredentialInv, NoCredentialLeftBehind
    <3> QED BY <2>11, <3>1 DEF CredentialInv
  <2>13. WipeInv'
    <3>1. \A p \in Requests : Collected(p)' => p = r
      BY <1>3, <2>4 DEF Collected
    <3>2. \A b \in Connected' : b \notin task'[r].refs => rows'[b].since > task'[r].grant
      BY <1>1, <1>2, <1>5, <2>3, <2>4 DEF WipeInv, Collected
    <3>3. \A b \in task'[r].refs : secrets'[b] = None
      BY <1>3, <2>3, <2>4, <2>5
    <3> QED BY <2>11, <3>1, <3>2, <3>3 DEF WipeInv, Collected
  <2>14. ReauthJustified'
    BY <1>1, <1>2, <1>5, <1>6, <2>6 DEF ReauthJustified
  <2> QED BY <2>7, <2>8, <2>9, <2>10, <2>12, <2>13, <2>14 DEF ConnectionsInv
\* The wipe is given up.
<1>7. CASE task' = [task EXCEPT ![r] = Idle] /\ lock' = Free
  <2>1. /\ task'[r] = Idle /\ \A p \in Requests : p # r => task'[p] = task[p]
        /\ \A p \in Requests : ~Collected(p)'
    BY <1>3, <1>7, IdleTask DEF Collected
  <2>2. TasksInv'
    <3>1. WellTask(Idle, grants)
      <4>1. grants \in Nat /\ 0 \in Nat /\ 0 <= grants
        BY <1>1, BoundsAreNat DEF TablesInv
      <4> QED BY <4>1, IdleTask, LaterGrants, BoundsAreNat
    <3>2. LockInv'
      BY <1>1, <1>3, <1>7, IdleTask, LockMoves
    <3>3. Idle \in TaskTypes
      BY <3>1 DEF WellTask
    <3> QED BY <1>1, <1>2, <1>7, <2>1, <3>1, <3>2, <3>3 DEF TasksInv
  <2>3. WipeInv' /\ ~Wiping' /\ BeingWiped' = {}
    BY <2>1 DEF WipeInv, Wiping, BeingWiped, Collected
  <2>4. CASE /\ Fault
             /\ \E S \in SUBSET task[r].refs :
                   /\ secrets' = Deleting(S)
                   /\ keys' \in IF S = task[r].refs THEN {keys, keys \ {"client"}} ELSE {keys}
                   /\ history' = Overlapping(Halved(history, S))
    <3>1. PICK S \in SUBSET task[r].refs :
             /\ secrets' = Deleting(S)
             /\ keys' \in IF S = task[r].refs THEN {keys, keys \ {"client"}} ELSE {keys}
             /\ history' = Overlapping(Halved(history, S))
      BY <2>4
    <3>2. /\ S \subseteq Accounts /\ keys' \subseteq keys
          /\ faults' \in Nat /\ faults' # 0
      BY <1>1, <1>3, <2>4, <3>1 DEF Fault, TablesInv
    <3>3. /\ history' \in History
          /\ history'.overlapped <=> history.overlapped \/ \E p \in Requests : InFlight(p)
          /\ history'.lost = history.lost
          /\ history'.parted = history.parted \cup (S \cap Connected)
          /\ history'.interrupted /\ history'.unsaved = history.unsaved
      <4>1. history \in History
        BY <1>1 DEF TablesInv
      <4>2. PICK h \in History : h = Halved(history, S)
        BY <4>1, HalvedIs
      <4>3. /\ h.parted = history.parted \cup (S \cap Connected)
            /\ h.lost = history.lost /\ h.overlapped = history.overlapped
            /\ h.interrupted /\ h.unsaved = history.unsaved
        BY <4>1, <4>2, HalvedIs
      <4>4. history' = Overlapping(h)
        BY <3>1, <4>2
      <4> QED BY <4>3, <4>4, OverlappingIs
    <3>4. /\ secrets' \in [Accounts -> {None} \cup 1 .. MaxGrants]
          /\ \A b \in Accounts : secrets'[b] = IF b \in S THEN None ELSE secrets[b]
      BY <1>4, <3>1, <3>2
    <3>5. TablesInv'
      <4>1. /\ keys' \subseteq {"client", "azure"} /\ schema' \in BOOLEAN
            /\ ~schema' => Connected' = {}
        BY <1>1, <1>2, <1>5, <3>2 DEF TablesInv
      <4>2. \A b \in Accounts : rows'[b] \in {None, rows[b]} /\ secrets'[b] \in {None, secrets[b]}
        BY <1>2, <3>4
      <4> QED BY <1>1, <1>2, <1>5, <3>2, <3>3, <3>4, <4>1, <4>2, FewerTables
    <3>6. SettingsInv'
      BY <1>1, <1>2, <3>3 DEF SettingsInv, SettingsAgree, Valid
    <3>7. KeysInv' /\ ReauthJustified'
      BY <3>3 DEF KeysInv, ReauthJustified
    <3>8. ConnectionsHaveCredentials'
      BY <1>1, <1>3, <1>5, <3>3, <3>4 DEF ConnectionsHaveCredentials, Connected
    <3>9. CredentialInv'
      <4>1. NoCredentialLeftBehind'
        BY <1>1, <1>2, <3>3, <3>4 DEF CredentialInv, NoCredentialLeftBehind
      <4>2. ASSUME ~history'.overlapped, NEW p \in Requests
            PROVE  task'[p].at \notin {"refreshing", "exchanging"}
        BY <2>1, <3>3, <4>2, IdleTask DEF InFlight
      <4> QED BY <4>1, <4>2 DEF CredentialInv
    <3> QED BY <2>2, <2>3, <3>5, <3>6, <3>7, <3>8, <3>9 DEF ConnectionsInv
  <2>5. CASE UNCHANGED <<secrets, keys, history, faults>>
    <3>1. TablesInv' /\ SettingsInv'
      BY <1>1, <1>2, <1>5, <2>5 DEF TablesInv, SettingsInv, SettingsAgree, Valid
    <3>2. ConnectionsHaveCredentials' /\ ReauthJustified'
      BY <1>1, <1>2, <1>3, <1>5, <2>5 DEF ConnectionsHaveCredentials, ReauthJustified
    <3>3. CredentialInv'
      BY <1>1, <1>2, <2>1, <2>5, IdleTask DEF CredentialInv, NoCredentialLeftBehind
    <3>4. KeysInv'
      BY <1>1, <1>2, <1>3, <1>5, <2>1, <2>3, <2>5, IdleTask DEF KeysInv
    <3> QED BY <2>2, <2>3, <3>1, <3>2, <3>3, <3>4 DEF ConnectionsInv
  <2> QED BY <1>2, <1>6, <1>7, <2>4, <2>5, IdleTask DEF WipeSecrets
<1> QED BY <1>6, <1>7 DEF WipeSecrets

\* The connections go with the tables: only credentials of connections made since the
\* wipe began are left, and the history says so.
LEMMA WipeFilesKeeps ==
  ASSUME AccountsInv, NEW r \in Requests, WipeFiles(r)
  PROVE  ConnectionsInv'
<1>1. TablesInv /\ TasksInv /\ SettingsInv /\ ConnectionsHaveCredentials /\ CredentialInv /\ WipeInv
      /\ KeysInv /\ ReauthJustified /\ LockInv
  BY DEF AccountsInv, ConnectionsInv, TasksInv
<1>2. /\ task[r].at = "wiping" /\ ~schema' /\ schema' \in BOOLEAN
      /\ rows' = Dropping(Accounts) /\ stored' = None
      /\ task' = [task EXCEPT ![r] = Idle] /\ lock' = Free
      /\ history' = [Overlapping(history) EXCEPT
                       !.overlapped = @ \/ \E a \in Accounts : ConnectedSince(r, a),
                       !.parted = {}]
      /\ UNCHANGED <<secrets, grants, revoked, keys, settings, job, faults>>
  BY DEF WipeFiles, credentials
<1>3. /\ \A a \in Accounts : rows'[a] = None
      /\ rows' \in [Accounts -> {None} \cup Connection] /\ Connected' = {}
  BY <1>2 DEF Dropping, Connected
<1>4. /\ history' \in History
      /\ history'.overlapped <=> \/ history.overlapped \/ \E p \in Requests : InFlight(p)
                                 \/ \E a \in Accounts : ConnectedSince(r, a)
      /\ history'.lost = history.lost /\ history'.parted = {}
      /\ history'.interrupted = history.interrupted
      /\ history'.unsaved = history.unsaved
  <2>1. PICK o \in History : o = Overlapping(history)
    BY <1>1, OverlappingIs DEF TablesInv
  <2>2. PICK since \in BOOLEAN : since <=> \E a \in Accounts : ConnectedSince(r, a)
    OBVIOUS
  <2>3. history' = [o EXCEPT !.overlapped = o.overlapped \/ since, !.parted = {}]
    BY <1>2, <2>1, <2>2
  <2>4. /\ history' \in History /\ (history'.overlapped <=> o.overlapped \/ since)
        /\ history'.lost = o.lost /\ history'.parted = {}
        /\ history'.interrupted = o.interrupted /\ history'.unsaved = o.unsaved
    BY <2>1, <2>3 DEF History
  <2> QED BY <1>1, <2>1, <2>2, <2>4, OverlappingIs DEF TablesInv
<1>5. /\ task'[r] = Idle /\ Idle.at = "idle"
      /\ \A p \in Requests : p # r => task'[p] = task[p] /\ ~Collected(p)
  BY <1>1, <1>2, IdleTask DEF TasksInv, LockInv, Locking, Collected
<1>6. TablesInv'
  <2>1. /\ keys' \subseteq {"client", "azure"} /\ faults' \in Nat
        /\ secrets' \in [Accounts -> {None} \cup 1 .. MaxGrants]
    BY <1>1, <1>2 DEF TablesInv
  <2> QED BY <1>1, <1>2, <1>3, <1>4, <2>1, FewerTables
<1>7. TasksInv'
  <2>1. WellTask(Idle, grants)
    <3>1. grants \in Nat /\ 0 \in Nat /\ 0 <= grants
      BY <1>1, BoundsAreNat DEF TablesInv
    <3> QED BY <3>1, IdleTask, LaterGrants, BoundsAreNat
  <2>2. lock \in {Free, r} /\ DOMAIN task = Requests
    BY <1>1, <1>2 DEF LockInv, Locking, TasksInv
  <2>3. LockInv'
    BY <1>1, <1>2, <2>2, IdleTask, LockMoves
  <2>4. Idle \in TaskTypes
    BY <2>1 DEF WellTask
  <2> QED BY <1>1, <1>2, <1>5, <2>1, <2>3, <2>4 DEF TasksInv
<1>8. SettingsInv'
  BY <1>1, <1>2, <1>4 DEF SettingsInv, SettingsAgree, Valid
<1>9. ConnectionsHaveCredentials' /\ KeysInv' /\ ReauthJustified'
  BY <1>2, <1>3 DEF ConnectionsHaveCredentials, KeysInv, ReauthJustified
<1>10. CredentialInv'
  <2>1. ASSUME ~history'.overlapped, NEW b \in Accounts, secrets[b] # None
        PROVE  b \in history.lost
    <3>1. CASE rows[b] = None
      BY <1>1, <1>4, <2>1, <3>1 DEF CredentialInv, NoCredentialLeftBehind
    <3>2. CASE rows[b] # None
      <4>1. CASE b \in task[r].refs
        <5>1. secrets[b] > task[r].grant
          BY <1>1, <1>2, <1>4, <2>1, <4>1 DEF WipeInv
        <5> QED BY <1>4, <2>1, <3>2, <5>1 DEF ConnectedSince
      <4>2. CASE b \notin task[r].refs
        <5>1. rows[b].since > task[r].grant
          BY <1>1, <1>2, <3>2, <4>2 DEF WipeInv, Collected, Connected
        <5> QED BY <1>4, <2>1, <3>2, <5>1 DEF ConnectedSince
      <4> QED BY <4>1, <4>2
    <3> QED BY <3>1, <3>2
  <2>2. ASSUME ~history'.overlapped, NEW p \in Requests
        PROVE  task'[p].at \notin {"refreshing", "exchanging"}
    BY <1>4, <1>5, <2>2 DEF InFlight
  <2> QED BY <1>2, <1>4, <2>1, <2>2 DEF CredentialInv, NoCredentialLeftBehind
<1>11. WipeInv'
  BY <1>5 DEF WipeInv, Collected
<1> QED BY <1>6, <1>7, <1>8, <1>9, <1>10, <1>11 DEF ConnectionsInv

-----------------------------------------------------------------------------
\* An update keeps settings that are settings.
LEMMA UpdatedSettings ==
  ASSUME NEW s \in Settings, NEW u \in SettingsUpdates
  PROVE  /\ Updated(s, u) \in Settings
         /\ Updated(s, u).onOpen = IF u.onOpen = None THEN s.onOpen ELSE u.onOpen
<1>1. PICK provider : provider = Given(u.provider, s.provider)
  OBVIOUS
<1>2. PICK mode : mode = Given(u.mode, IF provider = s.provider THEN s.mode
                                       ELSE Recommended(provider))
  OBVIOUS
<1>3. PICK onOpen : onOpen = IF u.onOpen = None THEN s.onOpen ELSE u.onOpen
  OBVIOUS
<1>a. PICK azure, ollama : azure = Given(u.azure, s.azure) /\ ollama = Given(u.ollama, s.ollama)
  OBVIOUS
<1>4. Updated(s, u) = [provider |-> provider, mode |-> mode, onOpen |-> onOpen,
                       azure |-> azure, ollama |-> ollama]
  BY <1>1, <1>2, <1>3, <1>a DEF Updated, Given
<1>5. provider \in {"ollama", "azure"}
  BY <1>1 DEF Given, Settings, SettingsUpdates
<1>6. mode \in {"local", "hybrid"}
  BY <1>2, <1>5 DEF Given, Recommended, Settings, SettingsUpdates
<1>7. onOpen \in BOOLEAN /\ azure \in BOOLEAN /\ ollama \in BOOLEAN
  BY <1>3, <1>a DEF Given, Settings, SettingsUpdates
<1> QED BY <1>3, <1>4, <1>5, <1>6, <1>7 DEF Settings

LEMMA UpdateKeeps ==
  ASSUME ConnectionsInv, UpdateSettings
  PROVE  ConnectionsInv'
<1>1. TablesInv /\ TasksInv /\ SettingsInv /\ ConnectionsHaveCredentials /\ CredentialInv /\ WipeInv
      /\ KeysInv /\ ReauthJustified
  BY DEF ConnectionsInv
<1>2. UNCHANGED <<rows, schema, task, lock, secrets, grants, revoked>>
  BY DEF UpdateSettings, credentials
<1>3. PICK u \in Inputs, given \in SUBSET {"client", "azure"} :
        LET new == Updated(settings, u) IN
          /\ Valid(new)
          /\ \/ /\ schema
                /\ keys' = keys \cup given
                /\ job' = Reconfigured(u)
                /\ settings' = new /\ stored' = new
                /\ history' = [history EXCEPT !.unsaved = @ /\ u.onOpen = None]
                /\ UNCHANGED faults
             \/ /\ (~schema /\ UNCHANGED faults) \/ Fault
                /\ keys' = keys \cup given
                /\ job' = Reconfigured(u)
                /\ history' = [history EXCEPT !.unsaved = @ \/ u.onOpen # None]
                /\ UNCHANGED <<settings, stored>>
             \/ /\ Fault
                /\ given # {}
                /\ keys' \in IF given = {"client", "azure"} THEN {keys, keys \cup {"client"}}
                             ELSE {keys}
                /\ UNCHANGED <<settings, stored, job, history>>
  BY DEF UpdateSettings
<1>4. u \in SettingsUpdates /\ settings \in Settings /\ history \in History /\ job \in BOOLEAN
  BY <1>1, InputsAreUpdates DEF SettingsInv, TablesInv
<1>5. PICK new : new = Updated(settings, u)
  OBVIOUS
<1>6. new \in Settings /\ new.onOpen = IF u.onOpen = None THEN settings.onOpen ELSE u.onOpen
  BY <1>4, <1>5, UpdatedSettings
<1>7. keys \subseteq keys' /\ keys' \subseteq {"client", "azure"}
  BY <1>1, <1>3 DEF TablesInv
<1>8. faults' \in Nat /\ (faults' = 0 => faults = 0)
  BY <1>1, <1>3 DEF TablesInv, Fault
<1>9. /\ history' \in History
      /\ history'.overlapped = history.overlapped
      /\ history'.lost = history.lost /\ history'.parted = history.parted
      /\ history'.interrupted = history.interrupted
  <2>1. PICK b \in BOOLEAN : history' = [history EXCEPT !.unsaved = b] \/ history' = history
    <3>1. CASE history' = [history EXCEPT !.unsaved = @ /\ u.onOpen = None]
      <4>1. (history.unsaved /\ u.onOpen = None) \in BOOLEAN
        OBVIOUS
      <4> QED BY <3>1, <4>1
    <3>2. CASE history' = [history EXCEPT !.unsaved = @ \/ u.onOpen # None]
      <4>1. (history.unsaved \/ u.onOpen # None) \in BOOLEAN
        OBVIOUS
      <4> QED BY <3>2, <4>1
    <3> QED BY <1>3, <3>1, <3>2
  <2> QED BY <1>4, <2>1 DEF History
<1>10. SettingsInv'
  <2>1. CASE /\ schema /\ Valid(new) /\ job' = Reconfigured(u)
             /\ settings' = new /\ stored' = new
             /\ history' = [history EXCEPT !.unsaved = @ /\ u.onOpen = None]
    <3>1. history'.unsaved <=> history.unsaved /\ u.onOpen = None
      BY <1>4, <2>1 DEF History
    <3>2. job' = IF u.onOpen = None THEN job ELSE u.onOpen
      BY <2>1 DEF Reconfigured
    <3>3. ~history'.unsaved => job' = settings'.onOpen
      <4>1. CASE u.onOpen = None
        BY <1>1, <1>6, <2>1, <3>1, <3>2, <4>1 DEF SettingsInv, SettingsAgree
      <4>2. CASE u.onOpen # None
        BY <1>6, <2>1, <3>2, <4>2
      <4> QED BY <4>1, <4>2
    <3>4. job' \in BOOLEAN
      BY <1>4, <3>2 DEF SettingsUpdates
    <3>5. Valid(settings)'
      BY <2>1 DEF Valid
    <3> QED BY <1>2, <1>6, <2>1, <3>3, <3>4, <3>5 DEF SettingsInv, SettingsAgree
  <2>2. CASE /\ job' = Reconfigured(u)
             /\ history' = [history EXCEPT !.unsaved = @ \/ u.onOpen # None]
             /\ UNCHANGED <<settings, stored>>
    <3>1. history'.unsaved <=> history.unsaved \/ u.onOpen # None
      BY <1>4, <2>2 DEF History
    <3>2. job' = IF u.onOpen = None THEN job ELSE u.onOpen
      BY <2>2 DEF Reconfigured
    <3>3. ~history'.unsaved => job' = settings'.onOpen
      BY <1>1, <2>2, <3>1, <3>2 DEF SettingsInv, SettingsAgree
    <3>4. job' \in BOOLEAN
      BY <1>4, <3>2 DEF SettingsUpdates
    <3>5. Valid(settings)'
      BY <1>1, <2>2 DEF SettingsInv, Valid
    <3> QED BY <1>1, <1>2, <2>2, <3>3, <3>4, <3>5 DEF SettingsInv, SettingsAgree
  <2>3. CASE UNCHANGED <<settings, stored, job, history>>
    BY <1>1, <1>2, <2>3 DEF SettingsInv, SettingsAgree, Valid
  <2> QED BY <1>3, <1>5, <2>1, <2>2, <2>3
<1>11. TablesInv'
  BY <1>1, <1>2, <1>7, <1>8, <1>9 DEF TablesInv, Connected
<1>12. TasksInv' /\ (Wiping' <=> Wiping)
  BY <1>1, <1>2 DEF TasksInv, LockInv, Wiping
<1>13. ConnectionsHaveCredentials' /\ ReauthJustified'
  BY <1>1, <1>2, <1>8, <1>9, <1>12
  DEF ConnectionsHaveCredentials, ReauthJustified, Connected, BeingWiped
<1>14. CredentialInv' /\ WipeInv'
  BY <1>1, <1>2, <1>9
  DEF CredentialInv, NoCredentialLeftBehind, WipeInv, Collected, Connected
<1>15. KeysInv'
  BY <1>1, <1>2, <1>7, <1>9, <1>12 DEF KeysInv, Connected
<1> QED BY <1>10, <1>11, <1>12, <1>13, <1>14, <1>15 DEF ConnectionsInv

-----------------------------------------------------------------------------
\* A restart ends what requests were doing; a wipe it cuts short is remembered.
LEMMA RestartedIs ==
  ASSUME ConnectionsInv, Restarted, UNCHANGED stored
  PROVE  /\ schema' = TRUE /\ keys \subseteq keys' /\ keys' \subseteq {"client", "azure"}
         /\ settings' \in Settings /\ Valid(settings') /\ job' = settings'.onOpen
         /\ stored' \in Settings \cup {None} /\ (stored' # None => stored' = settings')
         /\ \A r \in Requests : task'[r] = Idle
         /\ task' \in [Requests -> TaskTypes] /\ lock' = Free
         /\ ~Wiping' /\ LockInv' /\ WipeInv'
<1>1. SettingsInv /\ TablesInv
  BY DEF ConnectionsInv
<1>2. /\ schema' = TRUE /\ settings' = Restored /\ job' = Restored.onOpen
      /\ task' = [r \in Requests |-> Idle] /\ lock' = Free
      /\ keys' \in {keys, keys \cup {"azure"}}
  BY DEF Restarted
<1>3. Idle \in TaskTypes /\ Idle.at = "idle" /\ ~Locking(Idle)
  BY IdleTask DEF WellTask
<1>4. \A r \in Requests : task'[r] = Idle
  BY <1>2
<1>5. Defaults \in Settings /\ Valid(Defaults)
  BY DEF Defaults, Settings, Valid
<1>6. Restored \in Settings /\ Valid(Restored)
  BY <1>1, <1>5 DEF Restored, SettingsInv, SettingsAgree
<1>7. stored # None => stored = Restored
  BY DEF Restored
<1>8. ~Wiping' /\ LockInv' /\ WipeInv'
  <2>1. \A r \in Requests : task'[r].at \notin {"collected", "wiping"}
    BY <1>3, <1>4
  <2>2. \A r \in Requests : ~Locking(task'[r])
    BY <1>3, <1>4
  <2> QED BY <1>2, <2>1, <2>2 DEF Wiping, LockInv, WipeInv, Collected
<1>9. keys \subseteq keys' /\ keys' \subseteq {"client", "azure"}
  BY <1>1, <1>2 DEF TablesInv
<1> QED BY <1>1, <1>2, <1>3, <1>4, <1>6, <1>7, <1>8, <1>9 DEF SettingsInv

LEMMA HistoryAtEndIs ==
  ASSUME TablesInv
  PROVE  /\ HistoryAtEnd \in History
         /\ HistoryAtEnd.overlapped = history.overlapped
         /\ HistoryAtEnd.lost = history.lost
         /\ HistoryAtEnd.parted = history.parted \cup BeingWiped
         /\ HistoryAtEnd.interrupted <=> history.interrupted \/ Wiping
         /\ HistoryAtEnd.parted # {} => HistoryAtEnd.interrupted
<1>1. history \in History
  BY DEF TablesInv
<1>2. PICK busy \in BOOLEAN : busy <=> Wiping
  OBVIOUS
<1>3. HistoryAtEnd = [history EXCEPT !.unsaved = FALSE,
                                     !.interrupted = history.interrupted \/ busy,
                                     !.parted = history.parted \cup BeingWiped]
  BY <1>2 DEF HistoryAtEnd
<1>4. BeingWiped \subseteq Accounts /\ (BeingWiped # {} => Wiping)
  BY DEF BeingWiped, Wiping, Connected
<1>5. /\ HistoryAtEnd \in History
      /\ HistoryAtEnd.overlapped = history.overlapped
      /\ HistoryAtEnd.lost = history.lost
      /\ HistoryAtEnd.parted = history.parted \cup BeingWiped
      /\ HistoryAtEnd.interrupted = (history.interrupted \/ busy)
  BY <1>1, <1>3, <1>4 DEF History
<1> QED BY <1>2, <1>4, <1>5 DEF TablesInv

LEMMA RestartKeeps ==
  ASSUME AccountsInv, Restart
  PROVE  ConnectionsInv'
<1>1. TablesInv /\ TasksInv /\ SettingsInv /\ ConnectionsHaveCredentials /\ CredentialInv /\ WipeInv
      /\ KeysInv /\ ReauthJustified /\ ConnectionsInv
  BY DEF AccountsInv, ConnectionsInv
<1>2. /\ Restarted /\ history' = HistoryAtEnd
      /\ UNCHANGED <<rows, stored, secrets, grants, revoked, faults>>
  BY DEF Restart, credentials
<1>3. /\ schema' = TRUE /\ keys \subseteq keys' /\ keys' \subseteq {"client", "azure"}
      /\ settings' \in Settings /\ Valid(settings') /\ job' = settings'.onOpen
      /\ stored' \in Settings \cup {None} /\ (stored' # None => stored' = settings')
      /\ \A r \in Requests : task'[r] = Idle
      /\ task' \in [Requests -> TaskTypes] /\ lock' = Free
      /\ ~Wiping' /\ LockInv' /\ WipeInv'
  BY <1>1, <1>2, RestartedIs
<1>4. /\ history' \in History
      /\ history'.overlapped = history.overlapped
      /\ history'.lost = history.lost /\ history'.parted = history.parted \cup BeingWiped
      /\ history'.interrupted <=> history.interrupted \/ Wiping
      /\ history'.parted # {} => history'.interrupted
  BY <1>1, <1>2, HistoryAtEndIs
<1>5. TablesInv'
  BY <1>1, <1>2, <1>3, <1>4 DEF TablesInv, Connected
<1>6. TasksInv'
  <2>1. WellTask(Idle, grants)
    <3>1. grants \in Nat /\ 0 \in Nat /\ 0 <= grants
      BY <1>1, BoundsAreNat DEF TablesInv
    <3> QED BY <3>1, IdleTask, LaterGrants, BoundsAreNat
  <2> QED BY <1>2, <1>3, <2>1 DEF TasksInv
<1>7. SettingsInv'
  <2>1. Valid(settings)' /\ job' \in BOOLEAN
    BY <1>3 DEF Valid, Settings
  <2> QED BY <1>3, <2>1 DEF SettingsInv, SettingsAgree
<1>8. ConnectionsHaveCredentials'
  BY <1>1, <1>2, <1>4 DEF ConnectionsHaveCredentials, Connected
<1>9. CredentialInv'
  BY <1>1, <1>2, <1>3, <1>4, IdleTask DEF CredentialInv, NoCredentialLeftBehind
<1>10. KeysInv'
  <2>1. ASSUME ~history'.interrupted, Connected' # {} PROVE "client" \in keys
    BY <1>1, <1>2, <1>4, <2>1 DEF KeysInv, TablesInv, Connected
  <2> QED BY <1>3, <2>1, IdleTask DEF KeysInv
<1>11. ReauthJustified'
  BY <1>1, <1>2, <1>4 DEF ReauthJustified, Connected
<1> QED BY <1>3, <1>5, <1>6, <1>7, <1>8, <1>9, <1>10, <1>11 DEF ConnectionsInv

\* A crash between the credential and its row leaves one without the other, and the
\* history tells which.
LEMMA CutOffKeeps ==
  ASSUME AccountsInv, CutOff
  PROVE  ConnectionsInv'
<1>1. TablesInv /\ TasksInv /\ SettingsInv /\ ConnectionsHaveCredentials /\ CredentialInv /\ WipeInv
      /\ KeysInv /\ ReauthJustified /\ ConnectionsInv
  BY DEF AccountsInv, ConnectionsInv
<1>2. \/ /\ grants < MaxGrants /\ \E r \in Requests : task[r].at = "exchanging"
         /\ grants' = grants + 1
         /\ \E a \in Accounts :
               /\ secrets' = WithSecret(a, grants + 1)
               /\ history' = Stray(HistoryAtEnd, a)
      \/ /\ \E S \in DeletedSoFar :
               /\ secrets' = Deleting(S)
               /\ history' = Halved(HistoryAtEnd, S)
         /\ UNCHANGED grants
  BY DEF CutOff
<1>3. /\ Restarted /\ UNCHANGED <<rows, stored, revoked>> /\ faults' \in Nat /\ faults' # 0
  BY <1>1 DEF CutOff, Fault, TablesInv
<1>4. /\ schema' = TRUE /\ keys \subseteq keys' /\ keys' \subseteq {"client", "azure"}
      /\ settings' \in Settings /\ Valid(settings') /\ job' = settings'.onOpen
      /\ stored' \in Settings \cup {None} /\ (stored' # None => stored' = settings')
      /\ \A r \in Requests : task'[r] = Idle
      /\ task' \in [Requests -> TaskTypes] /\ lock' = Free
      /\ ~Wiping' /\ LockInv' /\ WipeInv'
  BY <1>1, <1>3, RestartedIs
<1>5. PICK h \in History : h = HistoryAtEnd
  BY <1>1, HistoryAtEndIs
<1>6. /\ h.overlapped = history.overlapped /\ h.lost = history.lost
      /\ h.parted = history.parted \cup BeingWiped /\ (h.parted # {} => h.interrupted)
      /\ h.interrupted <=> history.interrupted \/ Wiping
  BY <1>1, <1>5, HistoryAtEndIs
<1>7. grants \in Nat /\ grants' \in Nat /\ grants <= grants' /\ grants' \in 0 .. MaxGrants
  BY <1>1, <1>2, BoundsAreNat DEF TablesInv
<1>8. TasksInv'
  <2>1. WellTask(Idle, grants')
    <3>1. 0 \in Nat /\ 0 <= grants'
      BY <1>7
    <3> QED BY <1>7, <3>1, IdleTask, LaterGrants, BoundsAreNat
  <2> QED BY <1>4, <2>1 DEF TasksInv
<1>9. SettingsInv'
  <2>1. Valid(settings)' /\ job' \in BOOLEAN
    BY <1>4 DEF Valid, Settings
  <2> QED BY <1>4, <2>1 DEF SettingsInv, SettingsAgree
<1>10. ReauthJustified'
  BY <1>3 DEF ReauthJustified
<1>11. ASSUME NEW a \in Accounts, grants < MaxGrants, grants' = grants + 1,
              secrets' = WithSecret(a, grants + 1), history' = Stray(HistoryAtEnd, a)
       PROVE  ConnectionsInv'
  <2>1. /\ history' \in History
        /\ history'.lost = IF rows[a] = None THEN h.lost \cup {a} ELSE h.lost
        /\ history'.parted = h.parted /\ history'.overlapped = h.overlapped
        /\ history'.interrupted = h.interrupted
    BY <1>5, <1>11, StrayIs
  <2>2. /\ secrets'[a] = grants + 1
        /\ \A b \in Accounts : b # a => secrets'[b] = secrets[b]
        /\ secrets' \in [Accounts -> {None} \cup 1 .. MaxGrants]
        /\ grants + 1 # None
    <3>1. grants + 1 \in 1 .. MaxGrants /\ grants + 1 \in Nat
      BY <1>7, <1>11
    <3> QED BY <1>1, <1>11, <3>1, NoneDiffers DEF WithSecret, TablesInv
  <2>3. TablesInv'
    <3>1. \A b \in Accounts : /\ secrets'[b] # None => secrets'[b] <= grants'
                              /\ rows'[b] # None => rows'[b].since <= grants'
      BY <1>1, <1>3, <1>7, <1>11, <2>2 DEF TablesInv, Connection
    <3>2. revoked' \subseteq 1 .. grants'
      BY <1>1, <1>3, <1>7, <1>11 DEF TablesInv
    <3> QED BY <1>1, <1>3, <1>4, <1>6, <1>7, <2>1, <2>2, <3>1, <3>2 DEF TablesInv, Connected
  <2>4. ConnectionsHaveCredentials'
    BY <1>1, <1>3, <1>6, <2>1, <2>2 DEF ConnectionsHaveCredentials, Connected
  <2>5. CredentialInv'
    BY <1>1, <1>3, <1>4, <1>6, <2>1, <2>2, IdleTask DEF CredentialInv, NoCredentialLeftBehind
  <2>6. KeysInv'
    <3>1. ASSUME ~history'.interrupted, Connected' # {} PROVE "client" \in keys
      BY <1>1, <1>3, <1>6, <2>1, <3>1 DEF KeysInv, TablesInv, Connected
    <3> QED BY <1>4, <3>1, IdleTask DEF KeysInv
  <2> QED BY <1>4, <1>8, <1>9, <1>10, <2>3, <2>4, <2>5, <2>6 DEF ConnectionsInv
<1>12. ASSUME NEW S \in DeletedSoFar, secrets' = Deleting(S),
              history' = Halved(HistoryAtEnd, S), UNCHANGED grants
       PROVE  ConnectionsInv'
  <2>1. /\ history' \in History /\ history'.interrupted
        /\ history'.parted = h.parted \cup (S \cap Connected)
        /\ history'.overlapped = h.overlapped /\ history'.lost = h.lost
    BY <1>5, <1>12, HalvedIs
  <2>2. /\ \A b \in Accounts : secrets'[b] = IF b \in S THEN None ELSE secrets[b]
        /\ secrets' \in [Accounts -> {None} \cup 1 .. MaxGrants]
    BY <1>1, <1>12 DEF Deleting, TablesInv
  <2>3. TablesInv'
    <3>1. \A b \in Accounts : rows'[b] \in {None, rows[b]} /\ secrets'[b] \in {None, secrets[b]}
      BY <1>3, <2>2
    <3>2. rows' \in [Accounts -> {None} \cup Connection] /\ schema' \in BOOLEAN
      BY <1>1, <1>3, <1>4 DEF TablesInv
    <3> QED BY <1>1, <1>3, <1>4, <1>12, <2>1, <2>2, <3>1, <3>2, FewerTables
  <2>4. ConnectionsHaveCredentials'
    BY <1>1, <1>3, <1>6, <2>1, <2>2 DEF ConnectionsHaveCredentials, Connected
  <2>5. KeysInv'
    BY <2>1 DEF KeysInv
  <2>6. CredentialInv'
    BY <1>1, <1>3, <1>4, <1>6, <2>1, <2>2, IdleTask DEF CredentialInv, NoCredentialLeftBehind
  <2> QED BY <1>4, <1>8, <1>9, <1>10, <2>3, <2>4, <2>5, <2>6 DEF ConnectionsInv
<1> QED BY <1>2, <1>11, <1>12

-----------------------------------------------------------------------------
\* A nonce that lets a callback through is gone for good.
LEMMA NonceStep ==
  ASSUME NonceInv, [Next]_vars
  PROVE  NonceInv'
<1>1. CASE UNCHANGED <<issued, redeemed>>
  BY <1>1 DEF NonceInv
<1>2. CASE StartAuthorization
  BY <1>2 DEF StartAuthorization, NonceInv
<1>3. CASE StateExpires
  BY <1>3 DEF StateExpires, NonceInv
<1>4. ASSUME NEW r \in Requests, Callback(r) PROVE NonceInv'
  <2>1. PICK s \in States :
          /\ issued[s] # "unused" /\ issued' = Consumed(s)
          /\ redeemed' = [redeemed EXCEPT ![s] = IF issued[s] = "pending" THEN @ + 1 ELSE @]
    BY <1>4 DEF Callback
  <2>2. \A x \in States : /\ issued'[x] = "gone" \/ issued'[x] = issued[x]
                          /\ x = s => issued'[x] = "gone"
    BY <2>1 DEF Consumed
  <2>3. issued' \in [States -> {"unused", "pending", "expired", "gone"}]
    BY <2>1 DEF Consumed, NonceInv
  <2>4. redeemed'[s] \in {0, 1} /\ redeemed' \in [States -> {0, 1}]
        /\ \A x \in States : x # s => redeemed'[x] = redeemed[x]
    <3>1. PICK n : n = IF issued[s] = "pending" THEN redeemed[s] + 1 ELSE redeemed[s]
      OBVIOUS
    <3>2. n \in {0, 1}
      BY <3>1 DEF NonceInv
    <3> QED BY <2>1, <3>1, <3>2 DEF NonceInv
  <2> QED BY <2>2, <2>3, <2>4 DEF NonceInv
<1>5. ASSUME NEW r \in Requests, WipeFiles(r) PROVE NonceInv'
  BY <1>5 DEF WipeFiles, NonceInv
<1> QED
  BY <1>1, <1>2, <1>3, <1>4, <1>5
  DEF Next, vars, tables, UpdateSettings, Restart, CutOff, ExchangeFails, ExchangeSucceeds,
      StartSync, OpenMessage, ReadMessage, Refreshed, RefreshRejected, Answered,
      AnsweredUnauthorized, RequestFails, StartWipe, WipeSecrets, Revoke, Disconnect

LEMMA AccountsStart == Init => AccountsInv
<1> SUFFICES ASSUME Init PROVE AccountsInv
  OBVIOUS
<1>1. MaxGrants \in Nat
  BY BoundsAreNat
<1>2. \A r \in Requests : task[r] = Idle
  BY DEF Init
<1>3. Connected = {}
  BY DEF Init, Connected
<1>4. TablesInv
  BY <1>1, <1>3 DEF Init, TablesInv, History, Calm
<1>5. TasksInv
  <2>1. 0 \in Nat /\ grants = 0
    BY DEF Init
  <2>2. WellTask(Idle, grants) /\ Idle \in TaskTypes
    BY <2>1, IdleTask DEF WellTask
  <2>3. LockInv
    BY <1>2, IdleTask DEF Init, LockInv
  <2> QED BY <1>2, <2>2, <2>3 DEF Init, TasksInv
<1>6. NonceInv
  BY DEF Init, NonceInv
<1>7. SettingsInv
  BY DEF Init, SettingsInv, SettingsAgree, Defaults, Settings, Valid, Calm
<1>8. ConnectionsHaveCredentials /\ CredentialInv /\ WipeInv /\ ReauthJustified
  BY <1>2, <1>3, IdleTask
  DEF Init, ConnectionsHaveCredentials, CredentialInv, NoCredentialLeftBehind, WipeInv,
      Collected, ReauthJustified
<1>9. KeysInv
  BY <1>2, <1>3, IdleTask DEF KeysInv
<1> QED BY <1>4, <1>5, <1>6, <1>7, <1>8, <1>9 DEF AccountsInv, ConnectionsInv

LEMMA AccountsStep == AccountsInv /\ [Next]_vars => AccountsInv'
<1> SUFFICES ASSUME AccountsInv, [Next]_vars PROVE AccountsInv'
  OBVIOUS
<1>1. NonceInv'
  BY NonceStep DEF AccountsInv
<1>2. ConnectionsInv
  BY DEF AccountsInv
<1> SUFFICES ConnectionsInv'
  BY <1>1 DEF AccountsInv
<1>3. CASE StartAuthorization \/ StateExpires \/ UNCHANGED vars
  BY <1>2, <1>3, NothingMoves DEF StartAuthorization, StateExpires, vars
<1>4. CASE UpdateSettings
  BY <1>2, <1>4, UpdateKeeps
<1>5. CASE Restart \/ CutOff
  BY <1>5, RestartKeeps, CutOffKeeps
<1>6. ASSUME NEW r \in Requests,
             \/ Callback(r) \/ ExchangeFails(r) \/ StartSync(r) \/ OpenMessage(r)
             \/ ReadMessage(r) \/ RefreshRejected(r) \/ Answered(r)
             \/ AnsweredUnauthorized(r) \/ RequestFails(r)
      PROVE  ConnectionsInv'
  BY <1>6, QuietSteps, QuietKeeps
<1>7. ASSUME NEW r \in Requests,
             \/ ExchangeSucceeds(r) \/ Refreshed(r)
             \/ StartWipe(r) \/ WipeSecrets(r) \/ WipeFiles(r)
      PROVE  ConnectionsInv'
  BY <1>7, ExchangeKeeps, RefreshKeeps, StartWipeKeeps, WipeSecretsKeeps, WipeFilesKeeps
<1>8. ASSUME NEW a \in Accounts, Revoke(a) \/ Disconnect(a) PROVE ConnectionsInv'
  BY <1>2, <1>8, RevokeKeeps, DisconnectKeeps
<1> QED BY <1>3, <1>4, <1>5, <1>6, <1>7, <1>8 DEF Next

LEMMA AccountsInvariant == Spec => []AccountsInv
BY AccountsStart, AccountsStep, PTL DEF Spec

-----------------------------------------------------------------------------
\* Every variable has its type: in particular only a run or a wipe has the lock, and
\* without tables there is neither a connection nor a saved setting.
THEOREM AccountsTypeCorrect == Spec => []TypeOK
<1>1. AccountsInv => TypeOK
  <2> SUFFICES ASSUME AccountsInv PROVE TypeOK
    OBVIOUS
  <2>1. TablesInv /\ TasksInv /\ NonceInv /\ SettingsInv
    BY DEF AccountsInv, ConnectionsInv
  <2>2. \A c \in Connection : c \in [since : 1 .. MaxGrants, reauth : BOOLEAN]
    BY DEF Connection
  <2>3. rows \in [Accounts -> {None} \cup [since : 1 .. MaxGrants, reauth : BOOLEAN]]
    BY <2>1 DEF TablesInv, Connection
  <2>4. /\ lock = Free \/ (lock \in Requests /\ Locked(lock))
        /\ \A r \in Requests : Locked(r) => lock = r
    BY <2>1 DEF TasksInv, LockInv, Locking, Locked
  <2> QED BY <2>1, <2>3, <2>4 DEF TypeOK, TablesInv, TasksInv, NonceInv, SettingsInv
<1> QED BY <1>1, AccountsInvariant, PTL

\* A credential without its connection, or a connection without its credential, is left
\* only by the accident that accounts for it, and no nonce is worth two callbacks.
THEOREM CredentialsStayAccounted == Spec => []CredentialsAccounted
<1>1. AccountsInv => CredentialsAccounted
  <2> SUFFICES ASSUME AccountsInv PROVE CredentialsAccounted
    OBVIOUS
  <2>1. AuthorizedOnce
    BY DEF AccountsInv, NonceInv, AuthorizedOnce
  <2> QED BY <2>1 DEF AccountsInv, ConnectionsInv, CredentialInv, CredentialsAccounted
<1> QED BY <1>1, AccountsInvariant, PTL

\* What the screens say can be relied on: a sync started when they say ready finds the
\* newest connection and its credential, nobody is asked to sign in again without a
\* reason, and the scheduler follows the settings, which every provider can replace.
THEOREM ReportsStayTrue == Spec => []ReportsHold
<1>1. AccountsInv => ReportsHold
  <2> SUFFICES ASSUME AccountsInv PROVE ReportsHold
    OBVIOUS
  <2>1. TablesInv /\ SettingsInv /\ ReauthJustified
    BY DEF AccountsInv, ConnectionsInv
  <2>2. ReadyMeansSyncable
    <3> SUFFICES ASSUME SetupComplete PROVE Default # None /\ secrets[Default] # None
      BY DEF ReadyMeansSyncable
    <3>1. PICK n : n = NewestOf(Connected)
      OBVIOUS
    <3>2. Connected # {} /\ ~rows[n].reauth /\ secrets[n] # None
      BY <3>1 DEF SetupComplete, ReadyToSync
    <3>3. n \in Connected /\ \A b \in Connected : rows[b].since <= rows[n].since
      BY <2>1, <3>1, <3>2, NewestExists
    <3>4. PICK usable : usable = {a \in Connected : ~rows[a].reauth}
      OBVIOUS
    <3>5. n \in usable /\ usable \subseteq Connected /\ usable # {}
      BY <3>2, <3>3, <3>4
    <3>6. PICK m : m = NewestOf(usable)
      OBVIOUS
    <3>7. m \in usable /\ \A b \in usable : rows[b].since <= rows[m].since
      BY <2>1, <3>5, <3>6, NewestExists
    <3>8. rows[m].since = rows[n].since
      <4>1. rows[m].since \in Nat /\ rows[n].since \in Nat
        BY <2>1, <3>3, <3>5, <3>7, BoundsAreNat DEF TablesInv, Connected, Connection
      <4> QED BY <3>3, <3>5, <3>7, <4>1
    <3>9. m = n
      BY <2>1, <3>3, <3>5, <3>7, <3>8 DEF TablesInv
    <3>10. Default = m
      BY <3>4, <3>5, <3>6 DEF Default
    <3> QED BY <3>2, <3>3, <3>9, <3>10, NoneDiffers DEF Connected
  <2>3. ProvidersSwitch
    <3> SUFFICES ASSUME NEW p \in {"ollama", "azure"}
                 PROVE  Valid(Updated(settings, [provider |-> p, mode |-> None, onOpen |-> None,
                                                 azure |-> None, ollama |-> None]))
                          <=> IF p = "azure" THEN settings.azure ELSE settings.ollama
      BY DEF ProvidersSwitch
    <3>1. settings \in Settings /\ Valid(settings)
      BY <2>1 DEF SettingsInv
    <3>2. PICK mode : mode = IF p = settings.provider THEN settings.mode ELSE Recommended(p)
      OBVIOUS
    <3>3. p # None
      BY ValuesDiffer
    <3>4. Updated(settings, [provider |-> p, mode |-> None, onOpen |-> None,
                             azure |-> None, ollama |-> None])
            = [provider |-> p, mode |-> mode, onOpen |-> settings.onOpen,
               azure |-> settings.azure, ollama |-> settings.ollama]
      BY <3>2, <3>3 DEF Updated, Given
    <3>5. p = "azure" => mode # "local"
      BY <3>1, <3>2 DEF Valid, Recommended
    <3> QED BY <3>4, <3>5 DEF Valid
  <2> QED BY <2>1, <2>2, <2>3 DEF ReportsHold, SettingsInv
<1> QED BY <1>1, AccountsInvariant, PTL

=============================================================================
