------------------------------ MODULE Accounts ------------------------------
(* Connected mailboxes, their credentials and the settings: authorisation    *)
(* (api/auth.py, services/gmail_auth.py), the credential's use and refresh    *)
(* by sync runs and the message reader (providers/email/gmail.py),           *)
(* disconnection (services/connection.py), settings and the scheduler         *)
(* (services/provider_config.py, SyncScheduler) and the local data wipe       *)
(* (services/wipe_data.py).                                                   *)
(*                                                                            *)
(* Handlers share one event loop.  Secret stores and SQLite answer without    *)
(* yielding, so a handler is cut only where it waits for Google or for the    *)
(* thread that deletes files; a crash may cut it anywhere.  A credential is   *)
(* the number of the grant it holds.                                          *)
EXTENDS Integers, FiniteSets

CONSTANTS
    Accounts,       \* mailboxes
    Requests,       \* handlers and the sync job
    States,         \* OAuth nonces, never generated twice
    None,           \* no credential, no row, no account, a setting not given
    Free,           \* nobody holds the run lock
    Inputs,         \* the settings users send
    MaxGrants,      \* bound: authorisations Google completes
    MaxUpdates,     \* bound: settings updates
    MaxFaults       \* bound: failures of the secret store or the database, and crashes

ASSUME BoundsAreNat == {MaxGrants, MaxUpdates, MaxFaults} \subseteq Nat
ASSUME ValuesDiffer ==
    /\ None \notin Accounts \cup Nat \cup [since : Nat, reauth : BOOLEAN]
    /\ None \notin {"ollama", "azure"}
    /\ Free \notin Requests

VARIABLES
    issued,         \* oauth_authorization_states
    rows,           \* email_connections
    secrets,        \* the OAuth credentials in the secret store
    keys,           \* the other secrets: OAuth client and language model key
    schema,         \* the database file has its tables
    settings,       \* AppSettings of the process
    stored,         \* provider_configuration
    job,            \* the interval job is registered
    task,           \* what each request waits for
    lock,           \* EmailSyncStatusStore._run_lock
    grants,         \* grants issued so far
    revoked,        \* grants Google no longer accepts
    redeemed,       \* how often each nonce let a callback through
    history,        \* what kind of accident has happened
    faults, updates

vars == <<issued, rows, secrets, keys, schema, settings, stored, job, task,
          lock, grants, revoked, redeemed, history, faults, updates>>

tables == <<issued, rows, stored, schema>>
credentials == <<secrets, grants, revoked>>
process == <<settings, job, task, lock>>

-----------------------------------------------------------------------------
(* Settings.  "hybrid" stands for both modes that call the language model;     *)
(* azure: its endpoint and chat deployment are given; ollama: its models are,  *)
(* and its URL points to this machine.                                         *)
Settings == [provider : {"ollama", "azure"}, mode : {"local", "hybrid"}, onOpen : BOOLEAN,
             azure : BOOLEAN, ollama : BOOLEAN]

SettingsUpdates == [provider : {"ollama", "azure", None}, mode : {"local", "hybrid", None},
                    onOpen : BOOLEAN \cup {None},
                    azure : BOOLEAN \cup {None}, ollama : BOOLEAN \cup {None}]

ASSUME InputsAreUpdates == Inputs \subseteq SettingsUpdates

Defaults == [provider |-> "ollama", mode |-> "local", onOpen |-> TRUE,
             azure |-> FALSE, ollama |-> TRUE]

(* ProviderRegistry.validate_settings: nothing that the selected provider      *)
(* requires is missing, and a local mode has a local provider                  *)
Valid(s) == IF s.provider = "azure" THEN s.azure /\ s.mode # "local" ELSE s.ollama

Recommended(provider) == IF provider = "azure" THEN "hybrid" ELSE "local"

Given(value, default) == IF value = None THEN default ELSE value

(* A change of provider brings the mode recommended for it along *)
Updated(s, u) ==
    LET provider == Given(u.provider, s.provider)
    IN  [provider |-> provider,
         mode |-> Given(u.mode, IF provider = s.provider THEN s.mode ELSE Recommended(provider)),
         onOpen |-> Given(u.onOpen, s.onOpen),
         azure |-> Given(u.azure, s.azure), ollama |-> Given(u.ollama, s.ollama)]

Reconfigured(u) == IF u.onOpen = None THEN job ELSE u.onOpen

-----------------------------------------------------------------------------
(* Connections *)

Connected == {a \in Accounts : rows[a] # None}

NewestOf(S) == CHOOSE a \in S : \A b \in S : rows[b].since <= rows[a].since

(* The connection a sync uses *)
Default ==
    LET usable == {a \in Connected : ~rows[a].reauth}
    IN  IF usable = {} THEN None ELSE NewestOf(usable)

Deleting(S) == [a \in Accounts |-> IF a \in S THEN None ELSE secrets[a]]

Dropping(S) == [a \in Accounts |-> IF a \in S THEN None ELSE rows[a]]

(* set_secret, in one rename or keyring call *)
WithSecret(a, grant) == [secrets EXCEPT ![a] = grant]

Idle == [at |-> "idle", sync |-> FALSE, account |-> None, grant |-> None, refs |-> {}]

Waiting(at, sync, a, grant) ==
    [at |-> at, sync |-> sync, account |-> a, grant |-> grant, refs |-> {}]

(* A wipe knows what to delete, and the last grant when it was collected *)
TaskTypes ==
    [at : {"idle", "exchanging", "resolved", "refreshing", "requesting", "collected", "wiping"},
     sync : BOOLEAN, account : Accounts \cup {None}, grant : 0 .. MaxGrants \cup {None},
     refs : SUBSET Accounts]

InFlight(r) == task[r].at \in {"exchanging", "refreshing"}

Locked(r) == task[r].sync \/ task[r].at \in {"collected", "wiping"}

(* What has gone wrong: a deletion met a request that was waiting for Google;  *)
(* whose credential was stored without its row; whose was deleted and not its  *)
(* row; such a deletion, ever; a change of the job that was not saved.         *)
History == [overlapped : BOOLEAN, lost : SUBSET Accounts, parted : SUBSET Accounts,
            interrupted : BOOLEAN, unsaved : BOOLEAN]

Calm == [overlapped |-> FALSE, lost |-> {}, parted |-> {},
         interrupted |-> FALSE, unsaved |-> FALSE]

(* Connected anew, or disconnected *)
Settled(a) == [history EXCEPT !.lost = @ \ {a}, !.parted = @ \ {a}]

Stray(h, a) == [h EXCEPT !.lost = IF rows[a] = None THEN @ \cup {a} ELSE @]

Halved(h, S) == [h EXCEPT !.interrupted = TRUE, !.parted = @ \cup (S \cap Connected)]

TypeOK ==
    /\ issued \in [States -> {"unused", "pending", "expired", "gone"}]
    /\ rows \in [Accounts -> {None} \cup [since : 1 .. MaxGrants, reauth : BOOLEAN]]
    /\ secrets \in [Accounts -> {None} \cup 1 .. MaxGrants]
    /\ keys \subseteq {"client", "azure"}
    /\ settings \in Settings
    /\ stored \in Settings \cup {None}
    /\ task \in [Requests -> TaskTypes]
    /\ {schema, job} \subseteq BOOLEAN
    /\ grants \in 0 .. MaxGrants
    /\ revoked \subseteq 1 .. grants
    /\ ~schema => Connected = {} /\ stored = None
    /\ history \in History
    /\ lock = Free \/ (lock \in Requests /\ Locked(lock))
    /\ \A r \in Requests : Locked(r) => lock = r

Init ==
    /\ issued = [s \in States |-> "unused"]
    /\ rows = [a \in Accounts |-> None]
    /\ secrets = [a \in Accounts |-> None]
    /\ keys = {} /\ schema = TRUE
    /\ settings = Defaults /\ stored = None /\ job = Defaults.onOpen
    /\ task = [r \in Requests |-> Idle]
    /\ lock = Free
    /\ grants = 0 /\ revoked = {} /\ redeemed = [s \in States |-> 0]
    /\ history = Calm
    /\ faults = 0 /\ updates = 0

Fault == faults < MaxFaults /\ faults' = faults + 1

-----------------------------------------------------------------------------
(* Authorisation *)

(* GET /auth/gmail.  Without its table the nonce is kept by an object that    *)
(* lives as long as the request.                                              *)
StartAuthorization ==
    /\ "client" \in keys
    /\ \E s \in States :
          /\ issued[s] = "unused"
          /\ issued' = [issued EXCEPT ![s] = IF schema THEN "pending" ELSE "gone"]
    /\ UNCHANGED <<rows, secrets, keys, schema, settings, stored, job, task, lock,
                   grants, revoked, redeemed, history, faults, updates>>

(* Ten minutes pass *)
StateExpires ==
    /\ \E s \in States : issued[s] = "pending" /\ issued' = [issued EXCEPT ![s] = "expired"]
    /\ UNCHANGED <<rows, secrets, keys, schema, settings, stored, job, task, lock,
                   grants, revoked, redeemed, history, faults, updates>>

(* consume_state: the nonce goes, and so do those that ran out *)
Consumed(s) ==
    [x \in States |-> IF x = s \/ issued[x] = "expired" THEN "gone" ELSE issued[x]]

(* GET /auth/gmail/callback, up to the code exchange *)
Callback(r) ==
    /\ task[r] = Idle /\ schema
    /\ \E s \in States :
          /\ issued[s] # "unused"
          /\ issued' = Consumed(s)
          /\ IF issued[s] = "pending" /\ "client" \in keys
             THEN task' = [task EXCEPT ![r] = Waiting("exchanging", FALSE, None, None)]
             ELSE task' = task
          /\ redeemed' = [redeemed EXCEPT ![s] = IF issued[s] = "pending" THEN @ + 1 ELSE @]
    /\ UNCHANGED <<rows, secrets, keys, schema, settings, stored, job, lock,
                   grants, revoked, history, faults, updates>>

(* Google refuses the code, a scope is missing or the network fails *)
ExchangeFails(r) ==
    /\ task[r].at = "exchanging"
    /\ task' = [task EXCEPT ![r] = Idle]
    /\ UNCHANGED <<tables, credentials, keys, settings, job, lock, redeemed,
                   history, faults, updates>>

(* save_connection: a row of a wiped database is lost or refused *)
Saved(a) ==
    IF schema THEN [rows EXCEPT ![a] = [since |-> grants + 1, reauth |-> FALSE]] ELSE rows

(* The grant is stored, then the row that refers to it, which may fail *)
ExchangeSucceeds(r) ==
    /\ task[r].at = "exchanging" /\ grants < MaxGrants
    /\ grants' = grants + 1
    /\ task' = [task EXCEPT ![r] = Idle]
    /\ \E a \in Accounts :
          /\ secrets' = WithSecret(a, grants + 1)
          /\ \/ /\ rows' = Saved(a)
                /\ history' = Settled(a)
                /\ UNCHANGED faults
             \/ /\ Fault                   \* the database is locked
                /\ history' = Stray(history, a)
                /\ UNCHANGED rows
    /\ UNCHANGED <<issued, keys, schema, settings, stored, job, lock, revoked, redeemed, updates>>

-----------------------------------------------------------------------------
(* The credential in use *)

(* mark_reauth_required, by sync runs only; the lock is released *)
Rejected(r, sync, a) ==
    /\ rows' = IF sync /\ rows[a] # None THEN [rows EXCEPT ![a].reauth = TRUE] ELSE rows
    /\ task' = [task EXCEPT ![r] = Idle]
    /\ lock' = IF sync THEN Free ELSE lock

(* The credential is read and, unless it is missing, sent or refreshed first *)
NextRequest(r, sync, a) ==
    \/ /\ secrets[a] # None
       /\ \E at \in {"refreshing", "requesting"} :
             /\ at = "refreshing" => "client" \in keys
             /\ task' = [task EXCEPT ![r] = Waiting(at, sync, a, secrets[a])]
       /\ lock' = IF sync THEN r ELSE lock
       /\ UNCHANGED <<rows, faults>>
    \/ /\ secrets[a] = None
       /\ Rejected(r, sync, a)
       /\ UNCHANGED faults
    \/ /\ secrets[a] # None /\ "client" \notin keys    \* expired, and no client to refresh it
       /\ Rejected(r, sync, a)
       /\ UNCHANGED faults
    \/ /\ Fault                                         \* the secret store is unavailable
       /\ Rejected(r, sync, a)

(* run_manual_sync: the connection is resolved and the lock taken *)
StartSync(r) ==
    /\ task[r] = Idle /\ lock = Free /\ Default # None
    /\ NextRequest(r, TRUE, Default)
    /\ UNCHANGED <<issued, credentials, keys, schema, settings, stored, job,
                   redeemed, history, updates>>

(* The reader's connection is resolved before the handler runs *)
OpenMessage(r) ==
    /\ task[r] = Idle /\ Default # None
    /\ task' = [task EXCEPT ![r] = Waiting("resolved", FALSE, Default, None)]
    /\ UNCHANGED <<tables, credentials, keys, settings, job, lock, redeemed,
                   history, faults, updates>>

ReadMessage(r) ==
    /\ task[r].at = "resolved"
    /\ NextRequest(r, FALSE, task[r].account)
    /\ UNCHANGED <<issued, credentials, keys, schema, settings, stored, job,
                   redeemed, history, updates>>

(* Google accepts the refresh token: the new access token is stored under the *)
(* same grant, whatever has happened to the connection meanwhile, and used.   *)
Refreshed(r) ==
    /\ task[r].at = "refreshing" /\ task[r].grant \notin revoked
    /\ secrets' = WithSecret(task[r].account, task[r].grant)
    /\ task' = [task EXCEPT ![r].at = "requesting"]
    /\ UNCHANGED <<tables, keys, settings, job, lock, grants, revoked, redeemed,
                   history, faults, updates>>

(* Google refuses a revoked grant, or the new token cannot be stored *)
RefreshRejected(r) ==
    /\ task[r].at = "refreshing"
    /\ \/ (task[r].grant \in revoked /\ UNCHANGED faults)
       \/ Fault
    /\ Rejected(r, task[r].sync, task[r].account)
    /\ UNCHANGED <<issued, credentials, keys, schema, settings, stored, job,
                   redeemed, history, updates>>

(* Gmail answers: a sync run goes on or ends, a reader is done *)
Answered(r) ==
    /\ task[r].at = "requesting" /\ task[r].grant \notin revoked
    /\ \/ /\ task[r].sync
          /\ NextRequest(r, TRUE, task[r].account)
       \/ /\ task' = [task EXCEPT ![r] = Idle]
          /\ lock' = IF task[r].sync THEN Free ELSE lock
          /\ UNCHANGED <<rows, faults>>
    /\ UNCHANGED <<issued, credentials, keys, schema, settings, stored, job,
                   redeemed, history, updates>>

(* 401, or 403 without a rate limit *)
AnsweredUnauthorized(r) ==
    /\ task[r].at = "requesting" /\ task[r].grant \in revoked
    /\ Rejected(r, task[r].sync, task[r].account)
    /\ UNCHANGED <<issued, credentials, keys, schema, settings, stored, job,
                   redeemed, history, faults, updates>>

(* MUTANT: the run lock is not released on errors *)
GivenUp_KeepsLock(r) ==
    /\ task' = [task EXCEPT ![r] = Idle]
    /\ UNCHANGED <<rows, lock>>

GivenUp(r) ==
    /\ task' = [task EXCEPT ![r] = Idle]
    /\ lock' = IF task[r].sync THEN Free ELSE lock
    /\ UNCHANGED rows

(* Rate limits, outages and other errors end the request without a mark *)
RequestFails(r) ==
    /\ task[r].at \in {"refreshing", "requesting"}
    /\ GivenUp(r)
    /\ UNCHANGED <<issued, credentials, keys, schema, settings, stored, job,
                   redeemed, history, faults, updates>>

(* The user withdraws the consent at Google *)
Revoke(a) ==
    /\ secrets[a] # None /\ secrets[a] \notin revoked
    /\ revoked' = revoked \cup {secrets[a]}
    /\ UNCHANGED <<tables, secrets, grants, keys, process, redeemed, history, faults, updates>>

-----------------------------------------------------------------------------
(* Disconnection and wipe *)

(* Somebody may still write a credential that is being deleted *)
Overlapping(h) == [h EXCEPT !.overlapped = @ \/ \E r \in Requests : InFlight(r)]

(* DELETE /auth/connections: the credential goes first, then its row *)
Disconnect(a) ==
    /\ rows[a] # None
    /\ \/ /\ secrets' = Deleting({a}) /\ rows' = Dropping({a})
          /\ history' = Overlapping(Settled(a))
          /\ UNCHANGED faults
       \/ /\ Fault                     \* the database is locked
          /\ secrets' = Deleting({a})
          /\ history' = Overlapping(Halved(history, {a}))
          /\ UNCHANGED rows
       \/ /\ Fault                     \* 503, try again
          /\ UNCHANGED <<secrets, rows, history>>
    /\ UNCHANGED <<issued, keys, schema, stored, process, grants, revoked, redeemed, updates>>

(* MUTANT: only connections that work are wiped *)
WipeRefs_Usable == {a \in Connected : ~rows[a].reauth}

(* get_email_connection_secret_refs *)
WipeRefs == Connected

(* POST /local-data/wipe takes the run lock and collects whose credentials to  *)
(* delete before its handler runs.                                             *)
StartWipe(r) ==
    /\ task[r] = Idle /\ lock = Free
    /\ task' = [task EXCEPT ![r] = [Idle EXCEPT !.at = "collected", !.grant = grants,
                                               !.refs = WipeRefs]]
    /\ lock' = r
    /\ UNCHANGED <<tables, credentials, keys, settings, job, redeemed, history, faults, updates>>

(* The secrets go one by one, those of connections first *)
WipeSecrets(r) ==
    /\ task[r].at = "collected"
    /\ \/ /\ secrets' = Deleting(task[r].refs) /\ keys' = {}
          /\ task' = [task EXCEPT ![r].at = "wiping"]
          /\ history' = Overlapping(history)
          /\ UNCHANGED <<lock, faults>>
       \/ /\ Fault                     \* 503, with the rows in place
          /\ \E S \in SUBSET task[r].refs :
                /\ secrets' = Deleting(S)
                /\ keys' \in IF S = task[r].refs THEN {keys, keys \ {"client"}} ELSE {keys}
                /\ history' = Overlapping(Halved(history, S))
          /\ task' = [task EXCEPT ![r] = Idle] /\ lock' = Free
       \/ /\ task' = [task EXCEPT ![r] = Idle] /\ lock' = Free    \* a path is unsafe
          /\ UNCHANGED <<secrets, keys, history, faults>>
    /\ UNCHANGED <<tables, settings, job, grants, revoked, redeemed, updates>>

(* Connected after the wipe had collected what to delete *)
ConnectedSince(r, a) ==
    /\ rows[a] # None /\ secrets[a] # None
    /\ rows[a].since > task[r].grant \/ secrets[a] > task[r].grant

(* The files are deleted in a thread of their own, and with them the           *)
(* connections made since, whose credentials stay.                             *)
WipeFiles(r) ==
    /\ task[r].at = "wiping"
    /\ schema' = FALSE
    /\ rows' = Dropping(Accounts) /\ stored' = None
    /\ issued' = [s \in States |-> IF issued[s] = "unused" THEN "unused" ELSE "gone"]
    /\ task' = [task EXCEPT ![r] = Idle] /\ lock' = Free
    /\ history' = [Overlapping(history) EXCEPT
                      !.overlapped = @ \/ \E a \in Accounts : ConnectedSince(r, a),
                      !.parted = {}]
    /\ UNCHANGED <<credentials, keys, settings, job, redeemed, faults, updates>>

-----------------------------------------------------------------------------
(* Settings and restarts *)

(* PUT /config/providers and POST /setup: validated, then the secrets, the    *)
(* scheduler, the row and last the process's own settings.                    *)
UpdateSettings ==
    /\ updates < MaxUpdates /\ updates' = updates + 1
    /\ \E u \in Inputs, given \in SUBSET {"client", "azure"} :
          LET new == Updated(settings, u) IN
          /\ Valid(new)
          /\ \/ /\ schema                                    \* saved
                /\ keys' = keys \cup given
                /\ job' = Reconfigured(u)
                /\ settings' = new /\ stored' = new
                /\ history' = [history EXCEPT !.unsaved = @ /\ u.onOpen = None]
                /\ UNCHANGED faults
             \/ /\ (~schema /\ UNCHANGED faults) \/ Fault    \* the row cannot be written
                /\ keys' = keys \cup given
                /\ job' = Reconfigured(u)
                /\ history' = [history EXCEPT !.unsaved = @ \/ u.onOpen # None]
                /\ UNCHANGED <<settings, stored>>
             \/ /\ Fault                                     \* a secret cannot be stored
                /\ given # {}
                /\ keys' \in IF given = {"client", "azure"} THEN {keys, keys \cup {"client"}}
                             ELSE {keys}
                /\ UNCHANGED <<settings, stored, job, history>>
    /\ UNCHANGED <<issued, rows, schema, task, lock, credentials, redeemed>>

(* apply_persisted_provider_config *)
Restored == IF stored = None THEN Defaults ELSE stored

(* The process ends with everything it was doing; the next one migrates the   *)
(* database first and may find a language model key in its environment.       *)
Restarted ==
    /\ schema' = TRUE
    /\ settings' = Restored /\ job' = Restored.onOpen
    /\ task' = [r \in Requests |-> Idle] /\ lock' = Free
    /\ keys' \in {keys, keys \cup {"azure"}}

Wiping == \E r \in Requests : task[r].at = "wiping"

(* Connections whose credentials a wipe has deleted *)
BeingWiped == {a \in Connected : \E r \in Requests : task[r].at = "wiping" /\ a \in task[r].refs}

HistoryAtEnd == [history EXCEPT !.unsaved = FALSE, !.interrupted = @ \/ Wiping,
                                !.parted = @ \cup BeingWiped]

Restart ==
    /\ Restarted
    /\ history' = HistoryAtEnd
    /\ UNCHANGED <<issued, rows, stored, credentials, redeemed, faults, updates>>

(* What a disconnection, or a wipe, may have deleted when the process ends *)
DeletedSoFar ==
    {{a} : a \in Connected}
    \cup UNION {SUBSET task[r].refs : r \in {q \in Requests : task[q].at = "collected"}}

(* A crash between the two halves of saving or removing a connection *)
CutOff ==
    /\ Fault
    /\ Restarted
    /\ \/ /\ grants < MaxGrants /\ \E r \in Requests : task[r].at = "exchanging"
          /\ grants' = grants + 1
          /\ \E a \in Accounts :
                /\ secrets' = WithSecret(a, grants + 1)
                /\ history' = Stray(HistoryAtEnd, a)
       \/ /\ \E S \in DeletedSoFar :
                /\ secrets' = Deleting(S)
                /\ history' = Halved(HistoryAtEnd, S)
          /\ UNCHANGED grants
    /\ UNCHANGED <<issued, rows, stored, revoked, redeemed, updates>>

-----------------------------------------------------------------------------
Next ==
    \/ StartAuthorization \/ StateExpires \/ UpdateSettings \/ Restart \/ CutOff
    \/ \E r \in Requests :
          \/ Callback(r) \/ ExchangeFails(r) \/ ExchangeSucceeds(r)
          \/ StartSync(r) \/ OpenMessage(r) \/ ReadMessage(r)
          \/ Refreshed(r) \/ RefreshRejected(r) \/ Answered(r)
          \/ AnsweredUnauthorized(r) \/ RequestFails(r)
          \/ StartWipe(r) \/ WipeSecrets(r) \/ WipeFiles(r)
    \/ \E a \in Accounts : Revoke(a) \/ Disconnect(a)

Spec == Init /\ [][Next]_vars

-----------------------------------------------------------------------------
(* What the screens say (services/readiness.py, services/setup_status.py) *)

(* MUTANT: any connection that is not rejected will do *)
ReadyToSync_Any ==
    /\ "client" \in keys
    /\ \E a \in Connected : ~rows[a].reauth

ReadyToSync ==
    /\ "client" \in keys
    /\ Connected # {}
    /\ ~rows[NewestOf(Connected)].reauth
    /\ secrets[NewestOf(Connected)] # None

ReadyToClassify == Valid(settings) /\ (settings.provider = "azure" => "azure" \in keys)

SetupComplete == ReadyToSync /\ ReadyToClassify

-----------------------------------------------------------------------------
(* Properties *)

(* Unless a deletion met an exchange or a refresh that was waiting for Google, *)
(* or a connection made behind a wipe's back, a credential that no connection  *)
(* refers to is one whose row a crash or a failing write kept from being       *)
(* stored, and has not been connected since: failed and half done              *)
(* disconnections and wipes can be tried again, and leave nothing behind       *)
(* (services/connection.py:36-39, services/wipe_data.py:48-52).                *)
NoCredentialLeftBehind ==
    ~history.overlapped =>
        \A a \in Accounts : secrets[a] # None /\ rows[a] = None => a \in history.lost

(* A connection lacks its credential only while a wipe is deleting it, or      *)
(* after a deletion of its own that ended half way and was not completed, nor  *)
(* the mailbox connected again, since.  Whatever overlaps.                     *)
ConnectionsHaveCredentials ==
    \A a \in Connected : secrets[a] = None => a \in history.parted \cup BeingWiped

(* A nonce lets one callback through, whatever is restarted, retried or wiped *)
(* in between (db/repositories/oauth_state.py:27-40).                         *)
AuthorizedOnce == \A s \in States : redeemed[s] <= 1

(* Credentials and connections belong together, each asked for once, through  *)
(* failures half way, crashes, wipes and requests that wait for Google.       *)
CredentialsAccounted == NoCredentialLeftBehind /\ ConnectionsHaveCredentials /\ AuthorizedOnce

(* Readiness looks at the newest connection, a sync at the newest that was    *)
(* not rejected: when the screen says ready, a sync finds a credential        *)
(* (services/readiness.py:105-150, db/repositories/connection.py:104-137).    *)
ReadyMeansSyncable ==
    SetupComplete => Default # None /\ secrets[Default] # None

(* While Google withdraws nothing and nothing fails, no outage, disconnection, *)
(* wipe or late answer makes a connection ask the user in again                *)
(* (api/sync.py:152-156).                                                      *)
ReauthJustified ==
    revoked = {} /\ faults = 0 /\ ~history.interrupted =>
        \A a \in Connected : ~rows[a].reauth

(* The interval job, the process and the database agree on the settings,      *)
(* across restarts and wipes, unless an update got as far as the scheduler    *)
(* and could not be saved, and what is in force would be accepted again       *)
(* (services/provider_config.py:158-175).                                     *)
SettingsAgree ==
    /\ ~history.unsaved => job = settings.onOpen
    /\ stored # None => stored = settings
    /\ Valid(settings)

(* Whatever the settings are, choosing a provider and nothing else is accepted *)
(* exactly if what that provider itself requires has been given: the mode      *)
(* follows, and never stands in the way (services/provider_config.py:217-227,  *)
(* providers/registry.py:208-242, tests/test_provider_config_api.py:389-420).  *)
ProvidersSwitch ==
    \A p \in {"ollama", "azure"} :
        Valid(Updated(settings, [provider |-> p, mode |-> None, onOpen |-> None,
                                 azure |-> None, ollama |-> None]))
            <=> IF p = "azure" THEN settings.azure ELSE settings.ollama

(* What the user is told, and what is running, follow the stored state. *)
ReportsHold == ReadyMeansSyncable /\ ReauthJustified /\ SettingsAgree /\ ProvidersSwitch

=============================================================================
