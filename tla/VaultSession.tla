---------------------------- MODULE VaultSession ----------------------------
(***************************************************************************)
(* The shared Vaultwarden client of src/vault/mod.rs: the session behind   *)
(* its readers-writer lock, the decrypted vault cache, and the tasks that  *)
(* touch them concurrently:                                                *)
(*                                                                         *)
(*   Main        initialize_vault_client: up to MaxRetries times,          *)
(*               authenticate and perform the initial sync;                *)
(*   Callers     reconciles that call fetch_secrets: look up, and on a     *)
(*               stale miss refresh on demand and look up once more;       *)
(*   CacheTasks  start_vault_cache_refresh, the periodic re-sync;          *)
(*   TokenTasks  start_token_refresh, which renews the access token.       *)
(*                                                                         *)
(* Every `.await` of the code at which another task may run is a step      *)
(* boundary.  An access to the RwLock is one step: no guard of it is held  *)
(* across an await.                                                        *)
(*                                                                         *)
(* The server is external.  Its vault is a sequence of versions, version n *)
(* answering lookups as Contents[n] says.  A rotation of the account key   *)
(* starts a new epoch: it revokes the tokens of the previous ones and      *)
(* re-encrypts the vault, so that a token or a key is the epoch it is of.  *)
(***************************************************************************)
EXTENDS Naturals, Sequences

CONSTANTS
  Main,         \* the task that runs main()
  Callers,      \* concurrent callers of fetch_secrets
  CacheTasks,   \* the background cache refresh; {} before its first period is over
  TokenTasks,   \* the background token refresh
  NoTask,       \* refresh_lock is free
  NoToken,      \* no token, no key: the empty string of the code
  NoVault,      \* Session.vault is None
  Wanted,       \* Wanted[c]: the lookups of a call by c, in request order
  Contents,     \* Contents[v]: the answer of vault version v to each lookup
  ApiKey,       \* TRUE: client_credentials grant; FALSE: password grant
  MaxRetries,   \* attempts of initialize_vault_client
  MinRefresh,   \* min_refresh_interval, in ticks
  TokenLife,    \* expires_in, in ticks
  Margin,       \* the 60 s before expiry at which a token is renewed, in ticks
  MaxEdits,     \* bound: edits of the vault on the server
  MaxRotations, \* bound: rotations of the account key
  MaxFaults     \* bound: requests that fail for a reason of the network or server

Tasks == Callers \cup CacheTasks \cup TokenTasks \cup {Main}
Versions == 0..MaxEdits
Epochs == 0..MaxRotations
Credential == Epochs \cup {NoToken}
Answers == {"found", "missing", "ambiguous"}
Lookups == UNION {{Wanted[c][i] : i \in 1..Len(Wanted[c])} : c \in Callers}

ASSUME TasksAssumption ==
  /\ Main \notin Callers \cup CacheTasks \cup TokenTasks
  /\ Callers \cap CacheTasks = {}
  /\ Callers \cap TokenTasks = {}
  /\ CacheTasks \cap TokenTasks = {}
  /\ \A t, u \in CacheTasks : t = u    \* main() spawns it once
  /\ NoTask \notin Tasks
ASSUME BoundsAssumption ==
  /\ MaxRetries \in Nat \ {0}
  /\ MinRefresh \in Nat
  /\ Margin \in Nat
  /\ TokenLife \in Nat
  /\ MaxEdits \in Nat
  /\ MaxRotations \in Nat
  /\ MaxFaults \in Nat
  /\ ApiKey \in BOOLEAN
ASSUME TokenAssumption == NoToken \notin Nat
ASSUME VaultAssumption ==
  NoVault \notin [version : Versions, readable : BOOLEAN]
ASSUME ContentsAssumption ==
  \A c \in Callers : \A i \in 1..Len(Wanted[c]) : \A v \in Versions :
    Contents[v][Wanted[c][i]] \in Answers

-----------------------------------------------------------------------------
VARIABLES
  phase,          \* of the process: "starting", "ready", "exited"
  attempt,        \* the attempt of initialize_vault_client
  version,        \* of the vault on the server
  epoch,          \* of the account key on the server
  faults,         \* requests that may still fail
  session,        \* the Session behind the RwLock
  refresh_lock,   \* the holder of the mutex, or NoTask
  pc,             \* where each task is
  local,          \* the local variables of each task
  result,         \* what the last call of each caller returned
  \* History, read by no action:
  sinceOnDemand,  \* ticks since an on-demand refresh succeeded (at most MinRefresh)
  versionAtCall,  \* version when the caller's latest on-demand refresh began
  installer       \* who wrote the cache last: "startup", "demand", "background"

server == <<version, epoch, faults>>
history == <<sinceOnDemand, versionAtCall, installer>>
vars == <<phase, attempt, server, session, refresh_lock, pc, local, result, history>>

Snapshots == [version : Versions, readable : BOOLEAN]
Sessions == [access_token : Credential, refresh_token : Credential,
             ttl : 0..TokenLife,        \* of the access token
             sym_key : Credential,
             vault : Snapshots \cup {NoVault},
             age : 0..MinRefresh]       \* time since last_refresh_at
NoResponse == [version |-> 0, epoch |-> 0]
Locals == [token : Credential,          \* the token in hand
           key : Credential,            \* sym_key cloned by refresh_vault_cache
           newKey : Credential,         \* sym_key returned by authenticate
           response : [version : Versions, epoch : Epochs],
           retried : BOOLEAN]           \* in the 401 path of refresh_vault_cache
FreshLocals == [token |-> NoToken, key |-> NoToken, newKey |-> NoToken,
                response |-> NoResponse, retried |-> FALSE]
NoSession == [access_token |-> NoToken, refresh_token |-> NoToken, ttl |-> 0,
              sym_key |-> NoToken, vault |-> NoVault, age |-> 0]

\* The program points of refresh_vault_cache and of the functions it calls.
RefreshPoints == {"ensure", "refresh", "refreshCall", "refreshWrite", "login",
                  "profileKey", "authWrite", "readToken", "readKey", "fetch",
                  "install", "failed"}
Points == RefreshPoints \cup {"idle", "lock", "retry"}
Results == {"none", "values", "stale_miss", "ambiguous", "not_initialized"}

Init ==
  /\ phase = "starting" /\ attempt = 1
  /\ version = 0 /\ epoch = 0 /\ faults = MaxFaults
  /\ session = NoSession
  /\ refresh_lock = NoTask
  /\ pc = [t \in Tasks |-> IF t = Main THEN "login" ELSE "idle"]
  /\ local = [t \in Tasks |-> FreshLocals]
  /\ result = [c \in Callers |-> "none"]
  /\ sinceOnDemand = MinRefresh
  /\ versionAtCall = [c \in Callers |-> 0]
  /\ installer = "startup"

Goto(t, point) == pc' = [pc EXCEPT ![t] = point]
Forget(t) == local' = [local EXCEPT ![t] = FreshLocals]

-----------------------------------------------------------------------------
(***************************************************************************)
(* Conditions of the code, by name.                                        *)
(***************************************************************************)

\* What a cache answers: without its key its items are dropped, while an
\* ambiguous organisation name, which is not encrypted, stays ambiguous.
Answer(vault, lookup) ==
  IF ~vault.readable /\ Contents[vault.version][lookup] = "found"
  THEN "missing"
  ELSE Contents[vault.version][lookup]

\* try_fetch_secrets is all-or-nothing: the first failing lookup decides.
Outcome(c, vault) ==
  LET answer(i) == Answer(vault, Wanted[c][i])
      all == 1..Len(Wanted[c])
  IN  IF vault = NoVault THEN "not_initialized"
      ELSE IF \A i \in all : answer(i) = "found" THEN "values"
      ELSE IF \E i \in all : /\ answer(i) = "ambiguous"
                             /\ \A j \in 1..(i - 1) : answer(j) = "found"
      THEN "ambiguous"
      ELSE "stale_miss"

\* LookupError::is_stale_miss
IsStaleMiss(outcome) == outcome = "stale_miss"

\* Faulty variant of CooledDown: the cooldown is not checked under the lock.
NotRechecked == TRUE
\* since_last >= min_refresh_interval
CooledDown == session.age >= MinRefresh

\* Faulty variant of MayEnter: no mutex around the check and the refresh.
EnterAnyway(c) == c \in Callers
\* The mutex is free for c to lock.
MayEnter(c) == refresh_lock = NoTask /\ c \in Callers

\* Faulty variant of ExpiringSoon: a token is never renewed ahead of time.
NeverRenewed == FALSE
\* now + 60 s >= token_expires_at
ExpiringSoon == session.ttl <= Margin

\* The server accepts a token of the current epoch.
Accepted(token) == token = epoch

-----------------------------------------------------------------------------
(***************************************************************************)
(* fetch_secrets                                                           *)
(***************************************************************************)

\* The first try_fetch_secrets: only a stale miss goes on to refresh.
FetchSecrets(c) ==
  /\ phase = "ready" /\ pc[c] = "idle"
  /\ LET outcome == Outcome(c, session.vault) IN
       IF IsStaleMiss(outcome)
       THEN Goto(c, "lock") /\ UNCHANGED result
       ELSE result' = [result EXCEPT ![c] = outcome] /\ UNCHANGED pc
  /\ UNCHANGED <<phase, attempt, server, session, refresh_lock, local, history>>

\* refresh_if_due finds the cooldown running: the miss is returned as it is.
SkipWithinCooldown(c) ==
  /\ pc[c] = "lock" /\ MayEnter(c)
  /\ ~CooledDown
  /\ Goto(c, "idle")
  /\ result' = [result EXCEPT ![c] = "stale_miss"]
  /\ UNCHANGED <<phase, attempt, server, session, refresh_lock, local, history>>

\* refresh_if_due keeps the mutex for the whole refresh.
BeginOnDemandRefresh(c) ==
  /\ pc[c] = "lock" /\ MayEnter(c)
  /\ CooledDown
  /\ refresh_lock' = c
  /\ Goto(c, "ensure")
  /\ versionAtCall' = [versionAtCall EXCEPT ![c] = version]
  /\ UNCHANGED <<phase, attempt, server, session, local, result,
                 sinceOnDemand, installer>>

\* The second try_fetch_secrets, whatever it returns.
RetryFetch(c) ==
  /\ pc[c] = "retry"
  /\ Goto(c, "idle")
  /\ result' = [result EXCEPT ![c] = Outcome(c, session.vault)]
  /\ UNCHANGED <<phase, attempt, server, session, refresh_lock, local, history>>

-----------------------------------------------------------------------------
(***************************************************************************)
(* ensure_valid_token and do_refresh_or_reauth                             *)
(***************************************************************************)

\* Where do_refresh_or_reauth returns to: the sleep of the token task, or the
\* read of the access token in refresh_vault_cache.
AfterRenewal(t) == IF t \in TokenTasks THEN "idle" ELSE "readToken"

EnsureValidToken(t) ==
  /\ pc[t] = "ensure"
  /\ Goto(t, IF ExpiringSoon THEN "refresh" ELSE AfterRenewal(t))
  /\ UNCHANGED <<phase, attempt, server, session, refresh_lock, local, result, history>>

\* The clone of session.refresh_token that the grant is asked with.
ReadRefreshToken(t) ==
  /\ pc[t] = "refresh"
  /\ local' = [local EXCEPT ![t].token = session.refresh_token]
  /\ Goto(t, "refreshCall")
  /\ UNCHANGED <<phase, attempt, server, session, refresh_lock, result, history>>

RefreshGranted(t) ==
  /\ pc[t] = "refreshCall" /\ Accepted(local[t].token)
  /\ local' = [local EXCEPT ![t].token = epoch]
  /\ Goto(t, "refreshWrite")
  /\ UNCHANGED <<phase, attempt, server, session, refresh_lock, result, history>>

\* No refresh token, a revoked one, or a request that failed: full re-auth.
RefreshDenied(t) ==
  /\ pc[t] = "refreshCall"
  /\ \/ ~Accepted(local[t].token) /\ UNCHANGED faults
     \/ faults > 0 /\ faults' = faults - 1
  /\ Goto(t, "login")
  /\ UNCHANGED <<phase, attempt, version, epoch, session, refresh_lock, local, result, history>>

\* The server may hand out a new refresh token with the access token.
WriteRefreshedToken(t) ==
  /\ pc[t] = "refreshWrite"
  /\ \E rotated \in {local[t].token, session.refresh_token} :
       session' = [session EXCEPT !.access_token = local[t].token,
                                  !.refresh_token = rotated,
                                  !.ttl = TokenLife]
  /\ Goto(t, AfterRenewal(t))
  /\ UNCHANGED <<phase, attempt, server, refresh_lock, local, result, history>>

-----------------------------------------------------------------------------
(***************************************************************************)
(* authenticate, with the two grants; re_authenticate and VaultClient::new *)
(***************************************************************************)

\* Prelogin and the token request.  The password grant returns the key too;
\* the API-key grant has it fetched from /api/sync with the new token.
Login(t) ==
  /\ pc[t] = "login"
  /\ \/ /\ local' = [local EXCEPT ![t].token = epoch,
                                  ![t].newKey = IF ApiKey THEN NoToken ELSE epoch]
        /\ Goto(t, IF ApiKey THEN "profileKey" ELSE "authWrite")
        /\ UNCHANGED faults
     \/ /\ faults > 0 /\ faults' = faults - 1
        /\ Goto(t, "failed")
        /\ UNCHANGED local
  /\ UNCHANGED <<phase, attempt, version, epoch, session, refresh_lock, result, history>>

FetchProfileKey(t) ==
  /\ pc[t] = "profileKey"
  /\ \/ /\ Accepted(local[t].token)
        /\ local' = [local EXCEPT ![t].newKey = epoch]
        /\ Goto(t, "authWrite")
        /\ UNCHANGED faults
     \/ /\ \/ ~Accepted(local[t].token) /\ UNCHANGED faults
           \/ faults > 0 /\ faults' = faults - 1
        /\ Goto(t, "failed")
        /\ UNCHANGED local
  /\ UNCHANGED <<phase, attempt, version, epoch, session, refresh_lock, result, history>>

\* Faulty variant of Authenticated: re_authenticate keeps the key it had.
KeyNotStored(t) ==
  [session EXCEPT !.access_token = local[t].token,
                  !.refresh_token = IF ApiKey THEN NoToken ELSE local[t].token,
                  !.ttl = TokenLife]
\* What re_authenticate writes.  The API-key grant returns no refresh token.
Authenticated(t) ==
  [session EXCEPT !.access_token = local[t].token,
                  !.refresh_token = IF ApiKey THEN NoToken ELSE local[t].token,
                  !.ttl = TokenLife,
                  !.sym_key = local[t].newKey]

\* The Session that VaultClient::new builds.
NewSession(t) ==
  [access_token |-> local[t].token,
   refresh_token |-> IF ApiKey THEN NoToken ELSE local[t].token,
   ttl |-> TokenLife, sym_key |-> local[t].newKey, vault |-> NoVault, age |-> 0]

\* Main without a session is in VaultClient::new and goes on to the initial sync.
StoreAuthentication(t) ==
  /\ pc[t] = "authWrite"
  /\ IF session.access_token = NoToken
     THEN session' = NewSession(t) /\ Goto(t, "ensure")
     ELSE session' = Authenticated(t) /\ Goto(t, AfterRenewal(t))
  /\ local' = [local EXCEPT ![t].newKey = NoToken]
  /\ UNCHANGED <<phase, attempt, server, refresh_lock, result, history>>

-----------------------------------------------------------------------------
(***************************************************************************)
(* refresh_vault_cache                                                     *)
(***************************************************************************)

\* After a 401 only the access token is read again, not the key.
ReadAccessToken(t) ==
  /\ pc[t] = "readToken"
  /\ local' = [local EXCEPT ![t].token = session.access_token]
  /\ Goto(t, IF local[t].retried THEN "fetch" ELSE "readKey")
  /\ UNCHANGED <<phase, attempt, server, session, refresh_lock, result, history>>

ReadKey(t) ==
  /\ pc[t] = "readKey"
  /\ local' = [local EXCEPT ![t].key = session.sym_key]
  /\ Goto(t, "fetch")
  /\ UNCHANGED <<phase, attempt, server, session, refresh_lock, result, history>>

FetchSync(t) ==
  /\ pc[t] = "fetch" /\ Accepted(local[t].token)
  /\ local' = [local EXCEPT ![t].response = [version |-> version, epoch |-> epoch]]
  /\ Goto(t, "install")
  /\ UNCHANGED <<phase, attempt, server, session, refresh_lock, result, history>>

\* A 401: renew the token and try once more.
FetchUnauthorized(t) ==
  /\ pc[t] = "fetch"
  /\ \/ ~Accepted(local[t].token) /\ UNCHANGED faults
     \/ faults > 0 /\ faults' = faults - 1
  /\ local' = [local EXCEPT ![t].retried = TRUE]
  /\ Goto(t, IF local[t].retried THEN "failed" ELSE "refresh")
  /\ UNCHANGED <<phase, attempt, version, epoch, session, refresh_lock, result, history>>

\* Any other error ends the refresh.
FetchFails(t) ==
  /\ pc[t] = "fetch"
  /\ faults > 0 /\ faults' = faults - 1
  /\ Goto(t, "failed")
  /\ UNCHANGED <<phase, attempt, version, epoch, session, refresh_lock, local, result, history>>

\* decrypt_vault with the key cloned before the request: under another key
\* every item is dropped, and that is no error.
Decrypted(t) ==
  [version |-> local[t].response.version,
   readable |-> local[t].key = local[t].response.epoch]

\* The cache and the time of its refresh are written together.
Installed(t) == [session EXCEPT !.vault = Decrypted(t), !.age = 0]

Install(t) ==
  /\ pc[t] = "install"
  /\ session' = Installed(t)
  /\ Forget(t)

\* The mutex is released as refresh_if_due returns true.
InstallOnDemand(c) ==
  /\ Install(c)
  /\ Goto(c, "retry")
  /\ refresh_lock' = NoTask
  /\ sinceOnDemand' = 0 /\ installer' = "demand"
  /\ UNCHANGED <<phase, attempt, server, result, versionAtCall>>

\* The periodic refresh takes no mutex.
InstallInBackground(t) ==
  /\ Install(t)
  /\ Goto(t, "idle")
  /\ installer' = "background"
  /\ UNCHANGED <<phase, attempt, server, refresh_lock, result, sinceOnDemand,
                 versionAtCall>>

\* The initial sync succeeds: main() spawns the tasks and the controller.
InstallAtStartup ==
  /\ Install(Main)
  /\ Goto(Main, "idle")
  /\ phase' = "ready"
  /\ UNCHANGED <<attempt, server, refresh_lock, result, history>>

\* Faulty variant of HolderAfterError: the error path keeps the mutex.
KeptOnError(c) == c
\* The guard of the mutex is dropped on the error path too.
HolderAfterError(c) == IF c = refresh_lock THEN NoTask ELSE refresh_lock

\* refresh_if_due logs the error and returns false: the miss is returned.
OnDemandFails(c) ==
  /\ pc[c] = "failed"
  /\ Goto(c, "idle") /\ Forget(c)
  /\ refresh_lock' = HolderAfterError(c)
  /\ result' = [result EXCEPT ![c] = "stale_miss"]
  /\ UNCHANGED <<phase, attempt, server, session, history>>

\* Logged; the timer, or the back-off of 30 s, brings the next attempt.
BackgroundFails(t) ==
  /\ pc[t] = "failed"
  /\ Goto(t, "idle") /\ Forget(t)
  /\ UNCHANGED <<phase, attempt, server, session, refresh_lock, result, history>>

\* Faulty variant of MayRetryStartup: one attempt too many.
OneMoreAttempt == attempt <= MaxRetries
\* attempt # max_retries, of attempts counted from 1
MayRetryStartup == attempt < MaxRetries

\* initialize_vault_client drops the client and retries, or gives up.
StartupFails ==
  /\ pc[Main] = "failed"
  /\ Forget(Main)
  /\ session' = NoSession
  /\ IF MayRetryStartup
     THEN attempt' = attempt + 1 /\ Goto(Main, "login") /\ UNCHANGED phase
     ELSE phase' = "exited" /\ Goto(Main, "idle") /\ UNCHANGED attempt
  /\ UNCHANGED <<server, refresh_lock, result, history>>

-----------------------------------------------------------------------------
(***************************************************************************)
(* The timers, the server and the clock                                    *)
(***************************************************************************)

\* The ticker of start_vault_cache_refresh; its period is not modelled.
WakeCacheTask(t) ==
  /\ phase = "ready" /\ pc[t] = "idle"
  /\ Goto(t, "ensure")
  /\ UNCHANGED <<phase, attempt, server, session, refresh_lock, local, result, history>>

\* The sleep of start_token_refresh ends Margin before the token expires.
WakeTokenTask(t) ==
  /\ phase = "ready" /\ pc[t] = "idle" /\ ExpiringSoon
  /\ Goto(t, "ensure")
  /\ UNCHANGED <<phase, attempt, server, session, refresh_lock, local, result, history>>

EditVault ==
  /\ version < MaxEdits /\ version' = version + 1
  /\ UNCHANGED <<phase, attempt, epoch, faults, session, refresh_lock, pc, local, result, history>>

RotateKey ==
  /\ epoch < MaxRotations /\ epoch' = epoch + 1
  /\ UNCHANGED <<phase, attempt, version, faults, session, refresh_lock, pc, local, result, history>>

\* One more tick of a time that matters only up to MinRefresh.
Older(age) == IF age < MinRefresh THEN age + 1 ELSE age

Tick ==
  /\ session' = [session EXCEPT !.ttl = IF @ > 0 THEN @ - 1 ELSE 0,
                                !.age = Older(@)]
  /\ sinceOnDemand' = Older(sinceOnDemand)
  /\ UNCHANGED <<phase, attempt, server, refresh_lock, pc, local, result, versionAtCall,
                 installer>>

-----------------------------------------------------------------------------
\* The steps of ensure_valid_token and do_refresh_or_reauth.
RenewToken(t) ==
  \/ EnsureValidToken(t) \/ ReadRefreshToken(t) \/ RefreshGranted(t)
  \/ RefreshDenied(t) \/ WriteRefreshedToken(t)
  \/ Login(t) \/ FetchProfileKey(t) \/ StoreAuthentication(t)

\* The further steps of refresh_vault_cache, short of its return.
RefreshVaultCache(t) ==
  \/ ReadAccessToken(t) \/ ReadKey(t)
  \/ FetchSync(t) \/ FetchUnauthorized(t) \/ FetchFails(t)

\* What a call does once the mutex is not in its way.
CallerStep(c) ==
  \/ RenewToken(c) \/ RefreshVaultCache(c)
  \/ InstallOnDemand(c) \/ OnDemandFails(c) \/ RetryFetch(c)
EnterRefresh(c) == SkipWithinCooldown(c) \/ BeginOnDemandRefresh(c)
CacheTaskStep(t) ==
  \/ WakeCacheTask(t) \/ RenewToken(t) \/ RefreshVaultCache(t)
  \/ InstallInBackground(t) \/ BackgroundFails(t)
TokenTaskStep(t) == WakeTokenTask(t) \/ RenewToken(t) \/ BackgroundFails(t)
MainStep ==
  RenewToken(Main) \/ RefreshVaultCache(Main) \/ InstallAtStartup \/ StartupFails

Next ==
  \/ \E c \in Callers : FetchSecrets(c) \/ EnterRefresh(c) \/ CallerStep(c)
  \/ \E t \in CacheTasks : CacheTaskStep(t)
  \/ \E t \in TokenTasks : TokenTaskStep(t)
  \/ MainStep
  \/ EditVault \/ RotateKey \/ Tick

Spec == Init /\ [][Next]_vars

(***************************************************************************)
(* Every request has a timeout of 30 s, so a task that can move does.      *)
(* tokio's mutex is fair (FIFO): a waiter is not passed over for ever.     *)
(* Calls, edits, rotations and faults need never happen.                   *)
(***************************************************************************)
Fairness ==
  /\ \A c \in Callers : WF_vars(CallerStep(c)) /\ SF_vars(EnterRefresh(c))
  /\ \A t \in CacheTasks : WF_vars(CacheTaskStep(t))
  /\ \A t \in TokenTasks : WF_vars(TokenTaskStep(t))
  /\ WF_vars(MainStep)
  /\ WF_vars(Tick)

FairSpec == Spec /\ Fairness

-----------------------------------------------------------------------------
(***************************************************************************)
(* Safety                                                                  *)
(***************************************************************************)

\* Every variable has its type; the attempts of initialize_vault_client never
\* exceed MaxRetries.
TypeOK ==
  /\ phase \in {"starting", "ready", "exited"}
  /\ attempt \in 1..MaxRetries
  /\ version \in Versions /\ epoch \in Epochs /\ faults \in 0..MaxFaults
  /\ session \in Sessions
  /\ refresh_lock \in Callers \cup {NoTask}
  /\ pc \in [Tasks -> Points]
  /\ local \in [Tasks -> Locals]
  /\ result \in [Callers -> Results]
  /\ sinceOnDemand \in 0..MinRefresh
  /\ versionAtCall \in [Callers -> Versions]
  /\ installer \in {"startup", "demand", "background"}

\* Between the end of a successful on-demand refresh and the start of the
\* next, of any caller, at least min_refresh_interval passes: refresh_if_due
\* checks the cooldown after it has locked the mutex, and holds the mutex until
\* the new cache and its time are in place.
OnDemandSpaced ==
  \A c \in Callers : pc[c] \in RefreshPoints => sinceOnDemand >= MinRefresh

\* A caller whose refresh succeeded retries against a cache at least as recent
\* as the vault was when its refresh began, so that a miss it then reports is of a
\* vault seen during the call; but for a cache the background refresh put there
\* last, which takes no mutex and may have fetched it long before.  Other callers
\* cannot spoil the retry, whatever their refreshes do.
RetrySeesTheCall ==
  \A c \in Callers :
    pc[c] = "retry" =>
      \/ session.vault.version >= versionAtCall[c]
      \/ installer = "background"

\* The cache, once it is there, is never emptied, whatever fails; and it goes back
\* to an older version only where a refresh of start_vault_cache_refresh and one on
\* demand overlap, the later to write having been the earlier to fetch: never from
\* one on-demand refresh to the next, nor from one periodic refresh to the next.
CacheGoesBackOnlyAcross ==
  [][session.vault # NoVault =>
       /\ session'.vault # NoVault
       /\ \/ session'.vault.version >= session.vault.version
          \/ {installer, installer'} = {"demand", "background"}]_vars

\* With an API key, a session never holds an access token of another account key
\* than the key it decrypts with, however the renewals of several tasks overlap and
\* whatever fails in them: without a refresh token each of them authenticates, and
\* re_authenticate writes a token and the key fetched with that token together.
\* With a password the two can come apart (CacheConverges, vault_lost_update).
KeyFitsToken ==
  ApiKey /\ session.access_token # NoToken =>
    session.sym_key = session.access_token

L == INSTANCE Limiter WITH busy <- refresh_lock # NoTask, since <- sinceOnDemand

\* refresh_if_due implements the limiter: callers of fetch_secrets, the
\* background tasks and failures together never begin two on-demand refreshes
\* at once or too soon, and never end one that no caller began.
ImplementsLimiter == L!Spec

-----------------------------------------------------------------------------
(***************************************************************************)
(* What the documentation says and the code does not do.                   *)
(***************************************************************************)

\* A batch of callers that miss at once collapses into one sync "and retries
\* the lookups once against the refreshed cache" (fetch_secrets): a caller
\* turned away by the cooldown would still miss in the cache of that moment.
CollapsedCallsMissStill ==
  [][\A c \in Callers :
       SkipWithinCooldown(c) => Outcome(c, session.vault) = "stale_miss"]_vars

\* A call whose refresh succeeded "retries the lookups once against the refreshed
\* cache" (fetch_secrets): against one at least as recent as the vault was when its
\* refresh began.  start_vault_cache_refresh can overwrite it before the retry.
RetryNotOlderThanCall ==
  \A c \in Callers : pc[c] = "retry" => session.vault.version >= versionAtCall[c]

-----------------------------------------------------------------------------
(***************************************************************************)
(* Liveness, of FairSpec                                                   *)
(***************************************************************************)

\* Every call of fetch_secrets returns: no caller waits for the mutex for ever,
\* whatever becomes of the refresh that holds it.
FetchReturns == \A c \in Callers : pc[c] # "idle" ~> pc[c] = "idle"

\* Once edits, rotations and faults have stopped, the cache comes to hold the
\* vault of the server, readable, and keeps it: no response in flight and no
\* stale token or key outlives the periodic refresh of the cache
\* (start_vault_cache_refresh).  It is so with an API key (vault_renewals); with a
\* password, a renewal that is written late refutes it (vault_lost_update).
CacheConverges ==
  \/ <>(phase = "exited")
  \/ <>[](session.vault = [version |-> version, readable |-> TRUE])

\* start_token_refresh replaces a token that is about to expire.
TokenRenewed == (phase = "ready" /\ session.ttl <= Margin) ~> session.ttl > Margin
=============================================================================
