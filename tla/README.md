# Specifications of vaultwarden-operator

The operator reconciles `VaultwardenSecret` resources: it looks up items of a
Vaultwarden vault and writes their values into Kubernetes Secrets. This
directory holds TLA+ modules translated from `src/src/`, TLC configurations for
small instances of them, and TLAPS proofs of the theorems that hold for every
instance.

    tlc -workers 2 -config VaultOnDemand.cfg MCVaultSession
    tlc -workers 2 -config VaultLookup.cfg MCVaultLookup
    tlc -workers 2 -config OperatorFailover.cfg Operator
    tlapm VaultSession_proofs.tla       # and each other module *_proofs.tla, and Recursion.tla

Every module name with a `.cfg` is in the table of section 3 and in
`PROJECT.json`, which also maps each definition to the lines it models, and names
for each property a plausible fault of the code that breaks it: the operators
under the comment "Faulty variant of" are these faults, and no specification uses them.

## 1. Inventory

| Component | Source | State | Operations |
|---|---|---|---|
| Vault session and cache | `vault/mod.rs` | `Session` (tokens, expiry, key, decrypted cache, `last_refresh_at`) behind an `RwLock`; `refresh_lock`, a mutex | `fetch_secrets`, `refresh_if_due`, `refresh_vault_cache`, `ensure_valid_token`, `do_refresh_or_reauth`, `re_authenticate`, `start_token_refresh`, `start_vault_cache_refresh`, `initialize_vault_client` |
| Authentication flow | `vault/auth.rs` | none of its own | `authenticate` (password or API-key grant), `refresh_token`, `fetch_profile_key` |
| Vault sync and lookup | `vault/sync.rs` | the decrypted vault, replaced as a whole | `fetch_sync`, `decrypt_vault`, `find_item`/`lookup_item`, `extract_secret`, organisation index |
| Crypto envelope | `vault/crypto.rs` | none | key derivation, parsing and decryption of cipher strings |
| Leader election | `leader.rs` | the `Lease` object on the cluster, `consecutive_errors` | `acquire`, `keep_renewing`, `step_down` |
| Process lifecycle | `main.rs` | which tasks run, the shutdown channels | acquire, initialise, run, drain, step down, exit |
| Reconciler | `controller.rs` | custom resource, its status and finalizer, the Secret | `reconcile_apply`, `reconcile_cleanup`, `error_policy`, status patches |
| Custom resource | `crd.rs` | none, data types | |
| Duration parser | `duration.rs` | none | `parse_duration` |
| Health server | `health.rs` | none | two paths answered |
| CRD generator, charts, e2e script | `crdgen.rs`, `charts/`, `config/`, `scripts/` | none | |

How the parts interact. One replica of the deployment wins the lease and
only then builds the vault client; `main()` next starts four concurrent
activities: the controller (many reconciles at a time), the token task, the
cache task and `keep_renewing`. Reconciles share the vault client through an
`Arc`; the client's methods interleave at every `.await`, and the `RwLock` is
never held across one. SIGTERM shuts the controller down over a channel, and so
does losing the lease, once the step down that follows it has been answered; `main()` waits for it, stops the background tasks, steps down
and returns. The kubelet restarts a container that exits.

What is hard, and what makes each part correct:

* **Session.** Three kinds of tasks read the session, await a request and
  write the session. Several callers miss at once. Correct: one on-demand
  refresh per cooldown, a retry that no other caller takes back behind its own
  refresh, a token and a key of the same account key, a cache that converges to the
  vault of the server, and no caller stuck behind the mutex.
* **Leadership.** A lease that expires is no lock: the holder has to notice.
  Correct: at most one controller while requests are answered in time; in any
  case a bound on how long a deposed one goes on; takeover after a crash.
* **Reconciler.** Two objects written one after the other, a status computed
  from a copy that may be stale, a finalizer, timers. Correct: the status never
  claims a Secret that was not written, a retried reconcile converges, deletion
  completes.
* **Failover.** The lease passes on before the old leader has drained, and each
  leader works on its own copy of the resource. Correct: what the status
  claims survives every handover without an overlap, and an overlap leaves nothing
  that the last leader does not mend.
* **Lookup.** Which item a name means, across organisations and
  partially decrypted caches. Correct: a determinate answer of the vault that
  was named, and every key of a Secret with the value of its own entry.
* **Crypto envelope.** Keys unwrapped from one another, two attempts for the
  first of them, padding without a MAC. Correct: the right password opens the key,
  a wrong one never opens a key with a MAC, and damage is confined to the part
  it is in.
* **Duration parser.** Overflow, zero and the default: no period is ever zero.

The hazards, each with its line, are in `PROJECT.json`.

## 2. Modules

| Module | Models | Extends |
|---|---|---|
| `VaultSession` | the vault client, its tasks, an external server | |
| `Limiter` | abstract: the cooldown of on-demand refreshes; `VaultSession` implements it | |
| `Leadership` | replicas, the lease, the life of a process, in time | |
| `Election` | abstract: terms that are won, and a bounded overlap; `Leadership` implements it | |
| `Reconciler` | one resource, its Secret, the processes that reconcile it | |
| `Operator` | the composition of `Election` and `Reconciler`: a resource under successive leaders | `Reconciler` |
| `CipherEnvelope` | `crypto.rs` over ideal primitives: operators | |
| `Durations` | `duration.rs` and its callers: operators | |
| `VaultSync` | decryption of a sync, lookup, extraction, requests and data of a Secret: operators | `CipherEnvelope` |
| `VaultLookup` | from credentials to Secret: the state around these operators | `VaultSync`, `Durations` |
| `MCVaultSession`, `MCLeadership`, `MCReconciler`, `MCVaultLookup` | values for constants, symmetry | the module they name |
| `VaultSession_proofs`, `Leadership_proofs`, `Reconciler_proofs`, `Operator_proofs`, `CipherEnvelope_proofs`, `VaultSync_proofs`, `VaultLookup_proofs` | theorems | the module they name |
| `Recursion` | theorem: a recursive function over a sequence satisfies its definition | |

`VaultSession`, `Leadership` and `Reconciler` are detailed models of the three
concurrent parts. `Leadership` shows what an election guarantees, and `Operator`
composes `Reconciler` with just that. `VaultSession` and
`VaultLookup` divide the vault client between them: the first has its tasks, with a vault
that is no more than a version and a key epoch, the second has the data, with
syncs that may come between any two reconciles. What they share is the
behaviour of a cache that was decrypted with an old key: an assumption of the first
(`readable`, and an `ambiguous` name stays so) and a property of
the second (`WrongKeyHidden`).

### VaultSession

A task is a program counter `pc[t]` and its local variables `local[t]`. A step
runs from one `.await` at which the code may be interleaved to the next, so
that what a task read before a request and uses after it is in `local`:

| Step | Code |
|---|---|
| `FetchSecrets`, `RetryFetch` | the two `try_fetch_secrets` of `fetch_secrets` |
| `SkipWithinCooldown`, `BeginOnDemandRefresh` | `refresh_if_due`: lock, then the cooldown check |
| `EnsureValidToken` ... `WriteRefreshedToken` | `ensure_valid_token`, `do_refresh_or_reauth` |
| `Login`, `FetchProfileKey`, `StoreAuthentication` | `authenticate` with either grant, then `re_authenticate` or `VaultClient::new` |
| `ReadAccessToken`, `ReadKey`, `FetchSync`, `FetchUnauthorized`, `FetchFails` | `refresh_vault_cache`; token and key are read in two separate reads of the lock, and after a 401 only the token is read again |
| `InstallOnDemand`, `InstallInBackground`, `InstallAtStartup` | the write of cache and `last_refresh_at`, and the return to each caller |
| `OnDemandFails`, `BackgroundFails`, `StartupFails` | what each caller does with an error |
| `WakeCacheTask`, `WakeTokenTask` | the timers of the background tasks |

The data is abstracted to what the properties tell apart. The server's vault is
a `version`; what a version answers to a lookup (`found`, `missing`, `ambiguous`) is
the constant `Contents`. A rotation of the account key starts an `epoch`; token
and key are the epoch they were issued in. A cached vault is a version and
whether the key that decrypted it was the right one (`readable`):
`decrypt_vault` drops what it cannot decrypt and reports success. Ages of
tokens and of the cache are counted in ticks, the age only up to the cooldown.

Three variables are history: the time since an on-demand refresh succeeded, the version of
the vault at the begin of a caller's latest refresh, and who wrote the cache last
(`installer`). The last one is there because `start_vault_cache_refresh`, which `main()`
always spawns, installs without taking `refresh_lock`, and what the code promises of the cache
depends on whether it has.

External, modelled from how `src/` uses it: Vaultwarden accepts a token of the
current epoch and no other; refresh tokens can be used more than once; the
response of a sync is the vault at one instant.

### Leadership

A replica is in one of nine states: `standby` (in `acquire`), `init` (in
`initialize_vault_client`: the lease is held and nothing renews it), `leading`,
`stopping` (draining on SIGTERM, still renewing), `releasing` and `yielding`
(`keep_renewing` has left its loop and awaits `step_down`; the controller runs in the
first and drains on SIGTERM in the second), `deposed` (draining after
`keep_renewing` returned), `exited` (to be restarted under the same identity)
and `gone`. `Renew`, `RenewFails`, `LeaseLost` and `GiveUp` are the four
outcomes of one round of `keep_renewing`. The last two begin the call of
`step_down` (`CallStepDown`), whose requests take up to `MaxLatency`: `StepDown` is the
instant at which it takes effect, `Depose` its answer, an error or not, upon
which `main()` is told and the controller begins to drain. Until then it goes on
starting reconciles, without the lease. A request that reports an error may
have taken effect (`AfterError`). `Exit` steps down once more after the drain.

`OverlapBound`, the longest a replica is active without the lease, is
`ErrorThreshold` renewal cycles, the latency of `step_down`, and the drain.

Time is a `Tick` that waits for every timer that has run out. External:
`LeaseLock` of `kube-leader-election`, each call of which takes effect at one
instant. SIGTERM in `standby` or `init` is the case of `Kill` in which nobody
steps down. Not modelled: the instant in `Exit` in which the renewing task, not
yet aborted, could take the lease again after the step down.

### Reconciler

`resource` and `secret` are the objects on the API server; `cache[k]` is the
reflector's copy in process `k`, older until the watch delivers. A reconcile takes
the copy of the moment (`local[k].object`) and goes through its requests, one a
step: `AddFinalizer`, `RemoveFinalizer`, or `FetchSecrets`, `GetSecret`, `WriteSecret`, `PatchStatus`.
`queued[k]` is the controller's scheduler: an event goes before a timer, and what is
queued waits for the running reconcile.

| Step | Code |
|---|---|
| `Deliver`, with the predicate `Passes` | the watch, reflector and event filter in `main()` |
| `WriteToSecret` | `owns(secrets_api)`: a change of the Secret is an event |
| `Reconcile`, `FirstRequest` | `reconcile`, `finalizer()`, and the validation at the head of `reconcile_apply` |
| `FetchSecrets` ... `WriteSecret` | the rest of `reconcile_apply` |
| `ReadyStatus`, `FailedStatus`, `status_patch`, `PatchStatus` | the status functions and the JSON merge patch |
| `RequestFails`, `FetchFails`, `Crash` | errors, the process that dies between two requests |

The data: a spec is its generation, valid or not; a Secret is the generation and
the version of the values it was written from. The version of the vault, as the client
answers with it, may also fall by one (`ChangeVault`): a late response of the background refresh
puts an older vault back, which counts as a fault. Conditions are kept as the set
they are keyed as; the clock matters for `lastSyncTime` only. External: the API server (a deletion is a
generation of its own; an apply that changes nothing is no event, the first
apply after a create is one, since it changes the managed fields; a patch of an object that is gone is an
error, but an apply creates it), the garbage collector, `finalizer()` and the
scheduler of kube-runtime. A watch skips to the newest version of the resource. An answer that
is lost after the request took effect is a crash after it.

### Limiter and Election

`Limiter` is what a server may expect of the operator: one on-demand refresh at a time, begun
`MinRefresh` or more after the last that succeeded, and nothing about refreshes that
fail. In `VaultSession` `busy` is that some caller is past the check.

`Election` keeps of `Leadership` the holder, a role (`out`, `won`, `running`,
`draining`) and the time a replica without the lease may go on. A release of the
lease and the begin of the drain are two steps, in this order or without the first. A controller
starts in a term that was won, does not take up work again once it drains, and
no tick passes for a replica whose time is up. The mapping takes the state of a
replica to its role and `OverlapBound - overlap` to the time left.

### Operator

Terms and reconciles together: `Win`, `Start`, `StepDown`, `Deposed`, `Terminate`, `Exit`, `Die` are steps
of `Election` and what they do to the controller. `StepDown` gives the lease away while the
controller goes on, `Deposed` is the drain that follows, `Terminate` one with the lease in hand; `Work` is every step of
`Reconciler`, under the roles in which `main()` lets it be taken. A term begins
with an empty copy and lists anew; `graceful_shutdown_on` keeps a draining
controller from starting reconciles and lets it finish the running ones. Ticks
are left out, so a replica may go on without the lease for any time. `overlapped` is a
history variable: some term began while another process could still write. A
request that the API server has accepted from a process that is dead by then is a death after the request.

### CipherEnvelope, Durations, VaultSync, VaultLookup

A text is a sequence of bytes of which one stands for a word. A ciphertext
names the key it is under; under another key RSA and a MAC fail and AES
yields *noise*, any bytes of the same length, which the unwrapping of the
user's key has to cope with twice. A duration is the sequence of its amounts and
units; `Words` stands for 2^64 and `MemoryWords` for 2^32, and the products that
the release build leaves unchecked wrap. `HashMap` iterates in an order that is
chosen with each cache.

| Step of `VaultLookup` | Code |
|---|---|
| `Init`, `Panic` | `env_duration`, and the slice in `parse_duration` that panics; a panic of a reconcile unwinds `main()` |
| `Authenticate`, `StoreKey` | `authenticate` from prelogin to the key, `VaultClient::new` |
| `InitialSync`, `Sync` | `fetch_sync`, `decrypt_vault`, the replacement of the cache |
| `Reconcile` | `reconcile_apply` from the interval to the data of the Secret, and the requeue |

What a login, a vault, a spec or the environment may be is stated as named
assumptions on the constants, in `VaultLookup`: keys have two halves of the
right length, ids tell the organisations of a vault apart, the user is a member of the
organisation of every item, amounts of a duration are numbers, `Orders` has
every order of the names of fields. `IsList` says of a sequence that it
is a function on an initial segment. In `VaultSync`, `Items` is a function from the
numbers of the items in the response, so that an item that `decrypt_vault`
drops leaves a gap and the properties can speak of the item of a vault by
its number; `find_item` looks at them in that order. The sum of a duration is a
recursive function of the number of terms read (`Totals`), as the loop of
`parse_duration` goes through them.

`make_master_key` fails for Argon2id when the parameters, or the address as a salt, are
refused (`ParamsAccepted`, `SaltAccepted`: eight bytes at least). External: how clients derive
keys and seal what they store (for Argon2id their salt is the SHA-256 of
the address, `ClientKey`, where the code uses the address itself), and the vault in
the clear, over which the properties are stated. Of an item the code reads
name, password, notes and custom fields; username, URI and type are decrypted
for nobody.

## 3. Runs

| Run | Instance | Shows |
|---|---|---|
| `vault_on_demand` | 2 callers with 2 lookups each, both background tasks, password grant, 1 edit, 1 fault | `TypeOK`, `OnDemandSpaced`, `RetrySeesTheCall`, `CacheGoesBackOnlyAcross`, `ImplementsLimiter` hold |
| `vault_renewals` | `main()` and both background tasks, API-key grant, 1 edit, 2 rotations, 2 faults | `KeyFitsToken`, `CacheConverges` hold |
| `vault_api_key` | 2 callers, token task, API-key grant, 1 rotation, 1 fault | `FetchReturns`, `TokenRenewed` hold |
| `vault_collapse` | 2 callers, 1 edit | `CollapsedCallsMissStill` is violated |
| `vault_lost_update` | background tasks alone, 1 rotation, 1 fault | `CacheConverges` is violated |
| `vault_overtaken` | 1 caller, cache task, 1 edit | `RetryNotOlderThanCall` is violated |
| `leader_storm` | 2 replicas, TTL 3, renewal every 1 (15 s and 5 s), latency, initialisation up to 4, 5 errors, 1 stop | `TypeOK`, `OverlapBounded`, `LeaderEmerges`, `ImplementsElection` hold |
| `leader_slow_init` | 2 replicas, initialisation up to 4, no error, no stop | `AtMostOneActive` is violated |
| `reconciler_one` | 1 process, 3 generations (the second invalid), a vault of 2 versions that may go back, 2 faults | `TypeOK`, `ReadyMeansWritten`, `StatusConsistent`, `NoHotLoop`, `NeverStranded`, `RestIsKept`, `DeletionIsFinal`, `Converges`, `DeletionCompletes` hold |
| `reconciler_last_sync` | 1 process, 2 generations, no fault | `LastSyncKept` is violated |
| `operator_failover` | 2 replicas, 2 generations, 1 fault (a lost lease, an error, a death) | `HandoverSafe`, `HandoverAdvances`, `NeverStranded`, `SettlesAfterFailover` hold |
| `vault_lookup` | 168 logins, 4 noises for each attempt, 4 lists of organisations, 44 lists of items, 2 account keys, 11 specs, 4 values of the environment | `TypeOK`, `UnlockSound`, `UnlockComplete`, `UnpadExact`, `ScopeRespected`, `ExactPreferred`, `WrongKeyHidden`, `BestPartTaken`, `EachKeyItsOwnItem`, `ValueStable`, `IntervalPositive`, `IntervalAsWritten` hold |

**Bounds.** Two callers are one that refreshes and one that waits for it, or that calls
again when it has; with two lookups a call can miss on one of them and
find the other. An edit during a refresh is what makes one response older
than another. A fault lets the process give up its start (`MaxRetries = 1`) and a refresh
fail while another caller waits; in `vault_renewals` and `vault_api_key` the process may also
start after a failure, and in `vault_renewals` both attempts around a 401 fail. One
rotation is what separates an old token or key from a new one, two are what leaves
a login of the first behind. No run has a vault with an ambiguous name: to a caller
it is like an answer, since neither is a miss that a refresh may mend. The cache task is
left out of `vault_api_key`, whose state space with it is out of reach of
a check of liveness; it is as in the time before its first period is over, and since it never takes the
mutex it is in no caller's way. `vault_collapse` does without it because it needs none. `MinRefresh` is
1 or 2 ticks, so that a tick may pass between a refresh and the end of the cooldown. The TTL of
`leader_storm` is three renewal intervals, as in the code;
`MaxErrors = 5` is enough for a leader to give up with an error of the step down
besides, and for another error of the next leader. In `Reconciler` three
generations let an edit break the spec and another mend it while a reconcile of
the first still runs; two faults are an error and a crash in the same reconcile, or
a crash and a Secret removed by hand. `BurstLimit = 6` is one more than the
longest chain of reconciles without an outside cause, so that `NoHotLoop` would see a longer one; the chain does not grow with `MaxFaults` or `MaxGeneration`, since every
outside cause starts the count anew.

In `operator_failover` one fault is what it takes for a
lease to be lost by a live process, and so for two terms to overlap; two
generations let the old leader hold an old spec. In
`vault_lookup` the KDF memory goes up to the first amount that wraps and to one that
wraps to a valid one (127, 128 and 129 of 128 MiB); an address has nine bytes or, too few for a
salt, seven; noises do not unpad, unpad to
the length of a key, or look alike without unpadding; four items are enough for an exact match behind a
partial one in and outside the scope; durations reach the end of the range by a product
and by a sum.

**What the background refresh leaves of the cache.** `start_vault_cache_refresh` installs
its response without taking `refresh_lock`: one that was fetched before a caller's refresh
can replace what the caller has installed. So it is neither true that a retry sees the
vault of its call (`vault_overtaken`) nor that the cache never goes back, and no property of a
passing run, and no theorem, assumes the task away. What holds with it is that the callers do not do this to each
other: `RetrySeesTheCall` excepts a cache that the background refresh wrote last, and
`CacheGoesBackOnlyAcross` a step between a periodic refresh and one on demand.

**What holds of token and key.** With the password grant the two can come apart
(`vault_lost_update`, with one rotation and one fault; a second rotation does it too), and with them
goes `CacheConverges`. With the API-key grant both `KeyFitsToken` and `CacheConverges` hold, and
`vault_renewals` checks them with edits, rotations and failed requests: that grant
returns no refresh token, so every renewal is a login that writes token and key together.

**Fairness.** Each request has a timeout of 30 s (`vault/mod.rs`), so a task
that can take a step takes it: weak fairness of the steps of each task. The
tokio mutex is a FIFO queue: strong fairness of `EnterRefresh`, whose enabling
condition comes and goes with the holder. Time passes. In `Leadership`, the
process of a replica runs, requests are answered and the kubelet restarts a
container. In `Operator` a lease that is vacant is taken, vault clients come up, a
process that has drained ends. In `Reconciler` watches deliver, timers run out and the garbage
collector collects. Calls of `fetch_secrets`, edits, rotations, faults, errors, SIGTERMs
and kills are under no fairness: all are bounded, and none need happen.

**Findings.** Five runs end in a counterexample on purpose.

* `vault_collapse`: callers that miss together are said to collapse into one
  sync "and retry the lookups once against the refreshed cache". The one that
  refreshes does; those that waited find the cooldown running, and
  `fetch_secrets` returns the miss of the *old* cache without looking again
  (`vault/mod.rs:195`).
* `vault_lost_update`: `do_refresh_or_reauth` reads the session, awaits and
  writes it, under no lock that orders the tasks that do so. A re-authentication from before a
  rotation, written after a later one, leaves a working token beside an old
  key: no 401 ever follows, and every later sync decrypts nothing
  (`vault/mod.rs:326`).
* `vault_overtaken`: a caller whose refresh succeeded "retries the lookups once against the
  refreshed cache", but a periodic refresh that fetched before an edit may have put its
  older vault there, and the caller reports a miss of what its own refresh had found
  (`vault/mod.rs:242`, by way of `vault/mod.rs:297`).
* `leader_slow_init`: the lease is not renewed while the vault client is
  initialised, which may take longer than the lease lives (`main.rs:156`).
* `reconciler_last_sync`: `set_failed_status` copies `lastSyncTime` from a copy of
  the resource that may be older than the last status patch, and puts the time
  back (`controller.rs:275`).

Known by reading, and without a run:

* `make_master_key` salts Argon2id with the address, as it does PBKDF2. Bitwarden
  clients take the SHA-256 of it: the key of such an account does not open, and an address
  below eight bytes is refused as a salt (`vault/crypto.rs:269`). In the model this is so, and
  `UnlockComplete` is about PBKDF2.
* "First non-empty field value" (`vault/sync.rs:449`) is the value of any ordinary
  custom field, since a `HashMap` has no first one, and another of them after the next sync
  (`vault/sync.rs:467`). `BestPartTaken` and `ValueStable` except it.
* `ms`, `us` and `ns` are "supported" (`duration.rs:8`) and count as zero in any amount
  (`duration.rs:62`). `IntervalAsWritten` is stated over whole seconds.
* Two entries of a spec with the same key: the later replaces the earlier, silently
  (`controller.rs:120`). `EachKeyItsOwnItem` takes the last.
* `lastTransitionTime` is set by every sync, also when the condition stays the same
  (`controller.rs:222`); `crd.rs:99` says it is when the condition last transitioned.

What `leader_slow_init` shows holds also, for renewal errors, of `leader.rs:150`: the third error of a
leader is seen when 15 s have passed and the lease has expired. `OverlapBounded` is
what the code guarantees instead of mutual exclusion: a replica stops
within `ErrorThreshold` renewal cycles, the step down and a drain.

## 4. Proofs

TLC checks the runs on the instances above. The theorems hold for every value
of the constants that satisfies the ASSUMEs of the module, which TLC evaluates in the
runs; where a theorem assumes more, it says so as its premise.

### VaultSession_proofs

For all sets of callers and background tasks, all bounds and both grants, from
the ASSUMEs of `VaultSession` (the kinds of tasks are disjoint, the bounds are
naturals, the constants that stand for "none" are distinct from values):

* `TypeCorrect`: `TypeOK` is inductive. It bounds the attempts of
  `initialize_vault_client`, and contains that the mutex is held by a
  caller or nobody.
* `OnDemandRefreshesSpaced`: on its own `OnDemandSpaced` is not
  inductive: a step that begins a refresh knows that `last_refresh_at`, the age
  of the cache, is past the cooldown, not how long ago the last *on-demand*
  refresh was. The invariant `SpacedInv` adds
  - `LockHeld`: a caller is inside a refresh exactly when it holds the mutex. So
    when one installs its cache and `sinceOnDemand` falls to 0, no other
    caller is inside;
  - `AgeBounded`: the age of the cache is at most the time since an on-demand
    refresh, because a background refresh only makes the cache younger. So the check of
    the age implies the property.

  Most steps cross neither border (`Contained`), and one lemma covers them all.
* `MutexHeldInside`: `LockHeld` for itself. A caller that fails or returns leaves the
  mutex free, so that one that waits for it waits for a caller at work.
* `LimiterImplemented`: under `SpacedInv` each step is a step of `Limiter` or
  leaves mutex and time alone.
* `RetriesAreRecent`: `RetrySeesTheCall`. `RetryInv` follows a call from the version
  it starts at (`versionAtCall` is at most `version`) over the response that
  answers it (at least as recent) to the cache. Since a response may be
  installed while others have yet to retry, `Recent` also orders the
  calls: whoever is inside the refresh started after all that wait to retry.
  `Sessioned` is there because the session could be built anew with no cache
  at all: it says that the access token, once there, is only ever replaced.
* `CacheAdvances`: `CacheGoesBackOnlyAcross`. `AdvanceInv` adds to
  `RetryInv` that a caller about to install holds a response at least as
  recent as a cache that a caller wrote, and the cache task one at least as recent as a
  cache of its own (`NotBeyond`): there is one holder of the mutex, and one cache task. And
  `main()`, which could start with an older one, is through when there is a cache.
* `KeyFitsTokenWithApiKey`: `KeyFitsToken`, for any number of tasks that renew at once, any
  rotations and faults. `Fits` says that no refresh token is ever there, so that nobody stores a
  token alone, and that a login about to be written has the key of its token: the
  profile is answered only to a token of the present epoch.

### Leadership_proofs

For any set of replicas and any TTL, renewal interval, latency, drain and initialisation time:

* `TypeCorrect`.
* `OverlapIsBounded`: the invariant bounds the sum of the time a replica has already gone
  on without the lease and `Remaining(r)`, the most it can still take until it
  has drained: renewal rounds left before the third error, the latency of the one under
  way, that of `step_down`, and the drain. A tick moves one unit from the one to the other.
* `ElectionImplemented`: with the mapping of section 2, every step is one of `Election` or
  none; a tick is allowed because of the invariant before.
* `LeaderIsAlone`: `AtMostOneActive` in every configuration that is `Calm`: fewer
  renewal errors than `ErrorThreshold`, and initialisation plus the renewal cycles
  that errors can use up shorter than the TTL. No run is of such a configuration. The invariant `Secured` says that
  the lease of a leader outlives its next successful renewal, whatever errors
  are still to come. The premise fails for what the code allows, which `leader_slow_init` shows.

### Reconciler_proofs and Operator_proofs

For all bounds and sets of valid specs:

* `TypeCorrect` of `Reconciler`. `TypeOK` needs two facts besides: a resource that is not being
  deleted has a generation left (`DeletedLast`), and a running reconcile has an object
  (`ObjectAtHand`).
* `StatusIsConsistent`: `StatusConsistent`, for any number of
  processes. Every patch writes or removes each of the five parts, so the status
  it is merged into does not matter (`PatchedConsistent`); the conditions it starts from do not
  either, because both types are replaced or filtered out.
* `ReadyIsWritten`: `ReadyMeansWritten` if one process reconciles at a time. The
  inductive invariant `WrittenInv` orders generations (`Ordered`): observed in the status <=
  object at hand <= copy in the reflector <= resource. So what a reconcile
  writes to the Secret is never older than the status, and `Covered` carries it
  from the write to the patch.
* `QuietAfterFive`: `NoHotLoop`, for one process and any `BurstLimit` above 5. The
  measure `EventsLeft` counts what may still trigger a reconcile by an event: the event that
  is queued, a copy of the resource that the filter would let pass, a missing
  finalizer, and the changes of the Secret still ahead (`ChangesLeft`: to what the reconcile at
  hand writes, from there to what one on an old copy writes, and to what the resource asks for). `HotInv` says that `burst` and this measure are 5 at most: a step lets the
  one grow only by as much as the other falls, and only an outside cause, which resets
  `burst`, adds to the measure. Needed besides: a Secret is only written for a resource that has the
  finalizer and is not being deleted (`FinalizerFirst`, `DeletionKnown`), and
  `NoneAssumption`, that "no object" is none of the objects.
* `NobodyIsStranded`, `RestStays`: what can be proved of `Converges`, for any number of
  processes. A resource that exists always has a reconcile before it, in each
  process: running, queued by an event or a timer, or to be queued by a version
  that the watch has yet to deliver (`NeverStranded`). And a resource that has settled,
  with copies as new as itself, is disturbed by nothing but the outside and a vault
  that fails to answer (`RestIsKept`). What is left to TLC is that the reconciles
  in between bring it there. The invariant of the first, `AwakeInv`, says that a process with
  nothing to deliver has the newest version (`Watching`) and that neither generation
  nor finalizer of a copy are ahead of the resource's (`CopiesBehind`), so that the
  filter cannot drop the version that matters. That of the second, `RestInv`, says that a
  reconcile which writes has a valid spec and values for it (`Equipped`).
* `NothingWrittenForTheGone`: `DeletionIsFinal`, the safety half of `DeletionCompletes`, if
  one process reconciles at a time, by `FinalizerFirst` and `DeletionKnown`: when the
  finalizer goes, no reconcile is about to write, and the copy that is left is one that
  is being deleted.
* `NobodyIsStrandedByTerms`, `RestStaysOverTerms` of `Operator`: the first two over any
  sequence of terms, overlapping or not. A term that begins with an empty copy has a version
  on its way, and neither an election nor the end of a process touches the objects.
* `HandoverGoesForward` of `Operator`: `HandoverAdvances`, a Secret is never taken back to an
  older spec, for any number of processes with the exception that `HandoverIsSafe` makes. The apply
  is forced and names no version, so nothing at the API server orders two of them.
  Values are left out: the cache of the vault can go back, and each leader has one of its own.
* `HandoverIsSafe` of `Operator`: `ReadyMeansWritten` for any number of processes in any number
  of successive terms, as long as no term begins while another process may still
  write. `Handed` says that there is one writer at a time, that its
  copies are in the order above, and that a term which begins with an empty
  copy lists a resource at least as new as what the last one reported.
* `OneLeaderIsSafe` of `Operator`: `ReadyMeansWritten` in any sequence of
  terms, drains and deaths as long as at most one process runs or drains. That is
  `AtMostOneActive` of `Leadership`, so together with `LeaderIsAlone` it says under which
  conditions on lease, renewal and initialisation the status can be
  believed. `AtWork`, that whatever is in a reconcile runs or drains, turns
  the premise about roles into `~overlapped`.
* `StatusStaysConsistent` of `Operator`: `StatusConsistent` also when terms overlap. This and
  `RestStaysOverTerms` rest on the proofs; `reconciler_one` checks the two properties in one process.

### CipherEnvelope_proofs, VaultSync_proofs, VaultLookup_proofs

* `UnpadOfPad`, `PadOfUnpad`: `pkcs7_unpad` inverts the padding of any text, and
  what it accepts is the padding of what it returns.
* `MacSound`, `OpensWithItsKey`: a cipher string with a MAC opens under no other
  MAC key; any text opens under the key it was sealed with. The MAC is ideal: equal only for equal key and data.
* `IntervalsArePositive`: whatever a resource or the environment asks for, no
  requeue and no refresh period is zero.
* `UnpadIsExact`, `UnlockIsSound`, `UnlockIsComplete`: the two attempts of
  `decrypt_symmetric_key`, for bytes of any value and length that AES may leave under a wrong key.
  Soundness assumes `IdealDerivation` (the derived keys tell passwords and
  parameters apart), completeness is about PBKDF2 with an iteration or more, and assumes that its derived keys have
  their lengths and that the account has a key (`KeyLengths /\ Present`). With Argon2id the right password does
  not open the key, since the code salts it otherwise than clients do (section 3).
* `FirstMatchFound`, `LookupStaysInVault`: `find_item` returns the first exact
  match of the scope, or the first partial one if there is none; a lookup with a vault never leaves it. The second assumes what
  `index_orgs` guarantees: every name in the index has an organisation of its own.
* `FirstPartTaken`: `extract_secret` returns the first of its candidates that is not empty.
* `TypesAreOK`: `TypeOK` of `VaultLookup`, for any bytes a decryption may leave: a
  key that passes both attempts has two halves of the right length.
* `IntervalIsAsWritten`: `IntervalAsWritten`, for durations of any number of terms and any
  size of the numbers that does not wrap in a product: requeues come after the sum of the terms, or after
  the greatest number of seconds when that is exceeded. The proof goes through the terms:
  a round of `parse_duration` adds what the written term is worth or stays at the greatest
  number (`RoundAdds`).
* `BestPartIsTaken`, `ScopeIsRespected`, `ExactIsPreferred`, `WrongKeyIsHidden`,
  `EachKeyHasItsOwnItem`, `ValuesAreStable`: what `vault_lookup` checks of whole Secrets, for
  vaults with any number of organisations, items and fields, any spec, and any order of a `HashMap`. Two invariants
  carry the state: `Held` (the key of the session is one that `authenticate` returned,
  and the cache was made with it) and `Answered` (a reply is what some cache of the synced
  vault makes of the spec). The rest is one chain of lemmas from the response to the Secret:
  - `ReadsOwn`, `ReadsOther`: a cipher string opens to what was sealed, or to
    nothing, according to the key;
  - `OwnOrgKeys`, `OtherOrgKeys`, `ItemKey`: hence which keys of organisations and items open;
  - `ItemsSeen`, `FieldsOf`: hence the decrypted vault, an item for each whose name can be read,
    and the fields of each;
  - `BestTaken`: the value of an item is its best part;
  - `HitIsMeant`, `OnlyOwnKeyHits`, `OtherKeyMisses`: a hit is the item that the entry means in
    the vault in the clear, and under another key there is none;
  - `WrittenValues`, `DataOfSecret`: each key of the Secret has the value of the last entry that names it.

  All but `EachKeyHasItsOwnItem` have the premise `Made`: a cipher string, a MAC, a key
  and an item are none of the values `NoString` and `Failed`, which stand for their absence. TLC's
  model values are that. It is a premise and no ASSUME because it
  quantifies over all values, which TLC cannot evaluate.

### Recursion

`Unfolding`: a function defined by recursion over a sequence, whatever the step, exists and satisfies its
definition. TLA+ defines it by a CHOOSE, and the induction theorems of the library take an
operator as a parameter, which no installed prover instantiates. The proof is by a
least counterexample instead, from the theorem that the order of the
naturals is well-founded. `VaultLookup_proofs` uses it for the loop of `parse_duration`.

### Only model-checked

Every invariant and action property of the passing runs is stated by a theorem.
Liveness (`FetchReturns`, `TokenRenewed`, `CacheConverges`, `LeaderEmerges`, `Converges`,
`DeletionCompletes`, `SettlesAfterFailover`) depends on fairness and on what
is enabled, which is out of the prover's reach; of `Converges`, `DeletionCompletes` and
`SettlesAfterFailover` the safety halves are proved (`NobodyIsStranded`, `RestStays`,
`NothingWrittenForTheGone` and their like for `Operator`). The properties of the runs that end in a
counterexample do not hold.

## 5. Not modelled

* The ciphers, the hashes and the key derivation functions are primitives of other crates;
  `CipherEnvelope` takes them as ideal.
* The health server and the CRD generator keep no state; charts, manifests and the e2e script run
  nothing of their own.
* The 30 s back-off of the token task and the period of the cache task: their
  timers are free to fire at any time (the token task: when the token is about
  to expire), which includes the real times.
* `expires_in` of at most 60 s, with which the token task renews without a pause.
* Credentials in the environment, and the shutdown of the background tasks at the end of
  `main()`.
* A resource that is created again under the name of one that has gone, and
  which keys of a Secret the API server attributes to which field manager, and so what becomes
  of keys that a later spec no longer has.
* Transition times of conditions: every sync sets `lastTransitionTime` to the current
  time, also when nothing transitioned, against `crd.rs:99`.
* Username, URI and type of an item, which are parsed and never read.
* A part of an item without a MAC (type 0) whose bytes under a wrong key happen
  to unpad: `VaultSync` takes it as undecryptable. The unwrapping of the user's key is modelled with every noise.
* Requests that the API server handles after the process that sent them has died,
  and, in `operator_failover`, more than one fault.

## 6. Plan

The components that keep state and the data path from credentials to Secret
are modelled, checked and, but for liveness, proved. What is left:

1. The safety half of `CacheConverges` with the API-key grant: that the cache no task is about
   to replace is the newest that a working session can read, from `KeyFitsToken`. That of `Converges`,
   `DeletionCompletes` and `SettlesAfterFailover` is proved.
2. The lifetime of a token from the server's answer rather than a constant, for the
   loop of the token task with short-lived tokens.
3. `operator_failover` with two faults and three generations, for an old leader that is itself
   replaced before the overlap ends.
