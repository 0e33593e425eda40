---------------------------- MODULE VaultLookup ----------------------------
(***************************************************************************)
(* The data path of the operator, from the credentials to the Secret:      *)
(* authenticate (src/vault/auth.rs) unwraps the user's key, every sync     *)
(* decrypts what the server holds by then, and every reconcile of a        *)
(* resource turns its spec into requests, the requests into values and the *)
(* values into the data of a Secret.                                       *)
(*                                                                         *)
(* The tasks and the cooldown are in VaultSession: here a sync, in the     *)
(* background or after a miss, may come between any two reconciles.        *)
(*                                                                         *)
(* External: the vault, in the clear, and how clients seal it.  A part of  *)
(* an item that is `damaged' cannot be decrypted.                          *)
(***************************************************************************)
EXTENDS VaultSync, Durations, FiniteSets

CONSTANTS
  Nothing,          \* not there yet
  Email,            \* of the account
  Password,         \* of the account
  Sha256(_),        \* what clients salt Argon2id with, of the email address
  Logins,           \* what authenticate may be given, by its configuration and the server
  UserKey,          \* the user's symmetric key
  PrivateKey,       \* the user's RSA key
  Vaults,           \* the vaults a sync may find
  Orders,           \* in which a HashMap may iterate over fields
  Noises,           \* what AES may yield under a wrong key
  Specs,            \* of resources
  EnvValues,        \* of VAULT_CACHE_REFRESH_INTERVAL
  DefaultSync,      \* DEFAULT_SYNC_INTERVAL
  DefaultRefresh    \* DEFAULT_VAULT_CACHE_REFRESH_INTERVAL

ASSUME LookupAssumption ==
  /\ DefaultSync \in 1..(Words - 1) /\ DefaultRefresh \in 1..(Words - 1)
  /\ Noises \subseteq Seq(Nat)
  /\ PrivateKey \in Seq(Nat) \ {<<>>}
  /\ Nothing \notin [vault : Vaults, key : [enc_key : Seq(Nat), mac_key : Seq(Nat)], order : Orders]
ASSUME LoginAssumption == \A login \in Logins :
  /\ login.sealed \in {"modern", "legacy", "nowhere"}
  /\ OrDefault(login.kdf.memory, 64) \in Nat /\ Parallelism(login.kdf) \in Nat

IsKey(key) ==
  /\ key \in [enc_key : Seq(Nat), mac_key : Seq(Nat)]
  /\ Len(key.enc_key) = HalfKey /\ Len(key.mac_key) = HalfKey
IsList(s) == Len(s) \in Nat /\ DOMAIN s = 1..Len(s) /\ s = [i \in DOMAIN s |-> s[i]]

ASSUME UserKeyAssumption == IsKey(UserKey)
\* Ids tell organizations apart, and a member of one gets its items.
ASSUME VaultAssumption == \A vault \in Vaults :
  /\ IsKey(vault.key) /\ IsList(vault.orgs) /\ IsList(vault.items)
  /\ \A o \in DOMAIN vault.orgs :
       /\ IsKey(vault.orgs[o].key) /\ vault.orgs[o].id # NoOrg
       /\ \A p \in DOMAIN vault.orgs : vault.orgs[o].id = vault.orgs[p].id => o = p
  /\ \A n \in DOMAIN vault.items :
       LET item == vault.items[n] IN
       /\ item.organization = NoOrg \/ \E o \in DOMAIN vault.orgs : vault.orgs[o].id = item.organization
       /\ {item.name, item.password, item.notes} \subseteq Seq(Nat)
       /\ IsList(item.fields)
       /\ \A f \in DOMAIN item.fields : {item.fields[f].name, item.fields[f].value} \subseteq Seq(Nat)
\* A HashMap iterates over all of its keys.
ASSUME OrderAssumption == \A order \in Orders :
  /\ IsList(order)
  /\ \A vault \in Vaults : \A n \in DOMAIN vault.items : \A f \in DOMAIN vault.items[n].fields :
       LET name == vault.items[n].fields[f].name
       IN  name = <<>> \/ \E i \in DOMAIN order : order[i] = name
ASSUME SpecAssumption == \A s \in Specs :
  /\ s.interval = Unset \/ IsDuration(s.interval)
  /\ IsList(s.data) /\ s.default_vault \in Seq(Nat)
  /\ \A i \in DOMAIN s.data :
       {s.data[i].secret_name, s.data[i].vaultwarden_secret, s.data[i].vault} \subseteq Seq(Nat)
ASSUME EnvAssumption == \A value \in EnvValues : value = Unset \/ IsDuration(value)
ASSUME SecretFieldsAssumption == IsList(SecretFields) /\ Len(SecretFields) < 50

VARIABLES
  period,    \* of the cache refresh
  entry,     \* the last call of authenticate, until its result is stored
  sym_key,   \* Session.sym_key
  synced,    \* the vault, the key and the order that the cache was made from
  spec,      \* of the resource
  reply      \* the last reconcile, of the same vault as the cache

vars == <<period, entry, sym_key, synced, spec, reply>>

Init ==
  /\ \E value \in EnvValues : period = env_duration(value, DefaultRefresh)
  /\ entry = Nothing /\ sym_key = Nothing /\ synced = Nothing
  /\ spec = Nothing /\ reply = Nothing

-----------------------------------------------------------------------------
(***************************************************************************)
(* authenticate                                                            *)
(***************************************************************************)

\* The master key as clients derive it, with memory of any size and, for Argon2id,
\* from the hash of the email address.
ClientKey(password, login) ==
  LET kdf == login.kdf
      argon == kdf.type = "argon2id"
  IN  Derive([password |-> password, type |-> kdf.type, iterations |-> kdf.iterations,
              salt |-> IF argon THEN Sha256(Salt(Email)) ELSE Salt(Email),
              memory |-> IF argon THEN OrDefault(kdf.memory, 64) * MemoryUnit ELSE 0,
              parallelism |-> IF argon THEN Parallelism(kdf) ELSE 0])

Halves(key) == key.enc_key \o key.mac_key

\* The user's key as the server keeps it: old accounts have no MAC.
ProtectedKey(login) ==
  LET master == ClientKey(Password, login) IN
  IF login.sealed = "modern" THEN SealAes(2, Stretch(master), Halves(UserKey))
  ELSE SealAes(0, Legacy(master), Halves(UserKey))

\* The key of the token response, or else of the profile.
EncKey(login) == IF login.sealed = "nowhere" THEN NoString ELSE ProtectedKey(login)

\* The password grant compares the hash; the API-key grant knows no password.
LoggedIn(login, master_key) ==
  \/ login.api_key
  \/ hash_password(login.password, master_key)
       = hash_password(Password, ClientKey(Password, login))

authenticate(login, noise) ==
  LET master_key == make_master_key(login.password, login.email, login.kdf) IN
  IF master_key = Failed \/ ~LoggedIn(login, master_key) \/ EncKey(login) = NoString
  THEN Failed
  ELSE decrypt_symmetric_key(EncKey(login), master_key, noise)

Authenticate ==
  /\ period # Panics /\ sym_key = Nothing /\ entry = Nothing
  /\ \E login \in Logins, s, l \in Noises :
       LET noise == [stretched |-> s, legacy |-> l]
       IN  entry' = [login |-> login, noise |-> noise, key |-> authenticate(login, noise)]
  /\ UNCHANGED <<period, sym_key, synced, spec, reply>>

\* VaultClient::new stores the key, or the process tries again.
StoreKey ==
  /\ entry # Nothing
  /\ sym_key' = IF entry.key = Failed THEN Nothing ELSE entry.key
  /\ entry' = Nothing
  /\ UNCHANGED <<period, synced, spec, reply>>

-----------------------------------------------------------------------------
(***************************************************************************)
(* A sync                                                                  *)
(***************************************************************************)

\* A part as a client seals it, or damaged so that its MAC does not match.
Sealed(text, key, damaged) ==
  IF text = <<>> THEN NoString
  ELSE IF damaged THEN [SealAes(2, key, text) EXCEPT !.mac = NoString]
  ELSE SealAes(2, key, text)

OrgOf(vault, id) == CHOOSE o \in DOMAIN vault.orgs : vault.orgs[o].id = id

OwnerKey(vault, item) ==
  IF item.organization = NoOrg THEN vault.key
  ELSE vault.orgs[OrgOf(vault, item.organization)].key

SealedItem(vault, item) ==
  LET key == OwnerKey(vault, item)
      Part_(text, part) == Sealed(text, key, part \in item.damaged)
  IN  [id |-> item.id, organization |-> item.organization,
       name |-> Part_(item.name, "name"), password |-> Part_(item.password, "password"),
       notes |-> Part_(item.notes, "notes"),
       fields |-> [f \in DOMAIN item.fields |->
                     [name |-> Sealed(item.fields[f].name, key, FALSE),
                      value |-> Part_(item.fields[f].value, "fields")]]]

\* GET /api/sync.  An organization key may be for another RSA key.
SyncResponse(vault) ==
  [private_key |-> SealAes(2, vault.key, PrivateKey),
   organizations |-> [o \in DOMAIN vault.orgs |->
     [id |-> vault.orgs[o].id, name |-> vault.orgs[o].name,
      key |-> SealRsa(4, IF vault.orgs[o].shared THEN PrivateKey ELSE <<>>,
                      Halves(vault.orgs[o].key))]],
   ciphers |-> [i \in DOMAIN vault.items |-> SealedItem(vault, vault.items[i])]]

CacheOf(order) == decrypt_vault(SyncResponse(synced.vault), synced.key, order)
cache == CacheOf(synced.order)

Synced(vault, order) == synced' = [vault |-> vault, key |-> sym_key, order |-> order]

\* The initial sync, and the controller starts on some resource.
InitialSync ==
  /\ sym_key # Nothing /\ synced = Nothing
  /\ \E vault \in Vaults, order \in Orders : Synced(vault, order)
  /\ spec' \in Specs
  /\ UNCHANGED <<period, entry, sym_key, reply>>

\* Somebody may have edited the vault, or nobody has.
Sync ==
  /\ synced # Nothing
  /\ \E vault \in Vaults, order \in Orders :
       /\ Synced(vault, order)
       /\ reply' = IF vault = synced.vault THEN reply ELSE Nothing
  /\ UNCHANGED <<period, entry, sym_key, spec>>

-----------------------------------------------------------------------------
(***************************************************************************)
(* reconcile_apply                                                         *)
(***************************************************************************)

Interval == parse_sync_interval(spec.interval, DefaultSync)

\* What reconcile_apply reports with this cache, and when it is to be called again.
Outcome(cached) ==
  LET requests == build_requests(spec)
      fetched == try_fetch_secrets(cached, requests)
  IN  IF Interval = Invalid THEN [kind |-> "invalid", requeue |-> DefaultSync]
      ELSE IF requests = Failed THEN [kind |-> "invalid", requeue |-> Interval]
      ELSE IF fetched.error # "none"
      THEN [kind |-> "failed", requeue |-> Interval, error |-> fetched.error]
      ELSE [kind |-> "written", requeue |-> Interval,
            data |-> secret_data(spec, fetched.values)]

Reconcile ==
  /\ synced # Nothing /\ Interval # Panics
  /\ reply' = Outcome(cache)
  /\ UNCHANGED <<period, entry, sym_key, synced, spec>>

\* The panic unwinds main(), and Kubernetes starts the container again.  So it
\* does for an interval in the environment, which somebody has to mend.
Panic ==
  /\ period = Panics \/ (synced # Nothing /\ Interval = Panics)
  /\ \E value \in EnvValues : period' = env_duration(value, DefaultRefresh)
  /\ entry' = Nothing /\ sym_key' = Nothing /\ synced' = Nothing
  /\ spec' = Nothing /\ reply' = Nothing

Next == Authenticate \/ StoreKey \/ InitialSync \/ Sync \/ Reconcile \/ Panic

Spec == Init /\ [][Next]_vars

-----------------------------------------------------------------------------
(***************************************************************************)
(* Properties.  They are stated over the vault in the clear, which the     *)
(* code never sees.                                                        *)
(***************************************************************************)

\* Periods are seconds, and a key that is stored has two halves, whatever bytes
\* a decryption may have yielded (decrypt_symmetric_key, decrypt_org_key).
TypeOK ==
  /\ period = Panics \/ period \in 0..(Words - 1)
  /\ entry # Nothing => entry.login \in Logins /\ (entry.key = Failed \/ IsKey(entry.key))
  /\ sym_key = Nothing \/ IsKey(sym_key)
  /\ synced # Nothing =>
       synced.vault \in Vaults /\ synced.order \in Orders /\ synced.key = sym_key
  /\ spec = Nothing \/ spec \in Specs
  /\ reply # Nothing => synced # Nothing /\ reply.kind \in {"invalid", "failed", "written"}

\* A key with a MAC never opens under another password: the legacy attempt, which
\* has no MAC key, must not take a type-2 string (decrypt, crypto.rs:164).
UnlockSound ==
  entry # Nothing /\ entry.login.sealed = "modern" /\ entry.key # Failed =>
    entry.key = UserKey /\ entry.login.password = Password

\* The login that the account was made for, and a server that sends its key.
RightLogin(login) ==
  /\ login.password = Password /\ Salt(login.email) = Salt(Email)
  /\ login.sealed # "nowhere"

\* The right password opens the key of a PBKDF2 account, whether it is a modern or
\* an old one and however the email address is written.  The exception is an old
\* account whose key, under the stretched key, happens to unpad: the legacy attempt
\* follows an error only, and is not made (decrypt_symmetric_key, crypto.rs:320).
\* Nothing is said of Argon2id, whose salt is not that of the clients (crypto.rs:269).
UnlockComplete ==
  entry # Nothing =>
    LET login == entry.login IN
    /\ RightLogin(login)
    /\ login.kdf.type = "pbkdf2" /\ login.kdf.iterations >= 1
    /\ login.sealed = "legacy" => pkcs7_unpad(entry.noise.stretched) = Failed
    => entry.key = UserKey

\* pkcs7_unpad is the inverse of Pad and of nothing more: what it accepts is the
\* padding of what it returns (crypto.rs:404), and what was padded it returns.
UnpadExact ==
  entry # Nothing =>
    LET bytes == entry.noise.stretched
        plain == pkcs7_unpad(bytes)
    IN  /\ plain # Failed => Pad(plain) = bytes
        /\ \A n \in 0..Len(bytes) : pkcs7_unpad(Pad(SubSeq(bytes, 1, n))) = SubSeq(bytes, 1, n)

\* The entries that a written Secret has a value for: the last with its key.
Kept ==
  IF reply = Nothing \/ reply.kind # "written" THEN {}
  ELSE {i \in DOMAIN spec.data :
          \A j \in DOMAIN spec.data : spec.data[j].key = spec.data[i].key => j <= i}
Value(i) == reply.data[spec.data[i].key]

Vault == synced.vault
OrgsNamed(name) == {o \in DOMAIN Vault.orgs : Lower(Vault.orgs[o].name) = Lower(name)}
Shared(item) == item.organization = NoOrg \/ Vault.orgs[OrgOf(Vault, item.organization)].shared
InVault(item, name) ==
  name = <<>> \/ (\E o \in OrgsNamed(name) : Vault.orgs[o].id = item.organization)

Rank(name) ==
  LET named == {r \in DOMAIN SecretFields : SecretFields[r] = name}
  IN  IF named = {} THEN 100 ELSE Least(named)

\* The fields of an item that can be read, of the same name the last.
ClearFields(item) ==
  IF "fields" \in item.damaged THEN {}
  ELSE {f \in DOMAIN item.fields :
          /\ item.fields[f].name # <<>> /\ Text(item.fields[f].name) # Failed
          /\ \A g \in DOMAIN item.fields : item.fields[g].name = item.fields[f].name => g <= f}

\* The parts of an item that can be read and are not empty, with their ranks.
Ranked(item) ==
  LET part(text, part_) == IF part_ \in item.damaged THEN <<>> ELSE text
      parts == {<<0, part(item.password, "password")>>, <<50, part(item.notes, "notes")>>}
                 \cup {<<Rank(item.fields[f].name), item.fields[f].value>> : f \in ClearFields(item)}
  IN  {p \in parts : p[2] # <<>> /\ Text(p[2]) # Failed}

\* The values that may stand for an item.
Best(item) ==
  LET ranked == Ranked(item) IN
  IF ranked = {} THEN {<<>>}
  ELSE {p[2] : p \in {q \in ranked : \A r \in ranked : q[1] <= r[1]}}

\* The items a request could mean.
Meant(entry_) ==
  {n \in DOMAIN Vault.items :
     LET item == Vault.items[n] IN
     /\ Shared(item) /\ "name" \notin item.damaged /\ Text(item.name) # Failed
     /\ InVault(item, VaultOf(entry_, spec))}

\* A value for an entry with a vault is one of an item of that organization: there is
\* no fallback to another one or to the personal vault (lookup_item, sync.rs:410).
ScopeRespected ==
  \A i \in Kept :
    LET wanted == IF spec.data[i].vault # <<>> THEN spec.data[i].vault ELSE spec.default_vault
    IN  wanted # <<>> =>
          /\ \A o, p \in OrgsNamed(wanted) : o = p
          /\ \E n \in DOMAIN Vault.items :
               InVault(Vault.items[n], wanted) /\ Value(i) \in Best(Vault.items[n])

\* Where an item of the very name can be read, the first such item is the one, and
\* no partial match that precedes it (find_item, sync.rs:389).
ExactPreferred ==
  \A i \in Kept :
    LET name == Lower(resolved_secret_name(spec.data[i]))
        exact == {n \in Meant(spec.data[i]) : Lower(Vault.items[n].name) = name}
    IN  exact # {} => Value(i) \in Best(Vault.items[Least(exact)])

\* Under a key that is not the vault's nothing is found, and organizations are still known
\* by their names: all lookups miss, with the error of their scope.  VaultSession
\* builds on this for a cache that was decrypted with an old key.
WrongKeyHidden ==
  reply # Nothing /\ reply.kind # "invalid" /\ synced.key # Vault.key /\ spec.data # <<>> =>
    LET wanted == VaultOf(spec.data[1], spec)
        orgs == OrgsNamed(wanted)
    IN  /\ reply.kind = "failed"
        /\ reply.error = IF wanted = <<>> THEN "NotFound"
                         ELSE IF orgs = {} THEN "VaultNotFound"
                         ELSE IF Cardinality(orgs) > 1 THEN "VaultAmbiguous"
                         ELSE "NotFoundInVault"

\* A value that is written is the best of some item that was meant: a part of lower
\* rank stands in only for what is empty or cannot be decrypted (extract_secret,
\* sync.rs:450, after the unwrap_or_default of decrypt_cipher).
BestPartTaken ==
  \A i \in Kept : \E n \in Meant(spec.data[i]) : Value(i) \in Best(Vault.items[n])

\* Every key has the value that its entry would have in a spec of its own: keys and
\* values are not shifted against one another (the zip in reconcile_apply,
\* controller.rs:124), and no entry is passed over.
EachKeyItsOwnItem ==
  \A i \in Kept :
    /\ resolved_secret_name(spec.data[i]) # <<>>
    /\ \E order \in Orders :
         LET alone == try_fetch_secrets(decrypt_vault(SyncResponse(Vault), synced.key, order),
                                        Requests(<<spec.data[i]>>, spec))
         IN  alone.error = "none" /\ Value(i) = alone.values[1]

\* Another sync of the same vault changes no value, except for an item that has only
\* several custom fields of ordinary names: of them HashMap picks one (sync.rs:467).
ValueStable ==
  [][reply # Nothing /\ reply' # Nothing /\ reply' # reply =>
       /\ reply.kind = "written" /\ reply'.kind = "written"
       /\ \A k \in DOMAIN reply.data :
            \/ reply'.data[k] = reply.data[k]
            \/ \E n \in DOMAIN Vault.items :
                 {reply.data[k], reply'.data[k]} \subseteq Best(Vault.items[n])]_vars

\* Neither a resource nor the refresh of the cache is ever repeated without a pause,
\* and tokio's interval, which refuses a period of zero, is not given one.
IntervalPositive == period # 0 /\ (reply # Nothing => reply.requeue # 0)

\* The seconds of the first terms of an interval, which nothing wraps.
AndThen(sum, t) == sum + t.amount * Seconds[t.unit]
AsWritten(s) ==
  LET sum[n \in 0..Len(s)] == IF n = 0 THEN 0 ELSE AndThen(sum[n - 1], s[n])
  IN  sum

\* Amounts that are numbers, of units that there are, and no product that wraps.
WellWritten(s) == \A i \in DOMAIN s :
  /\ s[i].unit \in DOMAIN Seconds /\ s[i].amount \in 0..(Words - 1)
  /\ s[i].amount * Seconds[s[i].unit] < Words

\* A resource is queued again after the sum of the amounts in its syncInterval, or
\* the greatest u64, unless a single product wraps.  Units below a second count as
\* nothing, and a sum of nothing is refused (parse_duration, duration.rs:59).
IntervalAsWritten ==
  reply # Nothing /\ spec.interval # Unset /\ WellWritten(spec.interval) =>
    LET total == AsWritten(spec.interval)[Len(spec.interval)]
    IN  reply.requeue = IF total = 0 THEN DefaultSync
                        ELSE IF total < Words THEN total ELSE Words - 1
=============================================================================
