----------------------------- MODULE VaultSync -----------------------------
(***************************************************************************)
(* From a sync response to the data of a Secret: decrypt_vault, lookup_item *)
(* and extract_secret of src/vault/sync.rs, try_fetch_secrets of           *)
(* src/vault/mod.rs, and the requests and the data that src/controller.rs  *)
(* makes of a spec.                                                        *)
(*                                                                         *)
(* A name or a value is a text: a sequence of at most one byte, which      *)
(* stands for the whole word; <<>> is the empty string.  The username, the *)
(* URI and the type of an item are decrypted for nobody and left out.      *)
(***************************************************************************)
EXTENDS CipherEnvelope

CONSTANTS
  NoOrg,         \* no organization: the personal vault, or a lookup in all of them
  LowerCase,     \* LowerCase[b]: the word b in lower case
  Within,        \* the pairs <<b, c>> of words in lower case where c is a part of b
  SecretFields   \* "value", "secret", "api_key", "apikey", "token"

Lower(text) == [i \in DOMAIN text |-> LowerCase[text[i]]]
Part(part, text) == part = <<>> \/ part = text \/ (text # <<>> /\ <<text[1], part[1]>> \in Within)

Least(S) == CHOOSE i \in S : \A j \in S : i <= j
Greatest(S) == CHOOSE i \in S : \A j \in S : i >= j

\* Items without a MAC under a key that is not theirs would need noise; clients
\* make none, and the error of the empty plaintext stands in for it.
NoNoise == <<>>
Readable(s, key) == decrypt_str(s, key, NoNoise)

-----------------------------------------------------------------------------
(***************************************************************************)
(* decrypt_vault                                                           *)
(***************************************************************************)

\* unwrap_or_default
OrEmpty(text) == IF text = Failed THEN <<>> ELSE text

\* A field without a name is dropped; of fields with the same name the last stays.
FieldMap(fields, key) ==
  LET name(i) == OrEmpty(Readable(fields[i].name, key))
      named == {i \in DOMAIN fields : name(i) # <<>>}
  IN  [n \in {name(i) : i \in named} |->
         OrEmpty(Readable(fields[Greatest({i \in named : name(i) = n})].value, key))]

\* Only a name that cannot be decrypted is an error.
decrypt_cipher(cipher, key) ==
  LET name == Readable(cipher.name, key) IN
  IF name = Failed THEN Failed
  ELSE [id |-> cipher.id, organization |-> cipher.organization, name |-> name,
        password |-> OrEmpty(Readable(cipher.password, key)),
        notes |-> OrEmpty(Readable(cipher.notes, key)),
        fields |-> FieldMap(cipher.fields, key)]

\* Without the private key there are no organization keys.
OrgKeys(sync, sym_key) ==
  LET private_key == decrypt_private_key(sync.private_key, sym_key, NoNoise)
      org_key(o) == IF private_key = Failed THEN Failed
                    ELSE decrypt_org_key(sync.organizations[o].key, private_key)
      opened == {o \in DOMAIN sync.organizations : org_key(o) # Failed}
  IN  [id \in {sync.organizations[o].id : o \in opened} |->
         org_key(CHOOSE o \in opened : sync.organizations[o].id = id)]

\* An organization whose key cannot be read has none.
KeyFor(cipher, org_keys, sym_key) ==
  IF cipher.organization = NoOrg THEN sym_key
  ELSE IF cipher.organization \in DOMAIN org_keys THEN org_keys[cipher.organization]
  ELSE Failed

\* The ciphers that can be read, at their places in the response; the others are
\* skipped.
Items(sync, sym_key) ==
  LET org_keys == OrgKeys(sync, sym_key)
      item(i) == LET key == KeyFor(sync.ciphers[i], org_keys, sym_key) IN
                 IF key = Failed THEN Failed ELSE decrypt_cipher(sync.ciphers[i], key)
  IN  [i \in {i \in DOMAIN sync.ciphers : item(i) # Failed} |-> item(i)]

\* Faulty variant of index_orgs: an organization without a key is left out.
IndexReadable(sync, sym_key) ==
  LET known == {o \in DOMAIN sync.organizations :
                  sync.organizations[o].id \in DOMAIN OrgKeys(sync, sym_key)}
      name(o) == Lower(sync.organizations[o].name)
  IN  [n \in {name(o) : o \in known} |->
         {sync.organizations[o].id : o \in {p \in known : name(p) = n}}]
\* Also the organizations whose key cannot be read.
index_orgs(sync, sym_key) ==
  LET name(o) == Lower(sync.organizations[o].name)
      all == DOMAIN sync.organizations
  IN  [n \in {name(o) : o \in all} |->
         {sync.organizations[o].id : o \in {p \in all : name(p) = n}}]

\* `order' is the order in which HashMap iterates, another one in every cache.
decrypt_vault(sync, sym_key, order) ==
  [items |-> Items(sync, sym_key), orgs_by_name |-> index_orgs(sync, sym_key), order |-> order]

-----------------------------------------------------------------------------
(***************************************************************************)
(* lookup_item and extract_secret                                          *)
(***************************************************************************)

InScope(item, org) == org = NoOrg \/ item.organization = org
IsNamed(item, name) == Lower(item.name) = Lower(name)
Mentions(item, name) == Part(Lower(name), Lower(item.name))

\* The indexes of the items that find_item could return.
\* Faulty variant of Candidates: the first match, exact or partial.
FirstMention(items, name, org) ==
  {i \in DOMAIN items : InScope(items[i], org) /\ Mentions(items[i], name)}
\* Faulty variant of Candidates: a partial match anywhere.
PartialAnywhere(items, name, org) ==
  LET exact == {i \in DOMAIN items : InScope(items[i], org) /\ IsNamed(items[i], name)} IN
  IF exact # {} THEN exact ELSE {i \in DOMAIN items : Mentions(items[i], name)}
\* The exact matches, or else the partial ones.
Candidates(items, name, org) ==
  LET scope == {i \in DOMAIN items : InScope(items[i], org)}
      exact == {i \in scope : IsNamed(items[i], name)}
  IN  IF exact # {} THEN exact ELSE {i \in scope : Mentions(items[i], name)}

Found(item) == [error |-> "none", item |-> item]
Missed(error) == [error |-> error]

find_item(items, name, org, error) ==
  LET candidates == Candidates(items, name, org) IN
  IF candidates = {} THEN Missed(error) ELSE Found(items[Least(candidates)])

lookup_item(cache, name, vault) ==
  LET key == Lower(vault) IN
  IF vault = <<>> THEN find_item(cache.items, name, NoOrg, "NotFound")
  ELSE IF key \notin DOMAIN cache.orgs_by_name THEN Missed("VaultNotFound")
  ELSE IF \E o, p \in cache.orgs_by_name[key] : o # p THEN Missed("VaultAmbiguous")
  ELSE find_item(cache.items, name, CHOOSE o \in cache.orgs_by_name[key] : TRUE,
                 "NotFoundInVault")

\* The value of a field, if it has one.
FieldValue(item, name) == IF name \in DOMAIN item.fields THEN item.fields[name] ELSE <<>>

\* Faulty variant of Sources: the notes go before the custom fields.
NotesFirst(item, order) ==
  <<item.password, item.notes>>
    \o [i \in DOMAIN SecretFields |-> FieldValue(item, SecretFields[i])]
    \o [i \in DOMAIN order |-> FieldValue(item, order[i])]
\* Faulty variant of Sources: no field is known by its name.
NoNamedFields(item, order) ==
  <<item.password, item.notes>> \o [i \in DOMAIN order |-> FieldValue(item, order[i])]
\* Where a value may come from, by priority.
Sources(item, order) ==
  <<item.password>>
    \o [i \in DOMAIN SecretFields |-> FieldValue(item, SecretFields[i])]
    \o <<item.notes>>
    \o [i \in DOMAIN order |-> FieldValue(item, order[i])]

\* The first that is not empty.
extract_secret(item, order) ==
  LET sources == Sources(item, order)
      filled == {i \in DOMAIN sources : sources[i] # <<>>}
  IN  IF filled = {} THEN <<>> ELSE sources[Least(filled)]

\* All values, or the first error.
try_fetch_secrets(cache, requests) ==
  LET answer(i) == lookup_item(cache, requests[i].name, requests[i].vault)
      missed == {i \in DOMAIN requests : answer(i).error # "none"}
  IN  IF missed # {} THEN Missed(answer(Least(missed)).error)
      ELSE [error |-> "none",
            values |-> [i \in DOMAIN requests |-> extract_secret(answer(i).item, cache.order)]]

-----------------------------------------------------------------------------
(***************************************************************************)
(* build_requests, and the data of the Secret                              *)
(***************************************************************************)

\* secretName before vaultwardenSecret; empty strings are unset.
resolved_secret_name(entry) ==
  IF entry.secret_name # <<>> THEN entry.secret_name ELSE entry.vaultwarden_secret

\* The entry's own vault overrides spec.defaultVault.
VaultOf(entry, spec) == IF entry.vault # <<>> THEN entry.vault ELSE spec.default_vault

Requests(data, spec) ==
  [i \in DOMAIN data |-> [name |-> resolved_secret_name(data[i]), vault |-> VaultOf(data[i], spec)]]

\* Faulty variant of build_requests: an entry without a name is passed over.
SkipsUnnamed(spec) ==
  LET Named(entry) == resolved_secret_name(entry) # <<>>
  IN  Requests(SelectSeq(spec.data, Named), spec)
\* One entry without a name makes the spec invalid.
build_requests(spec) ==
  IF \E i \in DOMAIN spec.data : resolved_secret_name(spec.data[i]) = <<>> THEN Failed
  ELSE Requests(spec.data, spec)

\* Keys and values are paired by position, and the last of equal keys wins.
secret_data(spec, values) ==
  LET paired == DOMAIN spec.data \cap DOMAIN values
      last(k) == Greatest({i \in paired : spec.data[i].key = k})
  IN  [k \in {spec.data[i].key : i \in paired} |-> values[last(k)]]
=============================================================================
