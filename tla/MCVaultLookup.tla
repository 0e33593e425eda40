--------------------------- MODULE MCVaultLookup ---------------------------
(***************************************************************************)
(* A small instance of VaultLookup.  Blocks have two bytes and half a key  *)
(* has one; derived keys are the records they are derived from; u32 and    *)
(* u64 have 2^17 values, which 128 MiB and 40 h reach.                     *)
(***************************************************************************)
EXTENDS VaultLookup

MCDerive(params) == <<[stage |-> "master", params |-> params]>>
MCStretch(master_key) ==
  LET half(stage) == <<[stage |-> stage, params |-> master_key[1].params]>>
  IN  [enc_key |-> half("enc"), mac_key |-> half("mac")]
MCSalt(email) == IF email = "Me@home.io" THEN "me@home.io" ELSE email
MCSaltBytes(salt) == IF salt = "me@home" THEN 7 ELSE 10
MCSha256(salt) == "hash of " \o salt

Key(e, m) == [enc_key |-> <<e>>, mac_key |-> <<m>>]
MCUserKey == Key(10, 11)
RotatedKey == Key(12, 13)
MCPrivateKey == <<30>>

\* One set of right credentials, and what differs from it in one respect or two.
Pbkdf2 == [type |-> "pbkdf2", iterations |-> 1, memory |-> NoString, parallelism |-> NoString]
Argon(memory, parallelism) ==
  [type |-> "argon2id", iterations |-> 1, memory |-> memory, parallelism |-> parallelism]
Kdfs == {Pbkdf2, [Pbkdf2 EXCEPT !.iterations = 0], [Pbkdf2 EXCEPT !.type = "other"],
         Argon(NoString, NoString), Argon(127, 1), Argon(128, 1), Argon(129, 1)}
MCLogins ==
  [password : {"right", "wrong"}, email : {"me@home.io", "Me@home.io", "me@home"}, kdf : Kdfs,
   api_key : BOOLEAN, sealed : {"modern", "legacy", "nowhere"}]

\* Bytes that do not unpad, that look as if they did, and that do, to the length
\* of a key or not.
MCNoises == {<<20, 21, 22, 23>>, <<20, 21, 22, 2>>, <<20, 21, 2, 2>>, <<20, 21, 22, 1>>}

\* Words: names of items and organizations, of fields, and values.
MCLowerCase == [b \in 1..99 |-> IF b = 41 THEN 40 ELSE IF b = 51 THEN 50 ELSE b]
MCWithin == {<<42, 40>>}          \* 42 contains 40
db == <<40>>      Db == <<41>>      db_prod == <<42>>      web == <<43>>
team == <<50>>    Team == <<51>>    others == <<52>>
value == <<60>>   token == <<64>>   a == <<65>>   b_ == <<66>>
MCSecretFields == <<value, <<61>>, <<62>>, <<63>>, token>>
MCOrders == {<<a, b_, value, token>>, <<token, value, b_, a>>}

Item(id, organization, name) ==
  [id |-> id, organization |-> organization, name |-> name, password |-> <<id>>,
   notes |-> <<>>, fields |-> <<>>, damaged |-> {}]
Noted(item, w) == [item EXCEPT !.password = <<>>, !.notes = <<w>>]
WithFields(item, fields) == [item EXCEPT !.fields = fields]
Field(name, w) == [name |-> name, value |-> <<w>>]

Org(id, name, shared) == [id |-> id, name |-> name, key |-> Key(id, id + 1), shared |-> shared]
OrgLists == {<<Org(14, team, TRUE)>>, <<Org(14, team, FALSE)>>,
             <<Org(14, team, TRUE), Org(16, Team, TRUE)>>,
             <<Org(14, team, TRUE), Org(16, others, TRUE)>>}

\* All pairs of items with these names, in the personal vault and in a shared one,
\* and vaults with parts that are empty or cannot be decrypted.
Pairs ==
  {<<Item(70, o, n), Item(71, p, m)>> :
     o \in {NoOrg, 14}, p \in {NoOrg, 14}, n \in {db, Db, db_prod}, m \in {db, Db, web}}
ItemLists == Pairs \cup
  {<<>>,
   <<Item(70, NoOrg, db_prod), Item(71, NoOrg, Db), Item(72, 14, db_prod), Item(73, NoOrg, db)>>,
   <<Item(70, NoOrg, Db), Item(71, 14, web), Item(72, NoOrg, web), Item(73, 14, Db)>>,
   <<[Item(70, NoOrg, db) EXCEPT !.damaged = {"name"}], Item(71, 14, db_prod), Item(72, NoOrg, web)>>,
   <<WithFields(Noted(Item(70, 14, db), 80), <<Field(a, 90), Field(token, 91)>>),
     [WithFields(Noted(Item(71, NoOrg, web), 81), <<Field(token, 92), Field(value, 93)>>)
        EXCEPT !.password = <<71>>, !.damaged = {"password"}]>>,
   <<WithFields([Item(70, NoOrg, db) EXCEPT !.password = <<>>], <<Field(a, 90), Field(token, 91)>>),
     Item(71, 14, web)>>,
   <<WithFields([Item(70, NoOrg, db) EXCEPT !.password = <<>>],
                <<Field(a, 90), Field(b_, 91), Field(<<>>, 92)>>),
     [WithFields(Noted(Item(71, NoOrg, web), 81), <<Field(value, 93), Field(value, 94)>>)
        EXCEPT !.damaged = {"notes"}]>>,
   <<[WithFields(Noted(Item(70, NoOrg, db), 80), <<Field(value, 90)>>) EXCEPT !.damaged = {"fields"}],
     WithFields([Item(71, 14, web) EXCEPT !.password = <<99>>], <<Field(token, 93)>>),
     [Item(72, NoOrg, <<99>>) EXCEPT !.password = <<>>]>>}

MCVaults == [key : {MCUserKey}, orgs : OrgLists, items : ItemLists]
              \cup [key : {RotatedKey}, orgs : OrgLists,
                    items : {i \in ItemLists : Len(i) = 4}]

Entry(key, secret_name, vault) ==
  [key |-> key, secret_name |-> secret_name, vaultwarden_secret |-> <<>>, vault |-> vault]
For(interval, default_vault, data) ==
  [interval |-> interval, default_vault |-> default_vault, data |-> data]
T(amount, unit) == [amount |-> amount, unit |-> unit]
DbAndWeb == <<Entry("k1", db, <<>>), Entry("k2", web, <<>>)>>

MCSpecs ==
  {For(Unset, <<>>, DbAndWeb),
   For(<<T(1, "h"), T(30, "m")>>, <<>>, <<Entry("k1", web, <<>>), Entry("k1", db, <<>>)>>),
   For(<<T(37, "h")>>, Team, <<Entry("k1", db, <<>>)>>),
   For(<<T(36, "h"), T(1, "h")>>, team,
       <<Entry("k1", db, others), [Entry("k2", <<>>, <<>>) EXCEPT !.vaultwarden_secret = web]>>),
   For(<<T(500, "ms")>>, <<>>, DbAndWeb),
   For(<<T(131072, "s")>>, <<>>, DbAndWeb),
   For(<<T(5, "missing")>>, <<>>, DbAndWeb),
   For(<<T(5, "wide")>>, <<>>, DbAndWeb),
   For(<<T(90, "s"), T(100, "ns")>>, <<>>,
       <<Entry("k1", db, <<>>), Entry("k2", <<>>, <<>>), Entry("k3", web, <<>>)>>),
   For(<<T(5, "m")>>, <<>>, <<Entry("k1", db, others), Entry("k2", web, <<55>>)>>),
   For(<<>>, <<>>, <<>>)}

MCEnvValues == {Unset, <<T(10, "m")>>, <<T(0, "s")>>, <<T(1, "wide")>>}
=============================================================================
