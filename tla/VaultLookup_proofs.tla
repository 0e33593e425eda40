------------------------- MODULE VaultLookup_proofs -------------------------
(***************************************************************************)
(* Theorems about VaultLookup, for any vaults, specs and logins.           *)
(***************************************************************************)
EXTENDS VaultLookup, CipherEnvelope_proofs, VaultSync_proofs, FiniteSetTheorems

USE EnvelopeAssumption

-----------------------------------------------------------------------------
(***************************************************************************)
(* Intervals                                                               *)
(***************************************************************************)

LEMMA EnvDurationPositive == \A value : env_duration(value, DefaultRefresh) # 0
BY LookupAssumption DEF env_duration, Positive

LEMMA SyncIntervalPositive == \A s : parse_sync_interval(s, DefaultSync) # 0
BY LookupAssumption, DurationAssumption DEF parse_sync_interval, Positive

\* A reply is an outcome, which has an interval in each of its cases.
LEMMA OutcomePositive == \A cached : Outcome(cached).requeue # 0
<1>1. Interval # 0
  BY SyncIntervalPositive DEF Interval
<1> QED
  BY <1>1, LookupAssumption DEF Outcome

\* Whatever is written in a resource or in the environment, no reconcile is
\* repeated without a pause and the refresh of the cache has a period.
THEOREM IntervalsArePositive == Spec => []IntervalPositive
<1>1. Init => IntervalPositive
  BY EnvDurationPositive DEF Init, IntervalPositive
<1>2. IntervalPositive /\ [Next]_vars => IntervalPositive'
  <2> SUFFICES ASSUME IntervalPositive, [Next]_vars PROVE IntervalPositive'
    OBVIOUS
  <2>1. CASE Reconcile
    BY <2>1, OutcomePositive DEF Reconcile, IntervalPositive
  <2>2. CASE Panic
    BY <2>2, EnvDurationPositive DEF Panic, IntervalPositive
  <2>3. CASE Authenticate \/ StoreKey \/ InitialSync \/ Sync \/ UNCHANGED vars
    BY <2>3 DEF Authenticate, StoreKey, InitialSync, Sync, vars, IntervalPositive
  <2> QED
    BY <2>1, <2>2, <2>3 DEF Next
<1> QED
  BY <1>1, <1>2, PTL DEF Spec

-----------------------------------------------------------------------------
(***************************************************************************)
(* Padding                                                                 *)
(***************************************************************************)

\* An entry is an answer of authenticate to some login and noise.
Entered == entry # Nothing =>
  \E login \in Logins, s, l \in Noises :
    LET noise == [stretched |-> s, legacy |-> l]
    IN  entry = [login |-> login, noise |-> noise, key |-> authenticate(login, noise)]

LEMMA EntryIsEntered == Spec => []Entered
<1>1. Init => Entered
  BY DEF Init, Entered
<1>2. Entered /\ [Next]_vars => Entered'
  <2> SUFFICES ASSUME Entered, [Next]_vars PROVE Entered'
    OBVIOUS
  <2>1. CASE Authenticate
    BY <2>1 DEF Authenticate, Entered
  <2>2. CASE StoreKey \/ Panic
    BY <2>2 DEF StoreKey, Panic, Entered
  <2>3. CASE InitialSync \/ Sync \/ Reconcile \/ UNCHANGED vars
    BY <2>3 DEF InitialSync, Sync, Reconcile, vars, Entered
  <2> QED
    BY <2>1, <2>2, <2>3 DEF Next
<1> QED
  BY <1>1, <1>2, PTL DEF Spec

LEMMA EntryParts ==
  ASSUME Entered, entry # Nothing
  PROVE  /\ entry.login \in Logins /\ entry.noise.stretched \in Noises
         /\ entry.key = authenticate(entry.login, entry.noise)
<1>1. PICK login \in Logins, s \in Noises, l \in Noises :
        entry = [login |-> login, noise |-> [stretched |-> s, legacy |-> l],
                 key |-> authenticate(login, [stretched |-> s, legacy |-> l])]
  BY DEF Entered
<1>2. entry.login = login /\ entry.noise = [stretched |-> s, legacy |-> l]
  BY <1>1
<1> QED
  BY <1>1, <1>2

LEMMA UnpadExactFor ==
  ASSUME NEW bytes \in Seq(Nat)
  PROVE  /\ pkcs7_unpad(bytes) # Failed => Pad(pkcs7_unpad(bytes)) = bytes
         /\ \A n \in 0..Len(bytes) : pkcs7_unpad(Pad(SubSeq(bytes, 1, n))) = SubSeq(bytes, 1, n)
<1>1. \A n \in 0..Len(bytes) : SubSeq(bytes, 1, n) \in Seq(Nat)
  OBVIOUS
<1> QED
  BY <1>1, UnpadOfPad, PadOfUnpad

\* Whatever bytes a wrong key leaves, of any length: those that the unwrapping of
\* the key accepts are the padding of what it goes on with.
THEOREM UnpadIsExact == Spec => []UnpadExact
<1>1. ASSUME Entered, entry # Nothing
      PROVE  entry.noise.stretched \in Seq(Nat)
  BY <1>1, EntryParts, LookupAssumption
<1>2. Entered => UnpadExact
  <2> SUFFICES ASSUME Entered PROVE UnpadExact
    OBVIOUS
  <2> DEFINE bytes == entry.noise.stretched
  <2>1. CASE entry # Nothing
    <3>1. bytes \in Seq(Nat)
      BY <1>1, <2>1
    <3> HIDE DEF bytes
    <3>2. /\ pkcs7_unpad(bytes) # Failed => Pad(pkcs7_unpad(bytes)) = bytes
          /\ \A n \in 0..Len(bytes) :
               pkcs7_unpad(Pad(SubSeq(bytes, 1, n))) = SubSeq(bytes, 1, n)
      BY <3>1, UnpadExactFor
    <3> QED
      BY <3>2 DEF UnpadExact, bytes
  <2> QED
    BY <2>1 DEF UnpadExact
<1> QED
  BY <1>2, EntryIsEntered, PTL

-----------------------------------------------------------------------------
(***************************************************************************)
(* Unlocking                                                               *)
(*                                                                         *)
(* What is assumed of the primitives: two derivations agree in no key, or  *)
(* in no MAC key, unless their parameters do; and PBKDF2, which refuses no *)
(* password or salt, yields keys that have their length.                   *)
(***************************************************************************)

IdealDerivation ==
  /\ \A p, q : Derive(p) = Derive(q) => p = q
  /\ \A p, q : Stretch(p).mac_key = Stretch(q).mac_key => p = q

KeyLengths == \A p : p.type = "pbkdf2" =>
  /\ Derive(p) # Failed /\ Len(Derive(p)) = HalfKey
  /\ Len(Stretch(Derive(p)).enc_key) = HalfKey /\ Stretch(Derive(p)).mac_key # <<>>

\* A cipher string that was made is there, and is no error.
Present == \A type, key, text : SealAes(type, key, text) \notin {NoString, Failed}

LEMMA HalvesOfKey ==
  ASSUME NEW key, IsKey(key)
  PROVE  Halves(key) \in Seq(Nat) /\ SymmetricKey(Halves(key)) = key
<1> DEFINE e == key.enc_key
           m == key.mac_key
<1>1. /\ e \in Seq(Nat) /\ m \in Seq(Nat) /\ Len(e) = HalfKey /\ Len(m) = HalfKey
      /\ key = [enc_key |-> e, mac_key |-> m]
  BY DEF IsKey
<1> HIDE DEF e, m
<1> DEFINE both == e \o m
           first == SubSeq(both, 1, HalfKey)
           second == SubSeq(both, HalfKey + 1, 2 * HalfKey)
<1> HIDE DEF both
<1>2. /\ both \in Seq(Nat) /\ Len(both) = 2 * HalfKey /\ both # Failed
      /\ \A i \in 1..HalfKey : both[i] = e[i]
      /\ \A i \in (HalfKey + 1)..(2 * HalfKey) : both[i] = m[i - HalfKey]
  <2>1. HalfKey + HalfKey = 2 * HalfKey
    OBVIOUS
  <2>2. both \in Seq(Nat) => both # Failed
    BY FailedAssumption
  <2>3. /\ both \in Seq(Nat) /\ Len(both) = HalfKey + HalfKey
        /\ \A i \in 1..HalfKey : both[i] = e[i]
        /\ \A i \in (HalfKey + 1)..(HalfKey + HalfKey) : both[i] = m[i - HalfKey]
    <3>1. e \in Seq(Nat) /\ m \in Seq(Nat)
      BY <1>1
    <3>2. /\ both \in Seq(Nat) /\ Len(both) = Len(e) + Len(m)
          /\ \A i \in 1..Len(e) : both[i] = e[i]
          /\ \A i \in (Len(e) + 1)..(Len(e) + Len(m)) : both[i] = m[i - Len(e)]
      BY <3>1, Concatenation DEF both
    <3>3. Len(e) = HalfKey /\ Len(m) = HalfKey
      BY <1>1
    <3> QED
      BY <3>2, <3>3
  <2>4. Len(both) = 2 * HalfKey
    BY <2>1, <2>3
  <2>5. \A i \in (HalfKey + 1)..(2 * HalfKey) : both[i] = m[i - HalfKey]
    BY <2>1, <2>3
  <2> QED
    BY <2>2, <2>3, <2>4, <2>5
<1>3. first = e
  <2>1. /\ first \in Seq(Nat) /\ Len(first) = HalfKey
        /\ \A i \in 1..HalfKey : first[i] = both[i]
    BY <1>2
  <2> HIDE DEF first
  <2>2. \A i \in 1..Len(first) : first[i] = e[i]
    BY <1>2, <2>1
  <2> QED
    BY <1>1, <2>1, <2>2, SameSequence
<1>4. second = m
  <2>1. /\ second \in Seq(Nat) /\ Len(second) = HalfKey
        /\ \A i \in 1..HalfKey : second[i] = both[HalfKey + i]
    <3>1. both \in Seq(Nat) /\ Len(both) = 2 * HalfKey
      BY <1>2
    <3>2. second \in Seq(Nat) /\ Len(second) = 2 * HalfKey - (HalfKey + 1) + 1
      BY <3>1
    <3>3. ASSUME NEW i \in 1..HalfKey PROVE second[i] = both[HalfKey + i]
      <4>1. (HalfKey + 1) + i - 1 = HalfKey + i
        OBVIOUS
      <4>2. second[i] = both[(HalfKey + 1) + i - 1]
        BY <3>1
      <4> QED
        BY <4>1, <4>2
    <3> QED
      BY <3>2, <3>3
  <2> HIDE DEF second
  <2>2. ASSUME NEW i \in 1..Len(second) PROVE second[i] = m[i]
    <3>1. i \in 1..HalfKey /\ HalfKey + i \in (HalfKey + 1)..(2 * HalfKey)
      BY <2>1, <2>2
    <3>2. (HalfKey + i) - HalfKey = i
      BY <3>1
    <3> QED
      BY <1>2, <2>1, <3>1, <3>2
  <2> QED
    BY <1>1, <2>1, <2>2, SameSequence
<1>5. Halves(key) = both
  BY DEF Halves, both, e, m
<1>6. SymmetricKey(both) = [enc_key |-> first, mac_key |-> second]
  BY <1>2 DEF SymmetricKey
<1> QED
  BY <1>1, <1>2, <1>3, <1>4, <1>5, <1>6

\* The master key names the password it was derived from.
LEMMA MasterKeyNamesPassword ==
  ASSUME IdealDerivation, NEW login,
         make_master_key(login.password, login.email, login.kdf) # Failed,
         make_master_key(login.password, login.email, login.kdf) = ClientKey(Password, login)
  PROVE  login.password = Password
<1>1. PICK p : /\ make_master_key(login.password, login.email, login.kdf) = Derive(p)
               /\ p.password = login.password
  BY DEF make_master_key
<1>2. PICK q : ClientKey(Password, login) = Derive(q) /\ q.password = Password
  BY DEF ClientKey
<1>3. p = q
  BY <1>1, <1>2 DEF IdealDerivation
<1> QED
  BY <1>1, <1>2, <1>3

LEMMA ModernKeyUnlocks ==
  ASSUME IdealDerivation, NEW login, NEW noise, login.sealed = "modern",
         authenticate(login, noise) # Failed
  PROVE  authenticate(login, noise) = UserKey /\ login.password = Password
<1> DEFINE master == make_master_key(login.password, login.email, login.kdf)
           sealing == Stretch(ClientKey(Password, login))
           cs == SealAes(2, sealing, Halves(UserKey))
<1>1. /\ master # Failed /\ EncKey(login) # NoString
      /\ authenticate(login, noise) = decrypt_symmetric_key(EncKey(login), master, noise)
  BY DEF authenticate
<1>2. EncKey(login) = cs
  BY <1>1 DEF EncKey, ProtectedKey
<1>3. decrypt_symmetric_key(cs, master, noise) # Failed
  BY <1>1, <1>2
<1>4. /\ parse(cs) = cs
      /\ decrypt_symmetric_key(cs, master, noise) = SymmetricKey(Unwrapped(cs, master, noise))
  BY <1>3 DEF decrypt_symmetric_key, parse
<1>5. Unwrapped(cs, master, noise) # Failed
  BY <1>3, <1>4 DEF SymmetricKey
<1>6. decrypt(cs, Legacy(master), noise.legacy) = Failed
  BY MacSound DEF Legacy
<1>7. /\ decrypt(cs, Stretch(master), noise.stretched) # Failed
      /\ Unwrapped(cs, master, noise) = decrypt(cs, Stretch(master), noise.stretched)
  BY <1>5, <1>6 DEF Unwrapped
<1>8. master = ClientKey(Password, login)
  BY <1>7, MacSound DEF IdealDerivation
<1>9. Unwrapped(cs, master, noise) = Halves(UserKey)
  <2>1. /\ Len(sealing.enc_key) = HalfKey /\ Stretch(master) = sealing
        /\ sealing.mac_key # <<>>
    BY <1>7, <1>8, MacSound DEF decrypt
  <2> QED
    BY <1>1, <1>2, <1>7, <2>1, UserKeyAssumption, HalvesOfKey, OpensWithItsKey DEF AesTypes
<1> QED
  BY <1>1, <1>2, <1>4, <1>8, <1>9, UserKeyAssumption, HalvesOfKey, MasterKeyNamesPassword

\* A user's key with a MAC is unwrapped with the master key of the right password
\* alone, for any bytes that AES may leave under another: neither the attempt with
\* the stretched key nor the legacy one takes anything else.
THEOREM UnlockIsSound == IdealDerivation => (Spec => []UnlockSound)
<1> SUFFICES ASSUME IdealDerivation PROVE Spec => []UnlockSound
  OBVIOUS
<1>1. ASSUME Entered, entry # Nothing, entry.login.sealed = "modern", entry.key # Failed
      PROVE  entry.key = UserKey /\ entry.login.password = Password
  BY <1>1, EntryParts, ModernKeyUnlocks
<1>2. Entered => UnlockSound
  BY <1>1 DEF UnlockSound
<1> QED
  BY <1>2, EntryIsEntered, PTL

\* The parameters are the ones of the client.
LEMMA SameMasterKey ==
  ASSUME NEW login, RightLogin(login),
         login.kdf.type = "pbkdf2", login.kdf.iterations >= 1
  PROVE  make_master_key(login.password, login.email, login.kdf) = ClientKey(Password, login)
BY DEF make_master_key, ClientKey, RightLogin

LEMMA RightPasswordUnlocks ==
  ASSUME KeyLengths, Present, NEW login \in Logins, NEW noise,
         RightLogin(login), login.kdf.type = "pbkdf2", login.kdf.iterations >= 1,
         login.sealed = "legacy" => pkcs7_unpad(noise.stretched) = Failed
  PROVE  authenticate(login, noise) = UserKey
<1> DEFINE master == ClientKey(Password, login)
           halves == Halves(UserKey)
           cs == ProtectedKey(login)
<1>1. make_master_key(login.password, login.email, login.kdf) = master
  BY SameMasterKey
<1>2. /\ master # Failed /\ Len(master) = HalfKey
      /\ Len(Stretch(master).enc_key) = HalfKey /\ Stretch(master).mac_key # <<>>
  BY DEF KeyLengths, ClientKey
<1>3. cs \notin {NoString, Failed}
  BY DEF Present, ProtectedKey
<1>4. authenticate(login, noise) = decrypt_symmetric_key(cs, master, noise)
  BY <1>1, <1>2, <1>3 DEF authenticate, LoggedIn, EncKey, RightLogin
<1>5. halves \in Seq(Nat) /\ halves # Failed /\ SymmetricKey(halves) = UserKey
  BY UserKeyAssumption, HalvesOfKey, FailedAssumption
<1> HIDE DEF master, halves, cs
<1>6. parse(cs) = cs /\ Unwrapped(cs, master, noise) = halves
  <2>1. CASE login.sealed = "modern"
    <3>1. cs = SealAes(2, Stretch(master), halves)
      BY <2>1 DEF cs, master, halves, ProtectedKey
    <3>2. parse(cs) = cs /\ decrypt(cs, Stretch(master), noise.stretched) = halves
      BY <1>2, <1>3, <1>5, <3>1, OpensWithItsKey DEF AesTypes
    <3> QED
      BY <1>5, <3>2 DEF Unwrapped
  <2>2. CASE login.sealed = "legacy"
    <3>1. cs = SealAes(0, Legacy(master), halves)
      BY <2>2 DEF cs, master, halves, ProtectedKey
    <3>2. Len(Legacy(master).enc_key) = HalfKey
      BY <1>2 DEF Legacy
    <3>3. parse(cs) = cs /\ decrypt(cs, Legacy(master), noise.legacy) = halves
      BY <1>3, <1>5, <3>1, <3>2, OpensWithItsKey DEF AesTypes
    <3>4. decrypt(cs, Stretch(master), noise.stretched) \in {Failed, halves}
      <4>1. cs.ct.bytes = Pad(halves)
        BY <3>1 DEF SealAes
      <4>2. pkcs7_unpad(cs.ct.bytes) = halves
        BY <1>5, <4>1, UnpadOfPad
      <4> QED
        BY <2>2, <4>2 DEF decrypt, AesCbc
    <3> QED
      BY <3>3, <3>4 DEF Unwrapped
  <2> QED
    BY <2>1, <2>2, LoginAssumption DEF RightLogin
<1> QED
  BY <1>3, <1>4, <1>5, <1>6 DEF decrypt_symmetric_key

\* The right password unwraps the user's key of a PBKDF2 account, a modern one or an
\* old one, after any number of iterations but none, unless the key of an old account
\* seems padded under the stretched key.  (Of Argon2id accounts it is false: see
\* ArgonUnlocks.)
THEOREM UnlockIsComplete == KeyLengths /\ Present => (Spec => []UnlockComplete)
<1> SUFFICES ASSUME KeyLengths, Present PROVE Spec => []UnlockComplete
  OBVIOUS
<1>1. Entered => UnlockComplete
  BY EntryParts, RightPasswordUnlocks DEF UnlockComplete
<1> QED
  BY <1>1, EntryIsEntered, PTL

-----------------------------------------------------------------------------
(***************************************************************************)
(* Intervals of any length                                                 *)
(***************************************************************************)

ByRounds == INSTANCE Recursion WITH Step <- Round
BySums == INSTANCE Recursion WITH Step <- AndThen

LEMMA TotalsUnfolded ==
  ASSUME NEW s, Len(s) \in Nat
  PROVE  \A n \in 0..Len(s) : Totals(s)[n] = IF n = 0 THEN 0 ELSE Round(Totals(s)[n - 1], s[n])
<1>1. Totals(s) = ByRounds!Folded(s, Len(s))
  BY DEF Totals, ByRounds!Folded
<1> QED
  BY <1>1, ByRounds!Unfolding

LEMMA SumsUnfolded ==
  ASSUME NEW s, Len(s) \in Nat
  PROVE  \A n \in 0..Len(s) :
           AsWritten(s)[n] = IF n = 0 THEN 0 ELSE AndThen(AsWritten(s)[n - 1], s[n])
<1>1. AsWritten(s) = BySums!Folded(s, Len(s))
  BY DEF AsWritten, BySums!Folded
<1> QED
  BY <1>1, BySums!Unfolding

\* What holds of no term and, with each of the terms, goes on to hold.
LEMMA Onwards ==
  ASSUME NEW Good, NEW n \in Nat, 0 \in Good,
         \A i \in 1..n : i - 1 \in Good => i \in Good
  PROVE  \A i \in 0..n : i \in Good
<1> DEFINE Bad == {i \in 0..n : i \notin Good}
<1>1. ASSUME NEW i \in Bad PROVE \E j \in Bad : j < i
  <2>1. i \in 1..n /\ i - 1 \in 0..n /\ i - 1 < i
    OBVIOUS
  <2>2. i - 1 \in Bad
    BY <2>1
  <2> QED
    BY <2>1, <2>2
<1>2. Bad \subseteq Nat
  OBVIOUS
<1> HIDE DEF Bad
<1>3. \A i \in Bad : \E j \in Bad : j < i
  BY <1>1
<1>4. Bad = {}
  BY <1>2, <1>3, ByRounds!NoLeast, Zenon
<1> QED
  BY <1>4 DEF Bad

Amounts == 0..(Words - 1)
Readings == {Invalid, Panics} \cup Amounts

LEMMA MultipliedBound ==
  ASSUME NEW amount \in Nat, NEW unit \in DOMAIN Seconds
  PROVE  amount * Seconds[unit] \in Nat /\ Multiplied(amount, unit) \in Amounts
<1>1. Seconds[unit] \in Nat
  BY DEF Seconds
<1>2. Words \in Nat \ {0}
  BY DurationAssumption
<1> DEFINE product == amount * Seconds[unit]
<1>3. product \in Nat
  BY <1>1
<1> HIDE DEF product
<1>4. product % Words \in Amounts
  BY <1>2, <1>3, Remainder DEF Amounts
<1> QED
  BY <1>3, <1>4 DEF Multiplied, product

LEMMA RoundReads ==
  ASSUME NEW total \in Readings, NEW t, t.unit \in Units
  PROVE  Round(total, t) \in Readings
<1>1. ASSUME total \in Amounts, t.amount \in Amounts, t.unit \in DOMAIN Seconds
      PROVE  Added(total, t) \in Amounts
  <2>1. t.amount \in Nat
    BY <1>1 DEF Amounts
  <2>2. Multiplied(t.amount, t.unit) \in Amounts
    BY <1>1, <2>1, MultipliedBound
  <2> QED
    BY <1>1, <2>2, DurationAssumption DEF Added, saturating_add, Amounts
<1> QED
  BY <1>1 DEF Round, Units, Readings, Amounts

LEMMA DurationReads ==
  ASSUME NEW s, IsDuration(s)
  PROVE  parse_duration(s) \in Readings
<1> DEFINE Good == {n \in 0..Len(s) : Totals(s)[n] \in Readings}
<1>1. Len(s) \in Nat /\ \A n \in 1..Len(s) : s[n].unit \in Units
  BY DEF IsDuration
<1>2. 0 \in Good
  BY <1>1, TotalsUnfolded, DurationAssumption DEF Readings, Amounts
<1>3. ASSUME NEW i \in 1..Len(s), i - 1 \in Good PROVE i \in Good
  <2>1. i \in 0..Len(s) /\ i # 0
    BY <1>1
  <2>2. Totals(s)[i] = Round(Totals(s)[i - 1], s[i])
    BY <1>1, <2>1, TotalsUnfolded
  <2> QED
    BY <1>1, <1>3, <2>1, <2>2, RoundReads
<1> HIDE DEF Good
<1>4. \A i \in 1..Len(s) : i - 1 \in Good => i \in Good
  BY <1>3
<1>5. \A i \in 0..Len(s) : i \in Good
  BY <1>1, <1>2, <1>4, Onwards, Zenon
<1>6. Len(s) \in Good
  BY <1>1, <1>5
<1> QED
  BY <1>6 DEF parse_duration, Readings, Good

\* Until it is all of a u64, the total is the sum.
Capped(sum) == IF sum < Words THEN sum ELSE Words - 1

LEMMA RoundAdds ==
  ASSUME NEW sum \in Nat, NEW t, t.unit \in DOMAIN Seconds, t.amount \in Amounts,
         t.amount * Seconds[t.unit] < Words
  PROVE  AndThen(sum, t) \in Nat /\ Round(Capped(sum), t) = Capped(AndThen(sum, t))
<1> DEFINE product == t.amount * Seconds[t.unit]
<1>1. Words \in Nat \ {0}
  BY DurationAssumption
<1>2. product \in Nat /\ product < Words
  BY MultipliedBound DEF Amounts
<1>3. Multiplied(t.amount, t.unit) = product % Words
  BY DEF Multiplied
<1>4. AndThen(sum, t) = sum + product
  BY DEF AndThen
<1> HIDE DEF product
<1>5. product % Words = product
  BY <1>1, <1>2
<1>6. Capped(sum) \in Nat /\ Capped(sum) \notin {Invalid, Panics}
  BY <1>1, DurationAssumption DEF Capped
<1>7. Round(Capped(sum), t) = Added(Capped(sum), t)
  BY <1>6 DEF Round, Amounts, Seconds
<1>8. Added(Capped(sum), t) = saturating_add(Capped(sum), product)
  BY <1>3, <1>5 DEF Added
<1>9. saturating_add(Capped(sum), product) = Capped(sum + product)
  BY <1>1, <1>2 DEF saturating_add, Capped
<1> QED
  BY <1>2, <1>4, <1>7, <1>8, <1>9

LEMMA DurationAsWritten ==
  ASSUME NEW s, IsDuration(s), WellWritten(s)
  PROVE  LET total == AsWritten(s)[Len(s)] IN
         /\ total \in Nat
         /\ parse_duration(s) = IF s = <<>> THEN Invalid ELSE Capped(total)
         /\ s = <<>> => total = 0
<1> DEFINE Good == {n \in 0..Len(s) :
                      AsWritten(s)[n] \in Nat /\ Totals(s)[n] = Capped(AsWritten(s)[n])}
<1>1. /\ Len(s) \in Nat
      /\ \A n \in 1..Len(s) :
           s[n].unit \in DOMAIN Seconds /\ s[n].amount \in Amounts
             /\ s[n].amount * Seconds[s[n].unit] < Words
  BY DEF IsDuration, WellWritten, Amounts
<1>2. AsWritten(s)[0] = 0 /\ Totals(s)[0] = 0
  BY <1>1, TotalsUnfolded, SumsUnfolded
<1>3. 0 \in Good
  BY <1>1, <1>2, DurationAssumption DEF Capped
<1>4. ASSUME NEW i \in 1..Len(s), i - 1 \in Good PROVE i \in Good
  <2>1. i \in 0..Len(s) /\ i # 0
    BY <1>1
  <2>2. /\ Totals(s)[i] = Round(Totals(s)[i - 1], s[i])
        /\ AsWritten(s)[i] = AndThen(AsWritten(s)[i - 1], s[i])
    BY <1>1, <2>1, TotalsUnfolded, SumsUnfolded
  <2> DEFINE before == AsWritten(s)[i - 1]
             t == s[i]
  <2>3. before \in Nat /\ Totals(s)[i - 1] = Capped(before)
    BY <1>4
  <2>4. /\ t.unit \in DOMAIN Seconds /\ t.amount \in Amounts
        /\ t.amount * Seconds[t.unit] < Words
    BY <1>1
  <2> HIDE DEF before, t
  <2>5. AndThen(before, t) \in Nat /\ Round(Capped(before), t) = Capped(AndThen(before, t))
    BY <2>3, <2>4, RoundAdds
  <2>6. AsWritten(s)[i] \in Nat /\ Totals(s)[i] = Capped(AsWritten(s)[i])
    BY <2>2, <2>3, <2>5 DEF before, t
  <2> QED
    BY <2>1, <2>6
<1> HIDE DEF Good
<1>5. \A i \in 1..Len(s) : i - 1 \in Good => i \in Good
  BY <1>4
<1>6. \A i \in 0..Len(s) : i \in Good
  BY <1>1, <1>3, <1>5, Onwards, Zenon
<1>7. Len(s) \in Good
  BY <1>1, <1>6
<1>8. s = <<>> => Len(s) = 0
  OBVIOUS
<1> QED
  BY <1>2, <1>7, <1>8 DEF parse_duration, Good

-----------------------------------------------------------------------------
(***************************************************************************)
(* States                                                                  *)
(***************************************************************************)

\* A cipher string yields bytes, whatever the noise.
LEMMA UnpadBytes ==
  ASSUME NEW bytes \in Seq(Nat)
  PROVE  pkcs7_unpad(bytes) = Failed \/ pkcs7_unpad(bytes) \in Seq(Nat)
<1>1. CASE Len(bytes) # 0 /\ PadLen(bytes) \in 1..BlockSize
  <2>1. PadLen(bytes) \in Nat /\ Len(bytes) - PadLen(bytes) <= Len(bytes)
    BY <1>1
  <2>2. SubSeq(bytes, 1, Len(bytes) - PadLen(bytes)) \in Seq(Nat)
    BY <2>1
  <2> QED
    BY <2>2 DEF pkcs7_unpad
<1> QED
  BY <1>1 DEF pkcs7_unpad

LEMMA SymmetricKeyIsKey ==
  ASSUME NEW bytes, bytes = Failed \/ bytes \in Seq(Nat)
  PROVE  SymmetricKey(bytes) = Failed \/ IsKey(SymmetricKey(bytes))
<1>1. CASE bytes \in Seq(Nat) /\ bytes # Failed /\ Len(bytes) = 2 * HalfKey
  <2>1. /\ SubSeq(bytes, 1, HalfKey) \in Seq(Nat)
        /\ Len(SubSeq(bytes, 1, HalfKey)) = HalfKey
        /\ SubSeq(bytes, HalfKey + 1, 2 * HalfKey) \in Seq(Nat)
        /\ Len(SubSeq(bytes, HalfKey + 1, 2 * HalfKey)) = HalfKey
    BY <1>1
  <2> QED
    BY <1>1, <2>1 DEF SymmetricKey, IsKey
<1> QED
  BY <1>1 DEF SymmetricKey

LEMMA DecryptBytes ==
  ASSUME NEW cs, cs.ct.bytes \in Seq(Nat), NEW key, NEW noise \in Seq(Nat)
  PROVE  decrypt(cs, key, noise) = Failed \/ decrypt(cs, key, noise) \in Seq(Nat)
<1>1. AesCbc(cs.ct, key.enc_key, noise) \in Seq(Nat)
  BY DEF AesCbc
<1> QED
  BY <1>1, UnpadBytes DEF decrypt

LEMMA AuthenticateKey ==
  ASSUME NEW login, NEW s \in Noises, NEW l \in Noises
  PROVE  LET key == authenticate(login, [stretched |-> s, legacy |-> l])
         IN  key = Failed \/ IsKey(key)
<1> DEFINE noise == [stretched |-> s, legacy |-> l]
           master == make_master_key(login.password, login.email, login.kdf)
           cs == ProtectedKey(login)
<1>1. noise.stretched \in Seq(Nat) /\ noise.legacy \in Seq(Nat)
  BY LookupAssumption
<1>2. cs.ct.bytes \in Seq(Nat)
  <2>1. Halves(UserKey) \in Seq(Nat)
    BY UserKeyAssumption, HalvesOfKey
  <2>2. Pad(Halves(UserKey)) \in Seq(Nat)
    BY <2>1, PaddedLength
  <2>3. cs.ct.bytes = Pad(Halves(UserKey))
    BY DEF ProtectedKey, SealAes
  <2> QED
    BY <2>2, <2>3
<1>3. \/ authenticate(login, noise) = Failed
      \/ /\ EncKey(login) = cs /\ authenticate(login, noise) = decrypt_symmetric_key(cs, master, noise)
  BY DEF authenticate, EncKey
<1> HIDE DEF noise, cs, master
<1>4. Unwrapped(cs, master, noise) = Failed \/ Unwrapped(cs, master, noise) \in Seq(Nat)
  BY <1>1, <1>2, DecryptBytes DEF Unwrapped
<1>5. \/ decrypt_symmetric_key(cs, master, noise) = Failed
      \/ decrypt_symmetric_key(cs, master, noise) = SymmetricKey(Unwrapped(cs, master, noise))
  BY DEF decrypt_symmetric_key, parse
<1>6. authenticate(login, noise) = Failed \/ IsKey(authenticate(login, noise))
  BY <1>3, <1>4, <1>5, SymmetricKeyIsKey
<1> QED
  BY <1>6 DEF noise

Period == period = Panics \/ period \in Amounts

\* The key of the session comes from authenticate, and the cache was decrypted with it.
Held ==
  /\ entry # Nothing =>
       entry.login \in Logins /\ (entry.key = Failed \/ IsKey(entry.key))
         /\ sym_key = Nothing /\ synced = Nothing
  /\ sym_key = Nothing \/ IsKey(sym_key)
  /\ synced # Nothing =>
       /\ synced.vault \in Vaults /\ synced.order \in Orders /\ synced.key = sym_key
       /\ sym_key # Nothing /\ spec \in Specs
  /\ spec = Nothing \/ spec \in Specs

\* A reply is what some cache of the vault makes of the resource.
Answered == reply # Nothing =>
  synced # Nothing /\ \E order \in Orders : reply = Outcome(CacheOf(order))

LEMMA EnvDurationAmount ==
  ASSUME NEW value \in EnvValues
  PROVE  env_duration(value, DefaultRefresh) \in {Panics} \cup Amounts
<1>1. CASE value = Unset
  BY <1>1, LookupAssumption, DurationAssumption DEF env_duration, Readings, Amounts
<1>2. CASE value # Unset
  <2>1. parse_duration(value) \in Readings
    BY <1>2, EnvAssumption, DurationReads
  <2>2. DefaultRefresh \in Amounts
    BY LookupAssumption, DurationAssumption DEF Amounts
  <2>3. env_duration(value, DefaultRefresh) \in {DefaultRefresh, parse_duration(value)} \ {Invalid}
    BY <1>2, <2>2, DurationAssumption DEF env_duration, Positive, Amounts
  <2> QED
    BY <2>1, <2>2, <2>3 DEF Readings
<1> QED
  BY <1>1, <1>2

LEMMA PeriodHolds == Spec => []Period
<1>1. Init => Period
  BY EnvDurationAmount DEF Init, Period, Readings
<1>2. Period /\ [Next]_vars => Period'
  <2> SUFFICES ASSUME Period, [Next]_vars PROVE Period'
    OBVIOUS
  <2>1. CASE Panic
    BY <2>1, EnvDurationAmount DEF Panic, Period, Readings
  <2>2. CASE Authenticate \/ StoreKey \/ InitialSync \/ Sync \/ Reconcile \/ UNCHANGED vars
    BY <2>2 DEF Authenticate, StoreKey, InitialSync, Sync, Reconcile, vars, Period
  <2> QED
    BY <2>1, <2>2 DEF Next
<1> QED
  BY <1>1, <1>2, PTL DEF Spec

LEMMA KeyIsHeld == Spec => []Held
<1>1. Init => Held
  BY DEF Init, Held
<1>2. Held /\ [Next]_vars => Held'
  <2> SUFFICES ASSUME Held, [Next]_vars PROVE Held'
    OBVIOUS
  <2>1. CASE Authenticate
    <3>1. PICK login \in Logins, s \in Noises, l \in Noises :
            entry' = [login |-> login, noise |-> [stretched |-> s, legacy |-> l],
                      key |-> authenticate(login, [stretched |-> s, legacy |-> l])]
      BY <2>1 DEF Authenticate
    <3>2. entry'.login \in Logins /\ (entry'.key = Failed \/ IsKey(entry'.key))
      BY <3>1, AuthenticateKey
    <3>3. UNCHANGED <<period, sym_key, synced, spec, reply>> /\ sym_key = Nothing
      BY <2>1 DEF Authenticate
    <3> QED
      BY <3>2, <3>3 DEF Held
  <2>2. CASE StoreKey
    BY <2>2 DEF StoreKey, Held
  <2>3. CASE InitialSync
    BY <2>3 DEF InitialSync, Synced, Held
  <2>4. CASE Sync
    BY <2>4 DEF Sync, Synced, Held
  <2>5. CASE Panic
    BY <2>5 DEF Panic, Held
  <2>6. CASE Reconcile \/ UNCHANGED vars
    BY <2>6 DEF Reconcile, vars, Held
  <2> QED
    BY <2>1, <2>2, <2>3, <2>4, <2>5, <2>6 DEF Next
<1> QED
  BY <1>1, <1>2, PTL DEF Spec

LEMMA ReplyIsAnswered == Spec => []Answered
<1>1. Init => Answered
  BY DEF Init, Answered
<1>2. Held /\ Held' /\ Answered /\ [Next]_vars => Answered'
  <2> SUFFICES ASSUME Held, Held', Answered, [Next]_vars PROVE Answered'
    OBVIOUS
  <2>1. CASE Reconcile
    <3>1. synced # Nothing /\ reply' = Outcome(CacheOf(synced.order))
      BY <2>1 DEF Reconcile, cache
    <3>2. synced' = synced /\ spec' = spec
      BY <2>1 DEF Reconcile
    <3>3. synced.order \in Orders
      BY <3>1 DEF Held
    <3>4. \A order : Outcome(CacheOf(order))' = Outcome(CacheOf(order))
      BY <3>2 DEF Outcome, CacheOf, Interval
    <3> QED
      BY <3>1, <3>2, <3>3, <3>4 DEF Answered
  <2>2. CASE Sync
    <3>1. PICK vault \in Vaults, order \in Orders :
            /\ synced' = [vault |-> vault, key |-> sym_key, order |-> order]
            /\ reply' = IF vault = synced.vault THEN reply ELSE Nothing
      BY <2>2 DEF Sync, Synced
    <3>2. synced # Nothing /\ sym_key' = sym_key /\ spec' = spec
      BY <2>2 DEF Sync
    <3>3. synced.key = sym_key /\ IsKey(sym_key)
      BY <3>2 DEF Held
    <3>4. synced' # Nothing
      BY <3>1, <3>3, LookupAssumption DEF IsKey
    <3>5. CASE reply' # Nothing
      <4>1. reply' = reply /\ synced'.vault = synced.vault /\ synced'.key = synced.key
        BY <3>1, <3>3, <3>5
      <4>2. \A o : Outcome(CacheOf(o))' = Outcome(CacheOf(o))
        BY <4>1, <3>2 DEF Outcome, CacheOf, Interval
      <4>3. PICK o \in Orders : reply = Outcome(CacheOf(o))
        BY <4>1, <3>5 DEF Answered
      <4> QED
        BY <3>4, <4>1, <4>2, <4>3 DEF Answered
    <3> QED
      BY <3>5 DEF Answered
  <2>3. CASE InitialSync
    BY <2>3 DEF InitialSync, Answered
  <2>4. CASE Panic
    BY <2>4 DEF Panic, Answered
  <2>5. CASE Authenticate \/ StoreKey \/ UNCHANGED vars
    <3>1. synced' = synced /\ spec' = spec /\ reply' = reply
      BY <2>5 DEF Authenticate, StoreKey, vars
    <3>2. \A o : Outcome(CacheOf(o))' = Outcome(CacheOf(o))
      BY <3>1 DEF Outcome, CacheOf, Interval
    <3> QED
      BY <3>1, <3>2 DEF Answered
  <2> QED
    BY <2>1, <2>2, <2>3, <2>4, <2>5 DEF Next
<1> QED
  BY <1>1, <1>2, KeyIsHeld, PTL DEF Spec

\* Whatever bytes a decryption may leave: a key that is stored has two halves, the
\* period of the refresh fits, and a reply is about the synced vault.
THEOREM TypesAreOK == Spec => []TypeOK
<1>1. ASSUME Answered, reply # Nothing
      PROVE  synced # Nothing /\ reply.kind \in {"invalid", "failed", "written"}
  BY <1>1 DEF Answered, Outcome
<1>2. Period /\ Held /\ Answered => TypeOK
  BY <1>1 DEF TypeOK, Period, Held, Amounts
<1> QED
  BY <1>2, PeriodHolds, KeyIsHeld, ReplyIsAnswered, PTL

LEMMA OutcomeRequeue ==
  ASSUME NEW cached
  PROVE  Outcome(cached).requeue = IF Interval = Invalid THEN DefaultSync ELSE Interval
<1> DEFINE requests == build_requests(spec)
           fetched == try_fetch_secrets(cached, requests)
<1> HIDE DEF requests, fetched
<1>1. Outcome(cached) =
        IF Interval = Invalid THEN [kind |-> "invalid", requeue |-> DefaultSync]
        ELSE IF requests = Failed THEN [kind |-> "invalid", requeue |-> Interval]
        ELSE IF fetched.error # "none"
        THEN [kind |-> "failed", requeue |-> Interval, error |-> fetched.error]
        ELSE [kind |-> "written", requeue |-> Interval,
              data |-> secret_data(spec, fetched.values)]
  BY DEF Outcome, requests, fetched
<1> QED
  BY <1>1

\* For a syncInterval of any length, whose amounts are numbers and whose products fit:
\* the next reconcile is due after the sum of its terms, or never sooner than the
\* greatest number of seconds (parse_duration, parse_sync_interval).
THEOREM IntervalIsAsWritten == Spec => []IntervalAsWritten
<1>1. ASSUME Held, Answered, reply # Nothing, spec.interval # Unset, WellWritten(spec.interval)
      PROVE  LET total == AsWritten(spec.interval)[Len(spec.interval)]
             IN  reply.requeue = IF total = 0 THEN DefaultSync
                                 ELSE IF total < Words THEN total ELSE Words - 1
  <2> DEFINE s == spec.interval
             total == AsWritten(s)[Len(s)]
  <2>1. synced # Nothing /\ \E order \in Orders : reply = Outcome(CacheOf(order))
    BY <1>1 DEF Answered
  <2>2. IsDuration(s)
    BY <1>1, <2>1, SpecAssumption DEF Held
  <2>3. reply.requeue = IF Interval = Invalid THEN DefaultSync ELSE Interval
    BY <2>1, OutcomeRequeue
  <2>4. Interval = IF parse_duration(s) = 0 THEN Invalid ELSE parse_duration(s)
    BY <1>1 DEF Interval, parse_sync_interval, Positive
  <2> HIDE DEF s
  <2>5. /\ total \in Nat
        /\ parse_duration(s) = IF s = <<>> THEN Invalid ELSE Capped(total)
        /\ s = <<>> => total = 0
    BY <1>1, <2>2, DurationAsWritten DEF s
  <2> HIDE DEF total
  <2>6. Words \in Nat /\ Words > 1 /\ Invalid \notin Nat
    BY DurationAssumption
  <2>7. reply.requeue = IF total = 0 THEN DefaultSync
                        ELSE IF total < Words THEN total ELSE Words - 1
    BY <2>3, <2>4, <2>5, <2>6 DEF Capped
  <2> QED
    BY <2>7 DEF total, s
<1>2. Held /\ Answered => IntervalAsWritten
  BY <1>1 DEF IntervalAsWritten
<1> QED
  BY <1>2, KeyIsHeld, ReplyIsAnswered, PTL

-----------------------------------------------------------------------------
(***************************************************************************)
(* What a sync reads                                                       *)
(***************************************************************************)

LEMMA ListDomain ==
  ASSUME NEW s, IsList(s)
  PROVE  /\ Len(s) \in Nat /\ DOMAIN s = 1..Len(s) /\ DOMAIN s \subseteq Nat
         /\ s # <<>> => 1 \in DOMAIN s
<1>1. Len(s) \in Nat /\ DOMAIN s = 1..Len(s) /\ s = [i \in DOMAIN s |-> s[i]]
  BY DEF IsList
<1>2. CASE Len(s) = 0
  <2>1. DOMAIN s = {}
    BY <1>1, <1>2
  <2>2. s = <<>>
    BY <1>1, <2>1
  <2> QED
    BY <1>1, <2>1, <2>2
<1> QED
  BY <1>1, <1>2

\* What is made is there, and is no error: a cipher string, a MAC, an item.
Made ==
  /\ \A t, p, b, i, c, m :
       [type |-> t, parts |-> p, base64 |-> b, iv |-> i, ct |-> c, mac |-> m] \notin {NoString, Failed}
  /\ \A key, iv, ct : MacOf(key, iv, ct) # NoString
  /\ \A key : IsKey(key) => key # Failed
  /\ \A i, o, n, p, q, f :
       [id |-> i, organization |-> o, name |-> n, password |-> p, notes |-> q, fields |-> f] # Failed

LEMMA KeyParts ==
  ASSUME NEW key, IsKey(key)
  PROVE  /\ Len(key.enc_key) = HalfKey /\ key.mac_key # <<>>
         /\ key.enc_key \in Seq(Nat) /\ key.mac_key \in Seq(Nat)
         /\ \A other : IsKey(other) /\ other.enc_key = key.enc_key /\ other.mac_key = key.mac_key
              => other = key
BY DEF IsKey

LEMMA SealedIsMade ==
  ASSUME Made, NEW key, NEW text
  PROVE  /\ SealAes(2, key, text) \notin {NoString, Failed}
         /\ [SealAes(2, key, text) EXCEPT !.mac = NoString] \notin {NoString, Failed}
         /\ SealRsa(4, key, text) \notin {NoString, Failed}
BY DEF Made, SealAes, SealRsa

\* What a part says to the one whose key it is.
Legible(text, damaged) ==
  IF text = <<>> THEN <<>> ELSE IF damaged THEN Failed ELSE Text(text)

LEMMA ReadsOwn ==
  ASSUME Made, NEW text \in Seq(Nat), NEW key, IsKey(key), NEW part, NEW parts
  PROVE  Readable(Sealed(text, key, part \in parts), key) = Legible(text, part \in parts)
<1> DEFINE cs == SealAes(2, key, text)
           broken == [cs EXCEPT !.mac = NoString]
<1>1. CASE text = <<>>
  BY <1>1 DEF Sealed, Readable, decrypt_str, Legible
<1>2. CASE text # <<>> /\ part \in parts
  <2>1. Sealed(text, key, part \in parts) = broken
    BY <1>2 DEF Sealed
  <2>2. broken \notin {NoString, Failed}
    BY SealedIsMade
  <2>3. broken.type = 2 /\ broken.mac = NoString
    BY DEF SealAes
  <2> HIDE DEF broken
  <2>4. decrypt(broken, key, NoNoise) = Failed
    BY <2>3 DEF decrypt, MacMatches, Made
  <2>5. decrypt_str(broken, key, NoNoise) = Failed
    BY <2>2, <2>4 DEF decrypt_str, parse, Text
  <2> QED
    BY <1>2, <2>1, <2>5 DEF Readable, Legible
<1>3. CASE text # <<>> /\ part \notin parts
  <2>1. Sealed(text, key, part \in parts) = cs
    BY <1>3 DEF Sealed
  <2>2. cs \notin {NoString, Failed}
    BY SealedIsMade
  <2>3. parse(cs) = cs /\ decrypt(cs, key, NoNoise) = text
    BY <2>2, KeyParts, OpensWithItsKey DEF AesTypes
  <2> HIDE DEF cs
  <2>4. decrypt_str(cs, key, NoNoise) = Text(text)
    BY <2>2, <2>3 DEF decrypt_str
  <2> QED
    BY <1>3, <2>1, <2>4 DEF Readable, Legible
<1> QED
  BY <1>1, <1>2, <1>3

\* Under another key the MAC does not match, or else AES yields nothing.
LEMMA OtherKeyFails ==
  ASSUME NEW text, NEW key, IsKey(key), NEW other, IsKey(other), other # key
  PROVE  decrypt(SealAes(2, key, text), other, NoNoise) = Failed
<1> DEFINE cs == SealAes(2, key, text)
<1> SUFFICES ASSUME decrypt(cs, other, NoNoise) # Failed PROVE FALSE
  OBVIOUS
<1>1. other.mac_key = key.mac_key
  BY MacSound
<1>2. other.enc_key # key.enc_key
  BY <1>1, KeyParts
<1>3. cs.ct.key = key.enc_key
  BY DEF SealAes
<1> HIDE DEF cs
<1>4. AesCbc(cs.ct, other.enc_key, NoNoise) = <<>>
  BY <1>2, <1>3 DEF AesCbc, NoNoise
<1>5. pkcs7_unpad(<<>>) = Failed
  BY DEF pkcs7_unpad
<1> QED
  BY <1>4, <1>5 DEF decrypt

LEMMA ReadsOther ==
  ASSUME Made, NEW text, NEW key, IsKey(key), NEW other, IsKey(other),
         other # key, NEW part, NEW parts
  PROVE  Readable(Sealed(text, key, part \in parts), other) = IF text = <<>> THEN <<>> ELSE Failed
<1> DEFINE cs == SealAes(2, key, text)
           broken == [cs EXCEPT !.mac = NoString]
<1>1. CASE text = <<>>
  BY <1>1 DEF Sealed, Readable, decrypt_str
<1>2. CASE text # <<>>
  <2>1. decrypt(cs, other, NoNoise) = Failed
    BY OtherKeyFails
  <2>2. broken.type = 2 /\ broken.mac = NoString
    BY DEF SealAes
  <2>3. cs \notin {NoString, Failed} /\ broken \notin {NoString, Failed}
    BY SealedIsMade
  <2>4. Sealed(text, key, part \in parts) \in {cs, broken}
    BY <1>2 DEF Sealed
  <2> HIDE DEF cs, broken
  <2>5. decrypt(broken, other, NoNoise) = Failed
    BY <2>2 DEF decrypt, MacMatches, Made
  <2>6. \A s \in {cs, broken} : decrypt_str(s, other, NoNoise) = Failed
    BY <2>1, <2>3, <2>5 DEF decrypt_str, parse, Text
  <2> QED
    BY <1>2, <2>4, <2>6 DEF Readable
<1> QED
  BY <1>1, <1>2

-----------------------------------------------------------------------------
(***************************************************************************)
(* The keys of organizations                                               *)
(***************************************************************************)

LEMMA OrgKeyOpens ==
  ASSUME Made, NEW key, IsKey(key), NEW shared
  PROVE  decrypt_org_key(SealRsa(4, IF shared THEN PrivateKey ELSE <<>>, Halves(key)), PrivateKey)
           = IF shared THEN key ELSE Failed
<1> DEFINE private == IF shared THEN PrivateKey ELSE <<>>
           cs == SealRsa(4, private, Halves(key))
<1>1. cs \notin {NoString, Failed}
  BY SealedIsMade
<1>2. /\ cs.type = 4 /\ cs.base64 /\ cs.ct.key = private /\ cs.ct.bytes = Halves(key)
  BY DEF SealRsa
<1>3. SymmetricKey(Halves(key)) = key
  BY HalvesOfKey
<1>4. PrivateKey # <<>>
  BY LookupAssumption
<1> HIDE DEF cs
<1>5. parse(cs) = cs
  BY <1>1, <1>2 DEF parse, RsaTypes
<1>6. decrypt_rsa(cs, PrivateKey) = IF shared THEN Halves(key) ELSE Failed
  BY <1>2, <1>4 DEF decrypt_rsa, RsaTypes
<1>7. decrypt_org_key(cs, PrivateKey) = IF shared THEN key ELSE Failed
  BY <1>1, <1>3, <1>5, <1>6 DEF decrypt_org_key, SymmetricKey
<1> QED
  BY <1>7 DEF cs

LEMMA PrivateKeyOpens ==
  ASSUME Made, NEW key, IsKey(key)
  PROVE  decrypt_private_key(SealAes(2, key, PrivateKey), key, NoNoise) = PrivateKey
<1> DEFINE cs == SealAes(2, key, PrivateKey)
<1>1. cs \notin {NoString, Failed}
  BY SealedIsMade
<1>2. PrivateKey \in Seq(Nat)
  BY LookupAssumption
<1>3. parse(cs) = cs /\ decrypt(cs, key, NoNoise) = PrivateKey
  BY <1>1, <1>2, KeyParts, OpensWithItsKey DEF AesTypes
<1> HIDE DEF cs
<1>4. decrypt_private_key(cs, key, NoNoise) = PrivateKey
  BY <1>1, <1>3 DEF decrypt_private_key
<1> QED
  BY <1>4 DEF cs

LEMMA PrivateKeyHidden ==
  ASSUME NEW key, IsKey(key), NEW other, IsKey(other), other # key
  PROVE  decrypt_private_key(SealAes(2, key, PrivateKey), other, NoNoise) = Failed
<1> DEFINE cs == SealAes(2, key, PrivateKey)
<1>1. decrypt(cs, other, NoNoise) = Failed
  BY OtherKeyFails
<1> HIDE DEF cs
<1>2. decrypt_private_key(cs, other, NoNoise) = Failed
  BY <1>1 DEF decrypt_private_key, parse
<1> QED
  BY <1>2 DEF cs

\* The response names the organizations as the vault does.
LEMMA ResponseOrgs ==
  ASSUME NEW vault \in Vaults
  PROVE  LET sync == SyncResponse(vault) IN
         /\ sync.private_key = SealAes(2, vault.key, PrivateKey)
         /\ DOMAIN sync.organizations = DOMAIN vault.orgs
         /\ \A o \in DOMAIN vault.orgs :
              /\ sync.organizations[o].id = vault.orgs[o].id
              /\ sync.organizations[o].name = vault.orgs[o].name
              /\ sync.organizations[o].key =
                   SealRsa(4, IF vault.orgs[o].shared THEN PrivateKey ELSE <<>>,
                           Halves(vault.orgs[o].key))
BY DEF SyncResponse

\* With the user's key: the keys of the organizations that are shared, by their ids.
LEMMA OwnOrgKeys ==
  ASSUME Made, NEW vault \in Vaults
  PROVE  LET org_keys == OrgKeys(SyncResponse(vault), vault.key) IN
         \A o \in DOMAIN vault.orgs :
           /\ vault.orgs[o].id \in DOMAIN org_keys <=> vault.orgs[o].shared
           /\ vault.orgs[o].shared => org_keys[vault.orgs[o].id] = vault.orgs[o].key
<1> DEFINE sync == SyncResponse(vault)
           private_key == decrypt_private_key(sync.private_key, vault.key, NoNoise)
           org_key(o) == IF private_key = Failed THEN Failed
                         ELSE decrypt_org_key(sync.organizations[o].key, private_key)
           opened == {o \in DOMAIN sync.organizations : org_key(o) # Failed}
           org_keys == OrgKeys(sync, vault.key)
<1>1. IsKey(vault.key) /\ \A o \in DOMAIN vault.orgs : IsKey(vault.orgs[o].key)
  BY VaultAssumption
<1>2. org_keys = [id \in {sync.organizations[o].id : o \in opened} |->
                    org_key(CHOOSE o \in opened : sync.organizations[o].id = id)]
  BY DEF OrgKeys
<1>3. private_key = PrivateKey /\ private_key # Failed
  BY <1>1, ResponseOrgs, PrivateKeyOpens, LookupAssumption, FailedAssumption
<1>4. \A o \in DOMAIN vault.orgs :
        org_key(o) = IF vault.orgs[o].shared THEN vault.orgs[o].key ELSE Failed
  BY <1>1, <1>3, ResponseOrgs, OrgKeyOpens
<1>5. /\ DOMAIN sync.organizations = DOMAIN vault.orgs
      /\ \A o \in DOMAIN vault.orgs : sync.organizations[o].id = vault.orgs[o].id
  BY ResponseOrgs
<1>6. \A o : o \in opened <=> o \in DOMAIN vault.orgs /\ vault.orgs[o].shared
  BY <1>1, <1>4, <1>5 DEF Made
<1> HIDE DEF sync, org_key, opened, org_keys
<1>7. ASSUME NEW o \in opened
      PROVE  (CHOOSE p \in opened : sync.organizations[p].id = vault.orgs[o].id) = o
  <2>1. \A p \in opened : sync.organizations[p].id = vault.orgs[o].id => p = o
    BY <1>5, <1>6, VaultAssumption
  <2>2. sync.organizations[o].id = vault.orgs[o].id
    BY <1>5, <1>6
  <2> QED
    BY <2>1, <2>2
<1>8. ASSUME NEW o \in DOMAIN vault.orgs, vault.orgs[o].shared
      PROVE  vault.orgs[o].id \in DOMAIN org_keys /\ org_keys[vault.orgs[o].id] = vault.orgs[o].key
  <2>1. o \in opened /\ sync.organizations[o].id = vault.orgs[o].id
    BY <1>5, <1>6, <1>8
  <2> QED
    BY <1>2, <1>4, <1>7, <1>8, <2>1
<1>9. ASSUME NEW o \in DOMAIN vault.orgs, vault.orgs[o].id \in DOMAIN org_keys
      PROVE  vault.orgs[o].shared
  <2>1. PICK p \in opened : sync.organizations[p].id = vault.orgs[o].id
    BY <1>2, <1>9
  <2>2. p = o
    BY <1>5, <1>6, <2>1, VaultAssumption
  <2> QED
    BY <1>6, <2>1, <2>2
<1> QED
  BY <1>8, <1>9 DEF org_keys, sync

\* With another key: none.
LEMMA OtherOrgKeys ==
  ASSUME NEW vault \in Vaults, NEW other, IsKey(other), other # vault.key
  PROVE  DOMAIN OrgKeys(SyncResponse(vault), other) = {}
<1> DEFINE sync == SyncResponse(vault)
<1>1. decrypt_private_key(sync.private_key, other, NoNoise) = Failed
  BY ResponseOrgs, VaultAssumption, PrivateKeyHidden
<1> HIDE DEF sync
<1>2. DOMAIN OrgKeys(sync, other) = {}
  BY <1>1 DEF OrgKeys
<1> QED
  BY <1>2 DEF sync

-----------------------------------------------------------------------------
(***************************************************************************)
(* The items of a cache                                                    *)
(***************************************************************************)

Open(vault, item) ==
  item.organization = NoOrg \/ vault.orgs[OrgOf(vault, item.organization)].shared

\* The text of a part in the cache.
Shown(text, damaged) == OrEmpty(Legible(text, damaged))

LEMMA LegibleText ==
  ASSUME NEW text \in Seq(Nat), NEW part, NEW parts
  PROVE  LET damaged == part \in parts IN
         /\ Legible(text, damaged) \in {Failed, text}
         /\ Legible(text, damaged) # Failed /\ text # <<>> => part \notin parts /\ Text(text) # Failed
         /\ part \notin parts /\ Text(text) # Failed => Legible(text, damaged) = text
         /\ Shown(text, damaged) \in {<<>>, text}
         /\ Shown(text, damaged) # <<>> => part \notin parts /\ Text(text) # Failed
         /\ text # <<>> /\ part \notin parts /\ Text(text) # Failed => Shown(text, damaged) = text
BY FailedAssumption DEF Legible, Text, Shown, OrEmpty

LEMMA OrgOfItem ==
  ASSUME NEW vault \in Vaults, NEW n \in DOMAIN vault.items,
         vault.items[n].organization # NoOrg
  PROVE  LET o == OrgOf(vault, vault.items[n].organization)
         IN  o \in DOMAIN vault.orgs /\ vault.orgs[o].id = vault.items[n].organization
BY VaultAssumption DEF OrgOf

LEMMA ItemKey ==
  ASSUME Made, NEW vault \in Vaults, NEW n \in DOMAIN vault.items
  PROVE  LET item == vault.items[n] IN
         /\ IsKey(OwnerKey(vault, item))
         /\ KeyFor(SealedItem(vault, item), OrgKeys(SyncResponse(vault), vault.key), vault.key)
              = IF Open(vault, item) THEN OwnerKey(vault, item) ELSE Failed
<1> DEFINE item == vault.items[n]
           cipher == SealedItem(vault, item)
           org_keys == OrgKeys(SyncResponse(vault), vault.key)
           o == OrgOf(vault, item.organization)
<1>1. cipher.organization = item.organization
  BY DEF SealedItem
<1>2. IsKey(vault.key) /\ \A p \in DOMAIN vault.orgs : IsKey(vault.orgs[p].key)
  BY VaultAssumption
<1>3. CASE item.organization = NoOrg
  <2>1. OwnerKey(vault, item) = vault.key /\ Open(vault, item)
    BY <1>3 DEF OwnerKey, Open
  <2> HIDE DEF cipher, org_keys
  <2>2. KeyFor(cipher, org_keys, vault.key) = vault.key
    BY <1>1, <1>3 DEF KeyFor
  <2> QED
    BY <1>2, <2>1, <2>2 DEF cipher, org_keys
<1>4. CASE item.organization # NoOrg
  <2>1. o \in DOMAIN vault.orgs /\ vault.orgs[o].id = item.organization
    BY <1>4, OrgOfItem
  <2>2. /\ item.organization \in DOMAIN org_keys <=> vault.orgs[o].shared
        /\ vault.orgs[o].shared => org_keys[item.organization] = vault.orgs[o].key
    BY <2>1, OwnOrgKeys
  <2>3. OwnerKey(vault, item) = vault.orgs[o].key
    BY <1>4 DEF OwnerKey
  <2>4. Open(vault, item) <=> vault.orgs[o].shared
    BY <1>4 DEF Open
  <2> HIDE DEF cipher, org_keys, o
  <2>5. KeyFor(cipher, org_keys, vault.key)
          = IF vault.orgs[o].shared THEN vault.orgs[o].key ELSE Failed
    BY <1>1, <1>4, <2>2 DEF KeyFor
  <2> QED
    BY <1>2, <2>1, <2>3, <2>4, <2>5 DEF cipher, org_keys
<1> QED
  BY <1>3, <1>4

\* An item as it is decrypted with the key of its owner.
LEMMA CipherReads ==
  ASSUME Made, NEW vault \in Vaults, NEW n \in DOMAIN vault.items
  PROVE  LET item == vault.items[n]
             key == OwnerKey(vault, item)
             name == Legible(item.name, "name" \in item.damaged)
             read == decrypt_cipher(SealedItem(vault, item), key)
         IN  /\ read = Failed <=> name = Failed
             /\ name # Failed =>
                  /\ read.name = item.name /\ read.organization = item.organization
                  /\ read.password = Shown(item.password, "password" \in item.damaged)
                  /\ read.notes = Shown(item.notes, "notes" \in item.damaged)
                  /\ read.fields = FieldMap(SealedItem(vault, item).fields, key)
<1> DEFINE item == vault.items[n]
           key == OwnerKey(vault, item)
           cipher == SealedItem(vault, item)
           name == Legible(item.name, "name" \in item.damaged)
<1>1. IsKey(key)
  BY ItemKey
<1>2. item.name \in Seq(Nat) /\ item.password \in Seq(Nat) /\ item.notes \in Seq(Nat)
  BY VaultAssumption
<1>3. /\ cipher.organization = item.organization
      /\ cipher.name = Sealed(item.name, key, "name" \in item.damaged)
      /\ cipher.password = Sealed(item.password, key, "password" \in item.damaged)
      /\ cipher.notes = Sealed(item.notes, key, "notes" \in item.damaged)
  BY DEF SealedItem
<1> HIDE DEF item, key, cipher
<1>5. /\ Readable(cipher.name, key) = name
      /\ Readable(cipher.password, key) = Legible(item.password, "password" \in item.damaged)
      /\ Readable(cipher.notes, key) = Legible(item.notes, "notes" \in item.damaged)
  BY <1>1, <1>2, <1>3, ReadsOwn
<1>6. name # Failed => name = item.name
  BY <1>2, LegibleText
<1> HIDE DEF name
<1> DEFINE password == OrEmpty(Readable(cipher.password, key))
           notes == OrEmpty(Readable(cipher.notes, key))
           fields == FieldMap(cipher.fields, key)
           read == [id |-> cipher.id, organization |-> cipher.organization, name |-> name,
                    password |-> password, notes |-> notes, fields |-> fields]
<1>7. decrypt_cipher(cipher, key) = IF name = Failed THEN Failed ELSE read
  BY <1>5 DEF decrypt_cipher
<1>8. /\ password = Shown(item.password, "password" \in item.damaged)
      /\ notes = Shown(item.notes, "notes" \in item.damaged)
  BY <1>5 DEF Shown
<1> HIDE DEF password, notes, fields
<1>9. read # Failed
  BY DEF Made
<1>10. /\ read.name = name /\ read.organization = item.organization
       /\ read.password = password /\ read.notes = notes /\ read.fields = fields
  BY <1>3
<1> HIDE DEF read
<1> QED
  BY <1>6, <1>7, <1>8, <1>9, <1>10 DEF item, key, cipher, name, fields

Seen(vault, n) ==
  /\ n \in DOMAIN vault.items /\ Open(vault, vault.items[n])
  /\ Legible(vault.items[n].name, "name" \in vault.items[n].damaged) # Failed

\* The cache of the user's key has the items that can be read.
LEMMA ItemsSeen ==
  ASSUME Made, NEW vault \in Vaults
  PROVE  LET items == Items(SyncResponse(vault), vault.key) IN
         /\ \A n : n \in DOMAIN items <=> Seen(vault, n)
         /\ \A n \in DOMAIN items :
              items[n] = decrypt_cipher(SealedItem(vault, vault.items[n]), OwnerKey(vault, vault.items[n]))
<1> DEFINE sync == SyncResponse(vault)
           org_keys == OrgKeys(sync, vault.key)
           key(n) == KeyFor(sync.ciphers[n], org_keys, vault.key)
           item(n) == IF key(n) = Failed THEN Failed ELSE decrypt_cipher(sync.ciphers[n], key(n))
           items == Items(sync, vault.key)
           read(n) == decrypt_cipher(SealedItem(vault, vault.items[n]), OwnerKey(vault, vault.items[n]))
<1>1. items = [n \in {n \in DOMAIN sync.ciphers : item(n) # Failed} |-> item(n)]
  BY DEF Items
<1>2. /\ DOMAIN sync.ciphers = DOMAIN vault.items
      /\ \A n \in DOMAIN vault.items : sync.ciphers[n] = SealedItem(vault, vault.items[n])
  BY DEF SyncResponse
<1> HIDE DEF sync, org_keys
<1>3. ASSUME NEW n \in DOMAIN vault.items
      PROVE  item(n) = IF Open(vault, vault.items[n]) THEN read(n) ELSE Failed
  <2>1. key(n) = IF Open(vault, vault.items[n]) THEN OwnerKey(vault, vault.items[n]) ELSE Failed
    BY <1>2, ItemKey DEF org_keys, sync
  <2>2. OwnerKey(vault, vault.items[n]) # Failed
    BY ItemKey DEF Made
  <2> HIDE DEF key
  <2> QED
    BY <1>2, <2>1, <2>2
<1> HIDE DEF item, items
<1>4. \A n \in DOMAIN vault.items :
        read(n) = Failed <=> Legible(vault.items[n].name, "name" \in vault.items[n].damaged) = Failed
  BY CipherReads
<1> HIDE DEF read
<1>5. \A n : n \in DOMAIN items <=> Seen(vault, n)
  BY <1>1, <1>2, <1>3, <1>4 DEF Seen
<1>6. \A n \in DOMAIN items : items[n] = read(n)
  BY <1>1, <1>2, <1>3, <1>5 DEF Seen
<1> QED
  BY <1>5, <1>6 DEF items, read, sync

-----------------------------------------------------------------------------
(***************************************************************************)
(* The best part of an item                                                *)
(***************************************************************************)

LEMMA ReadsName ==
  ASSUME Made, NEW text \in Seq(Nat), NEW key, IsKey(key)
  PROVE  OrEmpty(Readable(Sealed(text, key, FALSE), key)) = IF Text(text) = Failed THEN <<>> ELSE text
<1>1. Readable(Sealed(text, key, 0 \in {}), key) = Legible(text, 0 \in {})
  BY ReadsOwn
<1>2. Sealed(text, key, 0 \in {}) = Sealed(text, key, FALSE)
  BY DEF Sealed
<1>3. Legible(text, 0 \in {}) = Text(text)
  BY FailedAssumption DEF Legible, Text
<1>4. Text(text) \in {Failed, text}
  BY DEF Text
<1> QED
  BY <1>1, <1>2, <1>3, <1>4 DEF OrEmpty

\* The fields that a HashMap keeps: the last of each name that can be read.
LastFields(item) == {f \in DOMAIN item.fields :
  /\ item.fields[f].name # <<>> /\ Text(item.fields[f].name) # Failed
  /\ \A g \in DOMAIN item.fields : item.fields[g].name = item.fields[f].name => g <= f}

LEMMA FieldMapReads ==
  ASSUME Made, NEW vault \in Vaults, NEW n \in DOMAIN vault.items
  PROVE  LET item == vault.items[n]
             map == FieldMap(SealedItem(vault, item).fields, OwnerKey(vault, item))
         IN  /\ \A f \in LastFields(item) :
                  /\ item.fields[f].name \in DOMAIN map
                  /\ map[item.fields[f].name] = Shown(item.fields[f].value, "fields" \in item.damaged)
             /\ \A name \in DOMAIN map : \E f \in LastFields(item) : item.fields[f].name = name
<1> DEFINE item == vault.items[n]
           key == OwnerKey(vault, item)
           fields == SealedItem(vault, item).fields
           map == FieldMap(fields, key)
           raw(f) == item.fields[f].name
           name(f) == OrEmpty(Readable(fields[f].name, key))
           value(f) == OrEmpty(Readable(fields[f].value, key))
           named == {f \in DOMAIN fields : name(f) # <<>>}
           same(x) == {f \in named : name(f) = x}
<1>1. map = [x \in {name(f) : f \in named} |-> value(Greatest(same(x)))]
  BY DEF FieldMap
<1>2. PICK m \in Nat : DOMAIN item.fields = 1..m
  <2>1. IsList(item.fields)
    BY VaultAssumption
  <2> QED
    BY <2>1, ListDomain
<1>3. \A f \in DOMAIN item.fields : raw(f) \in Seq(Nat) /\ item.fields[f].value \in Seq(Nat)
  BY VaultAssumption
<1>4. IsKey(key)
  BY ItemKey
<1>5. /\ DOMAIN fields = DOMAIN item.fields
      /\ \A f \in DOMAIN item.fields :
           /\ fields[f].name = Sealed(raw(f), key, FALSE)
           /\ fields[f].value = Sealed(item.fields[f].value, key, "fields" \in item.damaged)
  BY DEF SealedItem
<1>6. \A f \in DOMAIN item.fields : name(f) = IF Text(raw(f)) = Failed THEN <<>> ELSE raw(f)
  BY <1>3, <1>4, <1>5, ReadsName
<1> HIDE DEF item, key, fields
<1>7. ASSUME NEW f \in DOMAIN item.fields
      PROVE  value(f) = Shown(item.fields[f].value, "fields" \in item.damaged)
  <2> DEFINE sealed == Sealed(item.fields[f].value, key, "fields" \in item.damaged)
             text == item.fields[f].value
  <2>1. text \in Seq(Nat)
    BY <1>3
  <2>2. fields[f].value = sealed
    BY <1>5
  <2> HIDE DEF text
  <2>3. Readable(Sealed(text, key, "fields" \in item.damaged), key)
          = Legible(text, "fields" \in item.damaged)
    BY <1>4, <2>1, ReadsOwn
  <2> HIDE DEF sealed
  <2>4. Readable(sealed, key) = Legible(text, "fields" \in item.damaged)
    BY <2>3 DEF sealed, text
  <2>5. value(f) = OrEmpty(Legible(text, "fields" \in item.damaged))
    BY <2>2, <2>4
  <2> QED
    BY <2>5 DEF Shown, text
<1>8. \A f : f \in named <=> f \in DOMAIN item.fields /\ raw(f) # <<>> /\ Text(raw(f)) # Failed
  BY <1>5, <1>6
<1> HIDE DEF map, name, value, named
<1>9. ASSUME NEW x \in DOMAIN map
      PROVE  LET f == Greatest(same(x)) IN
             f \in LastFields(item) /\ raw(f) = x /\ map[x] = value(f)
  <2> DEFINE f == Greatest(same(x))
  <2>1. same(x) \subseteq 1..m /\ same(x) # {}
    BY <1>1, <1>2, <1>8, <1>9
  <2>2. f \in same(x) /\ \A g \in same(x) : f >= g
    BY <2>1, GreatestIsGreatest
  <2>3. map[x] = value(f)
    BY <1>1, <1>9
  <2> HIDE DEF f
  <2>4. f \in named /\ name(f) = x /\ raw(f) = x /\ f \in DOMAIN item.fields
    BY <1>6, <1>8, <2>2
  <2>5. ASSUME NEW g \in DOMAIN item.fields, raw(g) = raw(f) PROVE g <= f
    <3>1. g \in same(x)
      BY <1>6, <1>8, <2>4, <2>5
    <3>2. f \in 1..m /\ g \in 1..m
      BY <1>2, <2>4
    <3> QED
      BY <2>2, <3>1, <3>2
  <2>6. f \in LastFields(item)
    BY <1>8, <2>4, <2>5 DEF LastFields
  <2> QED
    BY <2>3, <2>4, <2>6 DEF f
<1>10. ASSUME NEW f \in LastFields(item)
       PROVE  raw(f) \in DOMAIN map /\ map[raw(f)] = value(f) /\ f \in DOMAIN item.fields
  <2>1. f \in named /\ name(f) = raw(f) /\ f \in DOMAIN item.fields
    BY <1>6, <1>8 DEF LastFields
  <2>2. raw(f) \in DOMAIN map
    BY <1>1, <2>1
  <2> DEFINE g == Greatest(same(raw(f)))
  <2>3. g \in LastFields(item) /\ raw(g) = raw(f) /\ map[raw(f)] = value(g)
    BY <1>9, <2>2
  <2> HIDE DEF g
  <2>4. f <= g /\ g <= f /\ f \in 1..m /\ g \in 1..m
    BY <1>2, <2>3 DEF LastFields
  <2>5. f = g
    BY <2>4
  <2> QED
    BY <2>1, <2>2, <2>3, <2>5
<1>11. \A f \in LastFields(item) : map[raw(f)] = Shown(item.fields[f].value, "fields" \in item.damaged)
  BY <1>7, <1>10
<1>12. \A x \in DOMAIN map : \E f \in LastFields(item) : raw(f) = x
  BY <1>9
<1> QED
  BY <1>10, <1>11, <1>12 DEF item, key, fields, map

\* What the cache has in the fields of an item.
LEMMA FieldsOf ==
  ASSUME Made, NEW vault \in Vaults, NEW n \in DOMAIN vault.items,
         NEW read, read.fields = FieldMap(SealedItem(vault, vault.items[n]).fields,
                                          OwnerKey(vault, vault.items[n]))
  PROVE  LET item == vault.items[n] IN
         /\ \A name : FieldValue(read, name) # <<>> =>
              \E f \in ClearFields(item) :
                /\ item.fields[f].name = name /\ item.fields[f].value = FieldValue(read, name)
                /\ Text(FieldValue(read, name)) # Failed
         /\ \A f \in ClearFields(item) :
              item.fields[f].value # <<>> /\ Text(item.fields[f].value) # Failed =>
                FieldValue(read, item.fields[f].name) = item.fields[f].value
<1> DEFINE item == vault.items[n]
           map == FieldMap(SealedItem(vault, item).fields, OwnerKey(vault, item))
           text(f) == item.fields[f].value
           damaged == "fields" \in item.damaged
<1>1. /\ \A f \in LastFields(item) :
           item.fields[f].name \in DOMAIN map /\ map[item.fields[f].name] = Shown(text(f), damaged)
      /\ \A name \in DOMAIN map : \E f \in LastFields(item) : item.fields[f].name = name
  BY FieldMapReads
<1>2. read.fields = map
  OBVIOUS
<1>3. ClearFields(item) = IF damaged THEN {} ELSE LastFields(item)
  BY DEF ClearFields, LastFields
<1>4. ASSUME NEW f \in LastFields(item)
      PROVE  /\ Shown(text(f), damaged) # <<>> =>
                  ~damaged /\ Shown(text(f), damaged) = text(f) /\ Text(text(f)) # Failed
             /\ text(f) # <<>> /\ ~damaged /\ Text(text(f)) # Failed => Shown(text(f), damaged) = text(f)
  <2> DEFINE t == text(f)
  <2>1. t \in Seq(Nat)
    BY <1>4, VaultAssumption DEF LastFields
  <2> HIDE DEF t
  <2>2. /\ Shown(t, "fields" \in item.damaged) \in {<<>>, t}
        /\ Shown(t, "fields" \in item.damaged) # <<>> => "fields" \notin item.damaged /\ Text(t) # Failed
        /\ t # <<>> /\ "fields" \notin item.damaged /\ Text(t) # Failed
             => Shown(t, "fields" \in item.damaged) = t
    BY <2>1, LegibleText
  <2> QED
    BY <2>2 DEF t
<1> HIDE DEF item, map, damaged
<1>5. ASSUME NEW name, FieldValue(read, name) # <<>>
      PROVE  \E f \in ClearFields(item) :
               /\ item.fields[f].name = name /\ text(f) = FieldValue(read, name)
               /\ Text(FieldValue(read, name)) # Failed
  <2>1. name \in DOMAIN map /\ FieldValue(read, name) = map[name]
    BY <1>2, <1>5 DEF FieldValue
  <2>2. PICK f \in LastFields(item) : item.fields[f].name = name
    BY <1>1, <2>1
  <2>3. map[name] = Shown(text(f), damaged)
    BY <1>1, <2>2
  <2> QED
    BY <1>3, <1>4, <1>5, <2>1, <2>2, <2>3
<1>6. ASSUME NEW f \in ClearFields(item), text(f) # <<>>, Text(text(f)) # Failed
      PROVE  FieldValue(read, item.fields[f].name) = text(f)
  <2>1. f \in LastFields(item) /\ ~damaged
    BY <1>3
  <2>2. map[item.fields[f].name] = text(f) /\ item.fields[f].name \in DOMAIN map
    BY <1>1, <1>4, <1>6, <2>1
  <2> QED
    BY <1>2, <2>2 DEF FieldValue
<1> QED
  BY <1>5, <1>6 DEF item

LEMMA RankIs ==
  ASSUME NEW m \in Nat, DOMAIN SecretFields = 1..m, NEW name
  PROVE  \/ Rank(name) = 100 /\ \A r \in 1..m : SecretFields[r] # name
         \/ /\ Rank(name) \in 1..m /\ SecretFields[Rank(name)] = name
            /\ \A r \in 1..m : SecretFields[r] = name => Rank(name) <= r
<1> DEFINE named == {r \in DOMAIN SecretFields : SecretFields[r] = name}
<1>1. Rank(name) = IF named = {} THEN 100 ELSE Least(named)
  BY DEF Rank
<1>2. named \subseteq Nat
  OBVIOUS
<1>3. named # {} => Least(named) \in named /\ \A r \in named : Least(named) <= r
  BY <1>2, LeastIsLeast
<1> QED
  BY <1>1, <1>3

LEMMA RankedParts ==
  ASSUME NEW item
  PROVE  /\ \A p \in Ranked(item) :
              \/ /\ p = <<0, item.password>> /\ "password" \notin item.damaged
                 /\ item.password # <<>> /\ Text(item.password) # Failed
              \/ /\ p = <<50, item.notes>> /\ "notes" \notin item.damaged
                 /\ item.notes # <<>> /\ Text(item.notes) # Failed
              \/ \E f \in ClearFields(item) :
                   /\ p = <<Rank(item.fields[f].name), item.fields[f].value>>
                   /\ item.fields[f].value # <<>> /\ Text(item.fields[f].value) # Failed
         /\ "password" \notin item.damaged /\ item.password # <<>> /\ Text(item.password) # Failed
              => <<0, item.password>> \in Ranked(item)
         /\ "notes" \notin item.damaged /\ item.notes # <<>> /\ Text(item.notes) # Failed
              => <<50, item.notes>> \in Ranked(item)
         /\ \A f \in ClearFields(item) :
              item.fields[f].value # <<>> /\ Text(item.fields[f].value) # Failed
                => <<Rank(item.fields[f].name), item.fields[f].value>> \in Ranked(item)
BY DEF Ranked

LEMMA BestOf ==
  ASSUME NEW item, NEW p \in Ranked(item), \A q \in Ranked(item) : p[1] <= q[1]
  PROVE  p[2] \in Best(item)
BY DEF Best

\* The value of an item in the cache is one of its best parts.
LEMMA BestTaken ==
  ASSUME Made, NEW vault \in Vaults, NEW n \in DOMAIN vault.items, NEW order \in Orders,
         Legible(vault.items[n].name, "name" \in vault.items[n].damaged) # Failed
  PROVE  LET item == vault.items[n]
             read == decrypt_cipher(SealedItem(vault, item), OwnerKey(vault, item))
         IN  extract_secret(read, order) \in Best(item)
<1> DEFINE item == vault.items[n]
           read == decrypt_cipher(SealedItem(vault, item), OwnerKey(vault, item))
           value == extract_secret(read, order)
           part(f) == item.fields[f].value
           name(f) == item.fields[f].name
<1>1. /\ read.password = Shown(item.password, "password" \in item.damaged)
      /\ read.notes = Shown(item.notes, "notes" \in item.damaged)
      /\ read.fields = FieldMap(SealedItem(vault, item).fields, OwnerKey(vault, item))
  BY CipherReads
<1>2. item.password \in Seq(Nat) /\ item.notes \in Seq(Nat)
  BY VaultAssumption
<1>3. PICK m \in Nat : DOMAIN SecretFields = 1..m /\ m < 50
  BY SecretFieldsAssumption DEF IsList
<1>4. PICK k \in Nat : DOMAIN order = 1..k
  BY OrderAssumption DEF IsList
<1>5. \A f \in DOMAIN item.fields : name(f) # <<>> => \E i \in 1..k : order[i] = name(f)
  BY <1>4, OrderAssumption
<1>6. /\ \A x : FieldValue(read, x) # <<>> =>
           \E f \in ClearFields(item) :
             /\ name(f) = x /\ part(f) = FieldValue(read, x) /\ Text(FieldValue(read, x)) # Failed
      /\ \A f \in ClearFields(item) :
           part(f) # <<>> /\ Text(part(f)) # Failed => FieldValue(read, name(f)) = part(f)
  <2> HIDE DEF read
  <2> QED
    BY <1>1, FieldsOf
<1>7. \A f \in ClearFields(item) : f \in DOMAIN item.fields /\ name(f) # <<>>
  BY DEF ClearFields
<1> HIDE DEF item, read
<1>8. /\ read.password # <<>> =>
           <<0, read.password>> \in Ranked(item)
      /\ item.password # <<>> /\ "password" \notin item.damaged /\ Text(item.password) # Failed
           => read.password # <<>>
  <2> DEFINE text == item.password
             shown == Shown(text, "password" \in item.damaged)
  <2>1. /\ shown \in {<<>>, text}
        /\ shown # <<>> => "password" \notin item.damaged /\ Text(text) # Failed
        /\ text # <<>> /\ "password" \notin item.damaged /\ Text(text) # Failed => shown = text
    <3> HIDE DEF text
    <3>1. text \in Seq(Nat)
      BY <1>2 DEF text
    <3> QED
      BY <3>1, LegibleText
  <2>2. read.password = shown
    BY <1>1
  <2>3. "password" \notin item.damaged /\ text # <<>> /\ Text(text) # Failed => <<0, text>> \in Ranked(item)
    BY RankedParts
  <2> HIDE DEF shown
  <2> QED
    BY <2>1, <2>2, <2>3
<1>9. /\ read.notes # <<>> =>
           <<50, read.notes>> \in Ranked(item)
      /\ item.notes # <<>> /\ "notes" \notin item.damaged /\ Text(item.notes) # Failed
           => read.notes # <<>>
  <2> DEFINE text == item.notes
             shown == Shown(text, "notes" \in item.damaged)
  <2>1. /\ shown \in {<<>>, text}
        /\ shown # <<>> => "notes" \notin item.damaged /\ Text(text) # Failed
        /\ text # <<>> /\ "notes" \notin item.damaged /\ Text(text) # Failed => shown = text
    <3> HIDE DEF text
    <3>1. text \in Seq(Nat)
      BY <1>2 DEF text
    <3> QED
      BY <3>1, LegibleText
  <2>2. read.notes = shown
    BY <1>1
  <2>3. "notes" \notin item.damaged /\ text # <<>> /\ Text(text) # Failed => <<50, text>> \in Ranked(item)
    BY RankedParts
  <2> HIDE DEF shown
  <2> QED
    BY <2>1, <2>2, <2>3
<1>10. \A p \in Ranked(item) :
         \/ p[1] = 0 /\ read.password # <<>>
         \/ p[1] = 50 /\ read.notes # <<>>
         \/ \E f \in ClearFields(item) :
              /\ p[1] = Rank(name(f))
              /\ FieldValue(read, name(f)) = part(f) /\ part(f) # <<>>
  <2> TAKE p \in Ranked(item)
  <2>1. CASE /\ p = <<0, item.password>> /\ "password" \notin item.damaged
             /\ item.password # <<>> /\ Text(item.password) # Failed
    BY <1>8, <2>1
  <2>2. CASE /\ p = <<50, item.notes>> /\ "notes" \notin item.damaged
             /\ item.notes # <<>> /\ Text(item.notes) # Failed
    BY <1>9, <2>2
  <2>3. ASSUME NEW f \in ClearFields(item), p = <<Rank(name(f)), part(f)>>,
               part(f) # <<>>, Text(part(f)) # Failed
        PROVE  p[1] = Rank(name(f)) /\ FieldValue(read, name(f)) = part(f) /\ part(f) # <<>>
    BY <1>6, <2>3
  <2> QED
    BY <2>1, <2>2, <2>3, RankedParts
<1>11. \A x : FieldValue(read, x) # <<>> => <<Rank(x), FieldValue(read, x)>> \in Ranked(item)
  BY <1>6, RankedParts
<1>12. \/ value # <<>> /\ value = read.password
       \/ /\ value # <<>> /\ read.password = <<>>
          /\ \E r \in 1..m : /\ value = FieldValue(read, SecretFields[r])
                             /\ \A q \in 1..m : q < r => FieldValue(read, SecretFields[q]) = <<>>
       \/ /\ read.password = <<>> /\ \A r \in 1..m : FieldValue(read, SecretFields[r]) = <<>>
          /\ \/ value # <<>> /\ value = read.notes
             \/ /\ value # <<>> /\ read.notes = <<>>
                /\ \E i \in 1..k : value = FieldValue(read, order[i])
             \/ /\ value = <<>> /\ read.notes = <<>>
                /\ \A i \in 1..k : FieldValue(read, order[i]) = <<>>
  BY <1>3, <1>4, FirstPartTaken
<1> HIDE DEF value
\* No field of a rank below r has a value.
<1>13. ASSUME NEW r \in Nat, r <= m + 1,
              \A q \in 1..m : q < r => FieldValue(read, SecretFields[q]) = <<>>,
              read.password = <<>>, NEW p \in Ranked(item)
       PROVE  \/ p[1] = 50 /\ read.notes # <<>>
              \/ p[1] \in 1..m /\ r <= p[1]
              \/ p[1] = 100 /\ \E i \in 1..k : FieldValue(read, order[i]) # <<>>
  <2>1. CASE p[1] = 50 /\ read.notes # <<>>
    BY <2>1
  <2>2. ASSUME NEW f \in ClearFields(item), p[1] = Rank(name(f)),
               FieldValue(read, name(f)) # <<>>
        PROVE  \/ p[1] \in 1..m /\ r <= p[1]
               \/ p[1] = 100 /\ \E i \in 1..k : FieldValue(read, order[i]) # <<>>
    <3>1. CASE Rank(name(f)) = 100
      BY <1>5, <1>7, <2>2, <3>1
    <3>2. CASE Rank(name(f)) \in 1..m /\ SecretFields[Rank(name(f))] = name(f)
      BY <1>13, <2>2, <3>2
    <3> QED
      BY <1>3, <3>1, <3>2, RankIs
  <2> QED
    BY <1>10, <1>13, <2>1, <2>2
<1>14. \A p \in Ranked(item) : p[1] \in {0, 50, 100} \cup 1..m
  BY <1>3, <1>10, RankIs
<1>15. ASSUME value # <<>>, value = read.password
       PROVE  value \in Best(item)
  <2>1. <<0, value>> \in Ranked(item)
    BY <1>8, <1>15
  <2>2. \A q \in Ranked(item) : <<0, value>>[1] <= q[1]
    BY <1>14
  <2>3. <<0, value>>[2] \in Best(item)
    BY <2>1, <2>2, BestOf
  <2> QED
    BY <2>3
<1>16. ASSUME NEW r \in 1..m, value # <<>>, read.password = <<>>,
              value = FieldValue(read, SecretFields[r]),
              \A q \in 1..m : q < r => FieldValue(read, SecretFields[q]) = <<>>
       PROVE  value \in Best(item)
  <2> DEFINE rank == Rank(SecretFields[r])
  <2>1. <<rank, value>> \in Ranked(item)
    BY <1>11, <1>16
  <2>2. rank \in 1..m /\ SecretFields[rank] = SecretFields[r] /\ rank <= r
    BY <1>3, RankIs
  <2> HIDE DEF rank
  <2>3. ~(rank < r)
    BY <1>16, <2>2
  <2>4. rank = r
    BY <2>2, <2>3
  <2>5. \A q \in Ranked(item) : <<r, value>>[1] <= q[1]
    <3> TAKE q \in Ranked(item)
    <3>1. r \in Nat /\ r <= m + 1
      OBVIOUS
    <3>2. q[1] = 50 \/ (q[1] \in 1..m /\ r <= q[1]) \/ q[1] = 100
      BY <1>13, <1>16, <3>1
    <3> QED
      BY <1>3, <3>2
  <2>6. <<r, value>>[2] \in Best(item)
    BY <2>1, <2>4, <2>5, BestOf
  <2> QED
    BY <2>6
<1>17. ASSUME read.password = <<>>, \A r \in 1..m : FieldValue(read, SecretFields[r]) = <<>>,
              NEW p \in Ranked(item)
       PROVE  \/ p[1] = 50 /\ read.notes # <<>>
              \/ p[1] = 100 /\ \E i \in 1..k : FieldValue(read, order[i]) # <<>>
  <2>1. m + 1 \in Nat /\ m + 1 <= m + 1
    OBVIOUS
  <2> QED
    BY <1>13, <1>17, <2>1
<1>18. ASSUME read.password = <<>>, \A r \in 1..m : FieldValue(read, SecretFields[r]) = <<>>,
              value # <<>>, value = read.notes
       PROVE  value \in Best(item)
  <2>1. <<50, value>> \in Ranked(item)
    BY <1>9, <1>18
  <2>2. \A q \in Ranked(item) : <<50, value>>[1] <= q[1]
    BY <1>17, <1>18
  <2>3. <<50, value>>[2] \in Best(item)
    BY <2>1, <2>2, BestOf
  <2> QED
    BY <2>3
<1>19. ASSUME read.password = <<>>, \A r \in 1..m : FieldValue(read, SecretFields[r]) = <<>>,
              value # <<>>, read.notes = <<>>, NEW i \in 1..k, value = FieldValue(read, order[i])
       PROVE  value \in Best(item)
  <2>1. <<Rank(order[i]), value>> \in Ranked(item)
    BY <1>11, <1>19
  <2>2. \A q \in Ranked(item) : q[1] = 100
    BY <1>17, <1>19
  <2>3. \A q \in Ranked(item) : <<Rank(order[i]), value>>[1] <= q[1]
    BY <2>1, <2>2
  <2>4. <<Rank(order[i]), value>>[2] \in Best(item)
    BY <2>1, <2>3, BestOf
  <2> QED
    BY <2>4
<1>20. ASSUME read.password = <<>>, \A r \in 1..m : FieldValue(read, SecretFields[r]) = <<>>,
              value = <<>>, read.notes = <<>>, \A i \in 1..k : FieldValue(read, order[i]) = <<>>
       PROVE  value \in Best(item)
  <2>1. Ranked(item) = {}
    BY <1>17, <1>20
  <2> QED
    BY <1>20, <2>1 DEF Best
<1>21. value \in Best(item)
  BY <1>12, <1>15, <1>16, <1>18, <1>19, <1>20
<1> QED
  BY <1>21 DEF value, read, item

-----------------------------------------------------------------------------
(***************************************************************************)
(* Lookups                                                                 *)
(***************************************************************************)

\* A name is looked up among all organizations of the response.
LEMMA OrgsByName ==
  ASSUME NEW vault \in Vaults, NEW key, NEW x
  PROVE  LET index == index_orgs(SyncResponse(vault), key)
             named == {o \in DOMAIN vault.orgs : Lower(vault.orgs[o].name) = x}
         IN  /\ x \in DOMAIN index <=> named # {}
             /\ x \in DOMAIN index => index[x] = {vault.orgs[o].id : o \in named}
<1> DEFINE sync == SyncResponse(vault)
           index == index_orgs(sync, key)
           name(o) == Lower(sync.organizations[o].name)
           all == DOMAIN sync.organizations
           named == {o \in DOMAIN vault.orgs : Lower(vault.orgs[o].name) = x}
<1>1. index = [y \in {name(o) : o \in all} |->
                 {sync.organizations[o].id : o \in {p \in all : name(p) = y}}]
  BY DEF index_orgs
<1>2. all = DOMAIN vault.orgs
  BY ResponseOrgs
<1>3. \A o \in all : sync.organizations[o].id = vault.orgs[o].id /\ name(o) = Lower(vault.orgs[o].name)
  BY ResponseOrgs
<1> HIDE DEF sync, index, all, name
<1>4. {p \in all : name(p) = x} = named
  BY <1>2, <1>3
<1>5. x \in {name(o) : o \in all} <=> named # {}
  BY <1>2, <1>3
<1>6. \A o \in named : sync.organizations[o].id = vault.orgs[o].id
  BY <1>2, <1>3
<1>7. {sync.organizations[o].id : o \in named} = {vault.orgs[o].id : o \in named}
  BY <1>6
<1>8. x \in DOMAIN index => index[x] = {sync.organizations[o].id : o \in {p \in all : name(p) = x}}
  BY <1>1
<1>9. DOMAIN index = {name(o) : o \in all}
  BY <1>1
<1> HIDE DEF named
<1>10. x \in DOMAIN index => index[x] = {vault.orgs[o].id : o \in named}
  BY <1>4, <1>7, <1>8
<1> QED
  BY <1>5, <1>9, <1>10 DEF index, sync, named

\* With a vault, the one organization of its name decides, or there is an error.
LEMMA LookupByOrgs ==
  ASSUME NEW vault \in Vaults, NEW key, NEW cached, NEW name, NEW wanted,
         cached.orgs_by_name = index_orgs(SyncResponse(vault), key), wanted # <<>>
  PROVE  LET named == {o \in DOMAIN vault.orgs : Lower(vault.orgs[o].name) = Lower(wanted)} IN
         \/ named = {} /\ lookup_item(cached, name, wanted) = Missed("VaultNotFound")
         \/ (\E o, p \in named : o # p) /\ lookup_item(cached, name, wanted) = Missed("VaultAmbiguous")
         \/ \E o \in named : /\ \A p \in named : p = o
                             /\ lookup_item(cached, name, wanted)
                                  = find_item(cached.items, name, vault.orgs[o].id, "NotFoundInVault")
<1> DEFINE x == Lower(wanted)
           index == cached.orgs_by_name
           named == {o \in DOMAIN vault.orgs : Lower(vault.orgs[o].name) = x}
<1> HIDE DEF x
<1>1. /\ x \in DOMAIN index <=> named # {}
      /\ x \in DOMAIN index => index[x] = {vault.orgs[o].id : o \in named}
  BY OrgsByName
<1>2. \A o, p \in named : vault.orgs[o].id = vault.orgs[p].id => o = p
  BY VaultAssumption
<1>3. lookup_item(cached, name, wanted) =
        IF x \notin DOMAIN index THEN Missed("VaultNotFound")
        ELSE IF \E o, p \in index[x] : o # p THEN Missed("VaultAmbiguous")
        ELSE find_item(cached.items, name, CHOOSE o \in index[x] : TRUE, "NotFoundInVault")
  BY DEF lookup_item, x
<1> HIDE DEF named, index
<1>4. CASE named = {}
  BY <1>1, <1>3, <1>4 DEF named, x
<1>5. ASSUME NEW o \in named, NEW p \in named, o # p
      PROVE  lookup_item(cached, name, wanted) = Missed("VaultAmbiguous")
  <2>1. x \in DOMAIN index /\ index[x] = {vault.orgs[q].id : q \in named}
    BY <1>1
  <2>2. vault.orgs[o].id # vault.orgs[p].id
    BY <1>2, <1>5
  <2> QED
    BY <1>3, <2>1, <2>2
<1>6. ASSUME NEW o \in named, \A p \in named : p = o
      PROVE  lookup_item(cached, name, wanted)
               = find_item(cached.items, name, vault.orgs[o].id, "NotFoundInVault")
  <2>1. x \in DOMAIN index /\ index[x] = {vault.orgs[o].id}
    BY <1>1, <1>6
  <2>2. (CHOOSE q \in index[x] : TRUE) = vault.orgs[o].id
    BY <2>1
  <2> QED
    BY <1>3, <2>1, <2>2
<1> QED
  BY <1>4, <1>5, <1>6 DEF named, x

-----------------------------------------------------------------------------
(***************************************************************************)
(* The cache of another key                                                *)
(***************************************************************************)

\* Under another key only the items without a name remain.
LEMMA OtherItems ==
  ASSUME Made, NEW vault \in Vaults, NEW other, IsKey(other), other # vault.key
  PROVE  LET items == Items(SyncResponse(vault), other)
         IN  DOMAIN items \subseteq Nat /\ \A n \in DOMAIN items : items[n].name = <<>>
<1> DEFINE sync == SyncResponse(vault)
           org_keys == OrgKeys(sync, other)
           key(n) == KeyFor(sync.ciphers[n], org_keys, other)
           item(n) == IF key(n) = Failed THEN Failed ELSE decrypt_cipher(sync.ciphers[n], key(n))
           items == Items(sync, other)
<1>1. items = [n \in {n \in DOMAIN sync.ciphers : item(n) # Failed} |-> item(n)]
  BY DEF Items
<1>2. /\ DOMAIN sync.ciphers = DOMAIN vault.items
      /\ \A n \in DOMAIN vault.items : sync.ciphers[n] = SealedItem(vault, vault.items[n])
  BY DEF SyncResponse
<1>3. DOMAIN org_keys = {}
  BY OtherOrgKeys
<1>4. DOMAIN vault.items \subseteq Nat
  BY VaultAssumption DEF IsList
<1> HIDE DEF sync, org_keys, items
<1>5. ASSUME NEW n \in DOMAIN vault.items, item(n) # Failed
      PROVE  item(n).name = <<>>
  <2> DEFINE plain == vault.items[n]
             cipher == SealedItem(vault, plain)
             name == Readable(cipher.name, other)
  <2>1. plain.organization = NoOrg /\ key(n) = other
    <3>1. cipher.organization = plain.organization
      BY DEF SealedItem
    <3> HIDE DEF cipher
    <3>2. sync.ciphers[n] = cipher
      BY <1>2 DEF cipher
    <3> QED
      BY <1>3, <1>5, <3>1, <3>2 DEF KeyFor
  <2>2. OwnerKey(vault, plain) = vault.key /\ IsKey(vault.key) /\ plain.name \in Seq(Nat)
    BY <2>1, VaultAssumption DEF OwnerKey
  <2>3. cipher.name = Sealed(plain.name, vault.key, "name" \in plain.damaged)
    BY <2>2 DEF SealedItem
  <2>4. Readable(Sealed(plain.name, vault.key, "name" \in plain.damaged), other)
          = IF plain.name = <<>> THEN <<>> ELSE Failed
    <3> DEFINE text == plain.name
               damaged == plain.damaged
               own == vault.key
    <3>1. text \in Seq(Nat) /\ IsKey(own) /\ IsKey(other) /\ other # own
      BY <2>2
    <3> HIDE DEF text, damaged, own
    <3>2. Readable(Sealed(text, own, "name" \in damaged), other) = IF text = <<>> THEN <<>> ELSE Failed
      BY <3>1, ReadsOther
    <3> QED
      BY <3>2 DEF text, damaged, own
  <2>5. name \in {<<>>, Failed}
    BY <2>3, <2>4
  <2> HIDE DEF cipher, plain
  <2>6. item(n) = decrypt_cipher(cipher, other)
    BY <1>2, <1>5, <2>1 DEF cipher, plain
  <2>7. decrypt_cipher(cipher, other) = Failed \/ decrypt_cipher(cipher, other).name = name
    BY DEF decrypt_cipher
  <2>8. name # Failed
    BY <1>5, <2>6 DEF decrypt_cipher
  <2> QED
    BY <1>5, <2>5, <2>6, <2>7, <2>8
<1> HIDE DEF item
<1> QED
  BY <1>1, <1>2, <1>4, <1>5 DEF items, sync

\* Then every lookup misses, with the error of its scope.
LEMMA OtherKeyMisses ==
  ASSUME Made, NEW vault \in Vaults, NEW other, IsKey(other), other # vault.key,
         NEW order, NEW name \in Seq(Nat), name # <<>>, NEW wanted
  PROVE  LET cached == decrypt_vault(SyncResponse(vault), other, order)
             named == {o \in DOMAIN vault.orgs : Lower(vault.orgs[o].name) = Lower(wanted)}
             error == IF wanted = <<>> THEN "NotFound"
                      ELSE IF named = {} THEN "VaultNotFound"
                      ELSE IF \E o, p \in named : o # p THEN "VaultAmbiguous" ELSE "NotFoundInVault"
         IN  lookup_item(cached, name, wanted) = Missed(error)
<1> DEFINE cached == decrypt_vault(SyncResponse(vault), other, order)
           items == Items(SyncResponse(vault), other)
           named == {o \in DOMAIN vault.orgs : Lower(vault.orgs[o].name) = Lower(wanted)}
<1>1. cached.items = items /\ cached.orgs_by_name = index_orgs(SyncResponse(vault), other)
  BY DEF decrypt_vault
<1>2. DOMAIN items \subseteq Nat /\ \A n \in DOMAIN items : items[n].name = <<>>
  BY OtherItems
<1> HIDE DEF cached, items
<1>3. \A org : Candidates(items, name, org) = {}
  <2> TAKE org
  <2>1. Candidates(items, name, org) \subseteq {n \in DOMAIN items : IsNamed(items[n], name) \/ Mentions(items[n], name)}
    BY DEF Candidates
  <2> QED
    BY <1>2, <2>1, NamedItem
<1>4. \A org, error : find_item(items, name, org, error) = Missed(error)
  BY <1>3 DEF find_item
<1>5. CASE wanted = <<>>
  BY <1>1, <1>4, <1>5 DEF lookup_item, cached
<1>6. CASE wanted # <<>>
  <2>1. \/ named = {} /\ lookup_item(cached, name, wanted) = Missed("VaultNotFound")
        \/ (\E o, p \in named : o # p) /\ lookup_item(cached, name, wanted) = Missed("VaultAmbiguous")
        \/ \E o \in named : /\ \A p \in named : p = o
                            /\ lookup_item(cached, name, wanted)
                                 = find_item(items, name, vault.orgs[o].id, "NotFoundInVault")
    BY <1>1, <1>6, LookupByOrgs
  <2> HIDE DEF named
  <2>2. \/ named = {} /\ lookup_item(cached, name, wanted) = Missed("VaultNotFound")
        \/ (\E o, p \in named : o # p) /\ lookup_item(cached, name, wanted) = Missed("VaultAmbiguous")
        \/ /\ named # {} /\ ~(\E o, p \in named : o # p)
           /\ lookup_item(cached, name, wanted) = Missed("NotFoundInVault")
    BY <1>4, <2>1
  <2>3. lookup_item(cached, name, wanted) =
          Missed(IF named = {} THEN "VaultNotFound"
                 ELSE IF \E o, p \in named : o # p THEN "VaultAmbiguous" ELSE "NotFoundInVault")
    BY <2>2
  <2> QED
    BY <1>6, <2>3 DEF named, cached
<1> QED
  BY <1>5, <1>6

-----------------------------------------------------------------------------
(***************************************************************************)
(* The cache of the vault's own key                                        *)
(***************************************************************************)

\* A lookup looks among the items of the vault that is wanted, of all vaults if none is.
LEMMA ScopeOf ==
  ASSUME Vault \in Vaults, NEW cached, NEW name, NEW wanted,
         cached.orgs_by_name = index_orgs(SyncResponse(Vault), Vault.key),
         lookup_item(cached, name, wanted).error = "none"
  PROVE  /\ wanted # <<>> => \A o, p \in OrgsNamed(wanted) : o = p
         /\ \E org, error : /\ lookup_item(cached, name, wanted) = find_item(cached.items, name, org, error)
                            /\ error # "none"
                            /\ \A item : InScope(item, org) <=> InVault(item, wanted)
<1>1. CASE wanted = <<>>
  <2>1. lookup_item(cached, name, wanted) = find_item(cached.items, name, NoOrg, "NotFound")
    BY <1>1 DEF lookup_item
  <2>2. \A item : InScope(item, NoOrg) /\ InVault(item, wanted)
    BY <1>1 DEF InScope, InVault
  <2> QED
    BY <1>1, <2>1, <2>2
<1>2. CASE wanted # <<>>
  <2> DEFINE vault == Vault
             named == {o \in DOMAIN vault.orgs : Lower(vault.orgs[o].name) = Lower(wanted)}
  <2>1. vault \in Vaults /\ cached.orgs_by_name = index_orgs(SyncResponse(vault), vault.key)
    OBVIOUS
  <2>2. named = OrgsNamed(wanted)
    BY DEF OrgsNamed
  <2>3. \A o \in named : o \in DOMAIN vault.orgs
    OBVIOUS
  <2> HIDE DEF vault
  <2>4. \/ named = {} /\ lookup_item(cached, name, wanted) = Missed("VaultNotFound")
        \/ (\E o, p \in named : o # p) /\ lookup_item(cached, name, wanted) = Missed("VaultAmbiguous")
        \/ \E o \in named : /\ \A p \in named : p = o
                            /\ lookup_item(cached, name, wanted)
                                 = find_item(cached.items, name, vault.orgs[o].id, "NotFoundInVault")
    BY <1>2, <2>1, LookupByOrgs
  <2> HIDE DEF named
  <2>5. PICK o \in named : /\ \A p \in named : p = o
                           /\ lookup_item(cached, name, wanted)
                                = find_item(cached.items, name, vault.orgs[o].id, "NotFoundInVault")
    BY <2>4 DEF Missed
  <2>6. vault.orgs[o].id # NoOrg
    BY <2>1, <2>3, VaultAssumption
  <2>7. \A item : InScope(item, vault.orgs[o].id) <=> InVault(item, wanted)
    BY <1>2, <2>2, <2>5, <2>6 DEF InScope, InVault, vault
  <2>8. \A p, q \in OrgsNamed(wanted) : p = q
    BY <2>2, <2>5
  <2> QED
    BY <2>5, <2>7, <2>8
<1> QED
  BY <1>1, <1>2

\* An item that can be read, and its copy in the cache.
Copy(n) == decrypt_cipher(SealedItem(Vault, Vault.items[n]), OwnerKey(Vault, Vault.items[n]))

LEMMA ReadableItems ==
  ASSUME Made, Vault \in Vaults
  PROVE  LET items == Items(SyncResponse(Vault), Vault.key) IN
         /\ DOMAIN items \subseteq Nat
         /\ \A n : n \in DOMAIN items <=>
              /\ n \in DOMAIN Vault.items /\ Shared(Vault.items[n])
              /\ Legible(Vault.items[n].name, "name" \in Vault.items[n].damaged) # Failed
         /\ \A n \in DOMAIN items :
              /\ items[n] = Copy(n) /\ items[n].name = Vault.items[n].name
              /\ items[n].organization = Vault.items[n].organization
              /\ items[n].name # <<>> => "name" \notin Vault.items[n].damaged /\ Text(Vault.items[n].name) # Failed
         /\ \A n \in DOMAIN Vault.items :
              /\ Shared(Vault.items[n]) /\ "name" \notin Vault.items[n].damaged
              /\ Text(Vault.items[n].name) # Failed
              => n \in DOMAIN items
<1> DEFINE vault == Vault
           items == Items(SyncResponse(vault), vault.key)
<1>1. vault \in Vaults
  OBVIOUS
<1>2. \A n : Shared(vault.items[n]) <=> Open(vault, vault.items[n])
  BY DEF Shared, Open
<1>3. \A n : Copy(n) = decrypt_cipher(SealedItem(vault, vault.items[n]), OwnerKey(vault, vault.items[n]))
  BY DEF Copy
<1> HIDE DEF vault
<1>4. /\ \A n : n \in DOMAIN items <=> Seen(vault, n)
      /\ \A n \in DOMAIN items :
           items[n] = decrypt_cipher(SealedItem(vault, vault.items[n]), OwnerKey(vault, vault.items[n]))
  BY <1>1, ItemsSeen
<1> HIDE DEF items
<1>5. DOMAIN vault.items \subseteq Nat /\ \A n \in DOMAIN vault.items : vault.items[n].name \in Seq(Nat)
  <2>1. IsList(vault.items)
    BY <1>1, VaultAssumption
  <2> QED
    BY <1>1, <2>1, ListDomain, VaultAssumption
<1>6. ASSUME NEW n \in DOMAIN items
      PROVE  /\ items[n] = Copy(n) /\ items[n].name = vault.items[n].name
             /\ items[n].organization = vault.items[n].organization
             /\ items[n].name # <<>> => "name" \notin vault.items[n].damaged /\ Text(vault.items[n].name) # Failed
  <2> DEFINE item == vault.items[n]
             read == decrypt_cipher(SealedItem(vault, item), OwnerKey(vault, item))
  <2>1. n \in DOMAIN vault.items /\ Legible(item.name, "name" \in item.damaged) # Failed
    BY <1>4 DEF Seen
  <2>2. read.name = item.name /\ read.organization = item.organization
    BY <1>1, <2>1, CipherReads
  <2>3. items[n] = read /\ read = Copy(n)
    BY <1>3, <1>4
  <2>4. item.name # <<>> => "name" \notin item.damaged /\ Text(item.name) # Failed
    BY <1>5, <2>1 DEF Legible
  <2> HIDE DEF read
  <2> QED
    BY <2>2, <2>3, <2>4
<1>7. ASSUME NEW n \in DOMAIN vault.items, "name" \notin vault.items[n].damaged,
             Text(vault.items[n].name) # Failed
      PROVE  Legible(vault.items[n].name, "name" \in vault.items[n].damaged) # Failed
  <2>1. <<>> # Failed
    <3>1. <<>> \in Seq(Nat)
      OBVIOUS
    <3> QED
      BY <3>1, FailedAssumption
  <2> QED
    BY <1>7, <2>1 DEF Legible
<1>8. \A n : n \in DOMAIN items <=>
        /\ n \in DOMAIN vault.items /\ Shared(vault.items[n])
        /\ Legible(vault.items[n].name, "name" \in vault.items[n].damaged) # Failed
  BY <1>2, <1>4 DEF Seen
<1>9. \A n \in DOMAIN vault.items :
        /\ Shared(vault.items[n]) /\ "name" \notin vault.items[n].damaged
        /\ Text(vault.items[n].name) # Failed
        => n \in DOMAIN items
  BY <1>7, <1>8
<1>10. DOMAIN items \subseteq Nat
  BY <1>5, <1>8
<1> QED
  BY <1>6, <1>8, <1>9, <1>10 DEF items, vault

Exact(e) == {n \in Meant(e) : Lower(Vault.items[n].name) = Lower(resolved_secret_name(e))}
AnswerFor(order, e) ==
  lookup_item(decrypt_vault(SyncResponse(Vault), Vault.key, order),
              resolved_secret_name(e), VaultOf(e, spec))

\* What is found is an item that was meant, and the first of the very name if there is one.
LEMMA HitIsMeant ==
  ASSUME Made, Vault \in Vaults, NEW order, NEW e, resolved_secret_name(e) \in Seq(Nat),
         resolved_secret_name(e) # <<>>, AnswerFor(order, e).error = "none"
  PROVE  /\ VaultOf(e, spec) # <<>> => \A o, p \in OrgsNamed(VaultOf(e, spec)) : o = p
         /\ \E n \in Meant(e) :
              AnswerFor(order, e).item = Copy(n) /\ (Exact(e) # {} => n = Least(Exact(e)))
<1> DEFINE name == resolved_secret_name(e)
           wanted == VaultOf(e, spec)
           cached == decrypt_vault(SyncResponse(Vault), Vault.key, order)
           items == Items(SyncResponse(Vault), Vault.key)
           answer == lookup_item(cached, name, wanted)
           exact == {n \in Meant(e) : Lower(Vault.items[n].name) = Lower(name)}
<1>1. cached.items = items /\ cached.orgs_by_name = index_orgs(SyncResponse(Vault), Vault.key)
  BY DEF decrypt_vault
<1>2. answer.error = "none" /\ name \in Seq(Nat) /\ name # <<>>
  BY DEF AnswerFor
<1> HIDE DEF cached
<1>3. /\ wanted # <<>> => \A o, p \in OrgsNamed(wanted) : o = p
      /\ \E org, error : /\ answer = find_item(items, name, org, error)
                         /\ error # "none"
                         /\ \A item : InScope(item, org) <=> InVault(item, wanted)
  <2> HIDE DEF name, wanted, items
  <2> QED
    BY <1>1, <1>2, ScopeOf
<1>4. PICK org, error : /\ answer = find_item(items, name, org, error)
                        /\ error # "none"
                        /\ \A item : InScope(item, org) <=> InVault(item, wanted)
  BY <1>3
<1>5. /\ DOMAIN items \subseteq Nat
      /\ \A n \in DOMAIN items :
           /\ items[n] = Copy(n) /\ items[n].name = Vault.items[n].name
           /\ items[n].organization = Vault.items[n].organization
           /\ n \in DOMAIN Vault.items /\ Shared(Vault.items[n])
           /\ items[n].name # <<>> => "name" \notin Vault.items[n].damaged /\ Text(Vault.items[n].name) # Failed
      /\ \A n \in DOMAIN Vault.items :
           /\ Shared(Vault.items[n]) /\ "name" \notin Vault.items[n].damaged
           /\ Text(Vault.items[n].name) # Failed
           => n \in DOMAIN items
  BY ReadableItems
<1> DEFINE candidates == Candidates(items, name, org)
           n == Least(candidates)
<1> HIDE DEF answer, items, name
<1>6. /\ n \in candidates /\ answer.item = items[n]
      /\ candidates \subseteq {m \in DOMAIN items :
           InScope(items[m], org) /\ (IsNamed(items[m], name) \/ Mentions(items[m], name))}
  <2>1. DOMAIN items \subseteq Nat /\ error # "none"
    BY <1>4, <1>5
  <2>2. find_item(items, name, org, error).error = "none"
    BY <1>2, <1>4
  <2>3. /\ n \in candidates /\ find_item(items, name, org, error).item = items[n]
        /\ candidates \subseteq {m \in DOMAIN items :
             InScope(items[m], org) /\ (IsNamed(items[m], name) \/ Mentions(items[m], name))}
    BY <2>1, <2>2, FindItem
  <2> HIDE DEF candidates, n
  <2> QED
    BY <1>4, <2>3
<1>7. \A m \in DOMAIN items : InScope(items[m], org) <=> InVault(Vault.items[m], wanted)
  BY <1>4, <1>5 DEF InVault
<1>8. ASSUME NEW m \in DOMAIN items, InScope(items[m], org), IsNamed(items[m], name) \/ Mentions(items[m], name)
      PROVE  m \in Meant(e)
  <2>1. items[m].name # <<>>
    BY <1>2, <1>8, NamedItem
  <2> QED
    BY <1>5, <1>7, <1>8, <2>1 DEF Meant
<1>9. n \in Meant(e) /\ answer.item = Copy(n)
  <2> HIDE DEF candidates, n
  <2> QED
    BY <1>5, <1>6, <1>8
<1>10. ASSUME exact # {} PROVE candidates = exact
  <2> DEFINE same == {m \in DOMAIN items : InScope(items[m], org) /\ IsNamed(items[m], name)}
  <2>1. ASSUME NEW m \in exact PROVE m \in same
    <3>1. m \in DOMAIN items
      BY <1>5 DEF Meant
    <3> QED
      BY <1>5, <1>7, <3>1 DEF Meant, IsNamed
  <2>2. ASSUME NEW m \in same PROVE m \in exact
    BY <1>5, <1>8 DEF IsNamed
  <2> HIDE DEF exact
  <2>3. same = exact
    BY <2>1, <2>2
  <2> HIDE DEF same
  <2>4. same # {} => Candidates(items, name, org) = same
    BY DEF Candidates, same
  <2> QED
    BY <1>10, <2>3, <2>4
<1> HIDE DEF exact
<1>11. exact # {} => n = Least(exact)
  BY <1>10
<1> HIDE DEF n
<1> QED
  BY <1>3, <1>9, <1>11 DEF answer, name, exact, cached, AnswerFor, Exact

-----------------------------------------------------------------------------
(***************************************************************************)
(* Replies                                                                 *)
(***************************************************************************)

\* An entry that no later one with its key replaces.
Last(i) == \A j \in DOMAIN spec.data : spec.data[j].key = spec.data[i].key => j <= i

LEMMA DataOfSecret ==
  ASSUME spec \in Specs, NEW values, DOMAIN values = DOMAIN spec.data
  PROVE  LET data == secret_data(spec, values) IN
         /\ \A i \in DOMAIN spec.data : Last(i) => data[spec.data[i].key] = values[i]
         /\ DOMAIN data = {spec.data[i].key : i \in DOMAIN spec.data}
         /\ \A k \in DOMAIN data : \E i \in DOMAIN spec.data : spec.data[i].key = k /\ Last(i)
<1> DEFINE key(i) == spec.data[i].key
           paired == DOMAIN spec.data \cap DOMAIN values
           same(k) == {i \in paired : key(i) = k}
           data == secret_data(spec, values)
<1>1. data = [k \in {key(i) : i \in paired} |-> values[Greatest(same(k))]]
  BY DEF secret_data
<1>2. PICK m \in Nat : DOMAIN spec.data = 1..m
  BY SpecAssumption DEF IsList
<1>3. paired = DOMAIN spec.data
  OBVIOUS
<1> HIDE DEF data, paired
<1>4. ASSUME NEW i \in DOMAIN spec.data
      PROVE  /\ Greatest(same(key(i))) \in same(key(i))
             /\ \A j \in same(key(i)) : Greatest(same(key(i))) >= j
  <2>1. same(key(i)) \subseteq 1..m /\ same(key(i)) # {}
    BY <1>2, <1>3
  <2> HIDE DEF same
  <2> QED
    BY <2>1, GreatestIsGreatest
<1>5. ASSUME NEW i \in DOMAIN spec.data, Last(i)
      PROVE  data[key(i)] = values[i]
  <2> DEFINE g == Greatest(same(key(i)))
  <2>1. g \in same(key(i)) /\ i \in same(key(i)) /\ g >= i
    BY <1>3, <1>4
  <2>2. data[key(i)] = values[g]
    BY <1>1, <1>3
  <2> HIDE DEF g
  <2>3. g <= i /\ g \in 1..m /\ i \in 1..m
    BY <1>2, <1>3, <1>5, <2>1 DEF Last
  <2>4. g = i
    BY <2>1, <2>3
  <2> QED
    BY <2>2, <2>4
<1>6. ASSUME NEW i \in DOMAIN spec.data
      PROVE  \E g \in DOMAIN spec.data : key(g) = key(i) /\ Last(g)
  <2> DEFINE g == Greatest(same(key(i)))
  <2>1. g \in same(key(i)) /\ \A j \in same(key(i)) : g >= j
    BY <1>4
  <2> HIDE DEF g
  <2>2. g \in DOMAIN spec.data /\ key(g) = key(i)
    BY <1>3, <2>1
  <2>3. ASSUME NEW j \in DOMAIN spec.data, key(j) = key(g) PROVE j <= g
    <3>1. j \in same(key(i))
      BY <1>3, <2>2, <2>3
    <3> QED
      BY <1>2, <2>1, <2>2, <3>1
  <2> QED
    BY <2>2, <2>3 DEF Last
<1>7. DOMAIN data = {key(i) : i \in DOMAIN spec.data}
  BY <1>1, <1>3
<1>8. \A k \in DOMAIN data : \E i \in DOMAIN spec.data : key(i) = k /\ Last(i)
  BY <1>6, <1>7
<1> QED
  BY <1>5, <1>7, <1>8 DEF data

\* The answer to the i-th entry, from a cache.
AnswerTo(cached, i) ==
  lookup_item(cached, resolved_secret_name(spec.data[i]), VaultOf(spec.data[i], spec))

\* A Secret that is written has a value for every entry, each from the answer to it.
LEMMA WrittenValues ==
  ASSUME spec \in Specs, NEW cached, Outcome(cached).kind = "written"
  PROVE  LET data == Outcome(cached).data IN
         /\ \A i \in DOMAIN spec.data :
              /\ resolved_secret_name(spec.data[i]) # <<>> /\ AnswerTo(cached, i).error = "none"
              /\ Last(i) => data[spec.data[i].key] = extract_secret(AnswerTo(cached, i).item, cached.order)
         /\ DOMAIN data = {spec.data[i].key : i \in DOMAIN spec.data}
         /\ \A k \in DOMAIN data : \E i \in DOMAIN spec.data : spec.data[i].key = k /\ Last(i)
<1> DEFINE requests == build_requests(spec)
           fetched == try_fetch_secrets(cached, requests)
           data == secret_data(spec, fetched.values)
<1>1. DOMAIN spec.data \subseteq Nat
  BY SpecAssumption, ListDomain
<1> HIDE DEF requests, fetched, data
<1>2. requests # Failed /\ fetched.error = "none" /\ Outcome(cached).data = data
  <2>1. Outcome(cached) =
          IF Interval = Invalid THEN [kind |-> "invalid", requeue |-> DefaultSync]
          ELSE IF requests = Failed THEN [kind |-> "invalid", requeue |-> Interval]
          ELSE IF fetched.error # "none"
          THEN [kind |-> "failed", requeue |-> Interval, error |-> fetched.error]
          ELSE [kind |-> "written", requeue |-> Interval, data |-> data]
    BY DEF Outcome, requests, fetched, data
  <2> QED
    BY <2>1
<1>3. /\ \A i \in DOMAIN spec.data : resolved_secret_name(spec.data[i]) # <<>>
      /\ requests = Requests(spec.data, spec)
  BY <1>2 DEF build_requests, requests
<1>4. /\ DOMAIN requests = DOMAIN spec.data
      /\ \A i \in DOMAIN spec.data :
           /\ requests[i].name = resolved_secret_name(spec.data[i])
           /\ requests[i].vault = VaultOf(spec.data[i], spec)
  BY <1>3 DEF Requests
<1>5. /\ \A i \in DOMAIN requests :
           lookup_item(cached, requests[i].name, requests[i].vault).error = "none"
      /\ DOMAIN fetched.values = DOMAIN requests
      /\ \A i \in DOMAIN requests :
           fetched.values[i]
             = extract_secret(lookup_item(cached, requests[i].name, requests[i].vault).item, cached.order)
  BY <1>1, <1>2, <1>4, AllFetched DEF fetched
<1>6. \A i \in DOMAIN spec.data :
        AnswerTo(cached, i).error = "none"
        /\ fetched.values[i] = extract_secret(AnswerTo(cached, i).item, cached.order)
  BY <1>4, <1>5 DEF AnswerTo
<1>7. /\ \A i \in DOMAIN spec.data : Last(i) => data[spec.data[i].key] = fetched.values[i]
      /\ DOMAIN data = {spec.data[i].key : i \in DOMAIN spec.data}
      /\ \A k \in DOMAIN data : \E i \in DOMAIN spec.data : spec.data[i].key = k /\ Last(i)
  <2> DEFINE values == fetched.values
  <2>1. DOMAIN values = DOMAIN spec.data
    BY <1>4, <1>5
  <2> HIDE DEF values
  <2>2. /\ \A i \in DOMAIN spec.data : Last(i) => secret_data(spec, values)[spec.data[i].key] = values[i]
        /\ DOMAIN secret_data(spec, values) = {spec.data[i].key : i \in DOMAIN spec.data}
        /\ \A k \in DOMAIN secret_data(spec, values) :
             \E i \in DOMAIN spec.data : spec.data[i].key = k /\ Last(i)
    BY <2>1, DataOfSecret
  <2> QED
    BY <2>2 DEF data, values
<1> QED
  BY <1>2, <1>3, <1>6, <1>7

LEMMA SyncedParts ==
  ASSUME Held, Answered, reply # Nothing
  PROVE  /\ Vault \in Vaults /\ spec \in Specs /\ IsKey(synced.key)
         /\ \A order : CacheOf(order) = decrypt_vault(SyncResponse(Vault), synced.key, order)
         /\ \A order : CacheOf(order).order = order
         /\ \E order \in Orders : reply = Outcome(CacheOf(order))
BY DEF Held, Answered, CacheOf, Vault, decrypt_vault

LEMMA SpecTexts ==
  ASSUME spec \in Specs, NEW i \in DOMAIN spec.data
  PROVE  resolved_secret_name(spec.data[i]) \in Seq(Nat)
BY SpecAssumption DEF resolved_secret_name

\* An answer of a cache with another key is an error.
LEMMA OnlyOwnKeyHits ==
  ASSUME Made, Vault \in Vaults, spec \in Specs, NEW key, IsKey(key), NEW order,
         NEW i \in DOMAIN spec.data, resolved_secret_name(spec.data[i]) # <<>>,
         AnswerTo(decrypt_vault(SyncResponse(Vault), key, order), i).error = "none"
  PROVE  key = Vault.key
<1> DEFINE vault == Vault
           name == resolved_secret_name(spec.data[i])
           wanted == VaultOf(spec.data[i], spec)
           named == {o \in DOMAIN vault.orgs : Lower(vault.orgs[o].name) = Lower(wanted)}
           error == IF wanted = <<>> THEN "NotFound"
                    ELSE IF named = {} THEN "VaultNotFound"
                    ELSE IF \E o, p \in named : o # p THEN "VaultAmbiguous" ELSE "NotFoundInVault"
<1> SUFFICES ASSUME key # vault.key PROVE FALSE
  OBVIOUS
<1>1. name \in Seq(Nat) /\ name # <<>> /\ vault \in Vaults
  BY SpecTexts
<1>2. lookup_item(decrypt_vault(SyncResponse(vault), key, order), name, wanted).error = "none"
  BY DEF AnswerTo
<1> HIDE DEF vault, name, wanted
<1>3. lookup_item(decrypt_vault(SyncResponse(vault), key, order), name, wanted) = Missed(error)
  BY <1>1, OtherKeyMisses
<1>4. error # "none"
  OBVIOUS
<1> HIDE DEF error
<1> QED
  BY <1>2, <1>3, <1>4 DEF Missed

\* Whatever the order, the value of an item that was meant is one of its best parts.
LEMMA BestOfMeant ==
  ASSUME Made, Vault \in Vaults, NEW order \in Orders, NEW e, NEW n \in Meant(e)
  PROVE  extract_secret(Copy(n), order) \in Best(Vault.items[n])
<1> DEFINE vault == Vault
<1>1. /\ vault \in Vaults /\ n \in DOMAIN vault.items
      /\ "name" \notin vault.items[n].damaged /\ Text(vault.items[n].name) # Failed
  BY DEF Meant
<1>2. Copy(n) = decrypt_cipher(SealedItem(vault, vault.items[n]), OwnerKey(vault, vault.items[n]))
  BY DEF Copy
<1> HIDE DEF vault
<1>3. <<>> # Failed
  <2>1. <<>> \in Seq(Nat)
    OBVIOUS
  <2> QED
    BY <2>1, FailedAssumption
<1>4. Legible(vault.items[n].name, "name" \in vault.items[n].damaged) # Failed
  BY <1>1, <1>3 DEF Legible
<1>5. extract_secret(Copy(n), order) \in Best(vault.items[n])
  BY <1>1, <1>2, <1>4, BestTaken
<1> QED
  BY <1>5 DEF vault

\* The value of an entry: of an item that was meant, in the cache of the vault's key.
LEMMA ValueOfEntry ==
  ASSUME Made, Held, Answered, reply # Nothing, NEW order \in Orders,
         Outcome(CacheOf(order)).kind = "written", NEW i \in DOMAIN spec.data, Last(i)
  PROVE  LET e == spec.data[i]
             name == resolved_secret_name(e)
             wanted == VaultOf(e, spec)
             exact == {n \in Meant(e) : Lower(Vault.items[n].name) = Lower(name)}
             r == Outcome(CacheOf(order))
         IN  /\ wanted # <<>> => \A o, p \in OrgsNamed(wanted) : o = p
             /\ \E n \in Meant(e) :
                  /\ AnswerTo(CacheOf(order), i).item = Copy(n)
                  /\ r.data[e.key] = extract_secret(Copy(n), order)
                  /\ r.data[e.key] \in Best(Vault.items[n])
                  /\ exact # {} => n = Least(exact)
<1> DEFINE e == spec.data[i]
           name == resolved_secret_name(e)
           wanted == VaultOf(e, spec)
           cached == CacheOf(order)
           r == Outcome(cached)
           exact == {n \in Meant(e) : Lower(Vault.items[n].name) = Lower(name)}
<1>1. /\ Vault \in Vaults /\ spec \in Specs /\ IsKey(synced.key) /\ cached.order = order
      /\ cached = decrypt_vault(SyncResponse(Vault), synced.key, order)
  BY SyncedParts
<1>2. /\ name # <<>> /\ AnswerTo(cached, i).error = "none"
      /\ r.data[e.key] = extract_secret(AnswerTo(cached, i).item, order)
  <2>1. Outcome(cached).kind = "written"
    BY DEF cached
  <2> HIDE DEF cached
  <2> QED
    BY <1>1, <2>1, WrittenValues
<1>3. name \in Seq(Nat)
  BY <1>1, SpecTexts
<1>4. synced.key = Vault.key
  BY <1>1, <1>2, OnlyOwnKeyHits
<1>5. /\ wanted # <<>> => \A o, p \in OrgsNamed(wanted) : o = p
      /\ \E n \in Meant(e) : AnswerTo(cached, i).item = Copy(n) /\ (exact # {} => n = Least(exact))
  <2>1. AnswerFor(order, e) = AnswerTo(cached, i)
    BY <1>1, <1>4 DEF AnswerTo, AnswerFor
  <2>2. exact = Exact(e)
    BY DEF Exact
  <2> HIDE DEF cached, exact, e
  <2>3. /\ VaultOf(e, spec) # <<>> => \A o, p \in OrgsNamed(VaultOf(e, spec)) : o = p
        /\ \E n \in Meant(e) :
             AnswerFor(order, e).item = Copy(n) /\ (Exact(e) # {} => n = Least(Exact(e)))
    BY <1>1, <1>2, <1>3, <2>1, HitIsMeant
  <2> QED
    BY <2>1, <2>2, <2>3
<1>6. \A n \in Meant(e) : extract_secret(Copy(n), order) \in Best(Vault.items[n])
  BY <1>1, BestOfMeant
<1> HIDE DEF r, cached, exact, e, wanted
<1>7. \E n \in Meant(e) :
        /\ AnswerTo(cached, i).item = Copy(n)
        /\ r.data[e.key] = extract_secret(Copy(n), order)
        /\ r.data[e.key] \in Best(Vault.items[n])
        /\ exact # {} => n = Least(exact)
  BY <1>2, <1>5, <1>6
<1> QED
  BY <1>5, <1>7 DEF r, cached, exact, e, wanted

LEMMA KeptEntry ==
  ASSUME NEW i \in Kept
  PROVE  reply # Nothing /\ reply.kind = "written" /\ i \in DOMAIN spec.data /\ Last(i)
BY DEF Kept, Last

\* Of whatever vault and spec: a value in a Secret is the best part of an item that
\* the entry could mean, and never that of a part which can be read and ranks lower
\* (extract_secret, decrypt_cipher).
THEOREM BestPartIsTaken == Made => (Spec => []BestPartTaken)
<1> SUFFICES ASSUME Made PROVE Spec => []BestPartTaken
  OBVIOUS
<1>1. Held /\ Answered => BestPartTaken
  <2> SUFFICES ASSUME Held, Answered, NEW i \in Kept
               PROVE  \E n \in Meant(spec.data[i]) : Value(i) \in Best(Vault.items[n])
    BY DEF BestPartTaken
  <2>1. reply # Nothing /\ reply.kind = "written" /\ i \in DOMAIN spec.data /\ Last(i)
    BY KeptEntry
  <2>2. PICK order \in Orders : reply = Outcome(CacheOf(order))
    BY <2>1, SyncedParts
  <2> QED
    BY <2>1, <2>2, ValueOfEntry DEF Value
<1> QED
  BY <1>1, KeyIsHeld, ReplyIsAnswered, PTL

\* A lookup with a vault stays in it: the organization's name is unambiguous and the
\* value that of one of its items, whatever items the other vaults have (lookup_item).
THEOREM ScopeIsRespected == Made => (Spec => []ScopeRespected)
<1> SUFFICES ASSUME Made PROVE Spec => []ScopeRespected
  OBVIOUS
<1>1. Held /\ Answered => ScopeRespected
  <2> SUFFICES ASSUME Held, Answered, NEW i \in Kept, VaultOf(spec.data[i], spec) # <<>>
               PROVE  LET wanted == VaultOf(spec.data[i], spec) IN
                      /\ \A o, p \in OrgsNamed(wanted) : o = p
                      /\ \E n \in DOMAIN Vault.items :
                           InVault(Vault.items[n], wanted) /\ Value(i) \in Best(Vault.items[n])
    BY DEF ScopeRespected, VaultOf
  <2>1. reply # Nothing /\ reply.kind = "written" /\ i \in DOMAIN spec.data /\ Last(i)
    BY KeptEntry
  <2>2. PICK order \in Orders : reply = Outcome(CacheOf(order))
    BY <2>1, SyncedParts
  <2>3. /\ \A o, p \in OrgsNamed(VaultOf(spec.data[i], spec)) : o = p
        /\ \E n \in Meant(spec.data[i]) : Value(i) \in Best(Vault.items[n])
    BY <2>1, <2>2, ValueOfEntry DEF Value
  <2>4. \A n \in Meant(spec.data[i]) :
          n \in DOMAIN Vault.items /\ InVault(Vault.items[n], VaultOf(spec.data[i], spec))
    BY DEF Meant
  <2> QED
    BY <2>3, <2>4
<1> QED
  BY <1>1, KeyIsHeld, ReplyIsAnswered, PTL

\* Of the items that an entry could mean, the first of exactly that name is the one,
\* wherever in the vault the partial matches are (find_item).
THEOREM ExactIsPreferred == Made => (Spec => []ExactPreferred)
<1> SUFFICES ASSUME Made PROVE Spec => []ExactPreferred
  OBVIOUS
<1>1. Held /\ Answered => ExactPreferred
  <2> SUFFICES ASSUME Held, Answered, NEW i \in Kept
               PROVE  LET name == Lower(resolved_secret_name(spec.data[i]))
                          exact == {n \in Meant(spec.data[i]) : Lower(Vault.items[n].name) = name}
                      IN  exact # {} => Value(i) \in Best(Vault.items[Least(exact)])
    BY DEF ExactPreferred
  <2>1. reply # Nothing /\ reply.kind = "written" /\ i \in DOMAIN spec.data /\ Last(i)
    BY KeptEntry
  <2>2. PICK order \in Orders : reply = Outcome(CacheOf(order))
    BY <2>1, SyncedParts
  <2> QED
    BY <2>1, <2>2, ValueOfEntry DEF Value
<1> QED
  BY <1>1, KeyIsHeld, ReplyIsAnswered, PTL

LEMMA TwoOrMore ==
  ASSUME NEW S, NEW n \in Nat, S \subseteq 1..n
  PROVE  Cardinality(S) > 1 <=> \E o, p \in S : o # p
<1>1. IsFiniteSet(S)
  <2>1. IsFiniteSet(1..n)
    BY FS_Interval
  <2> QED
    BY <2>1, FS_Subset
<1>2. Cardinality(S) \in Nat
  BY <1>1, FS_CardinalityType
<1>3. Cardinality(S) = 0 <=> S = {}
  BY <1>1, FS_EmptySet
<1>4. Cardinality(S) = 1 <=> \E x : S = {x}
  BY <1>1, FS_Singleton
<1>5. (S = {} \/ \E x : S = {x}) <=> ~\E o, p \in S : o # p
  <2>1. ASSUME ~\E o, p \in S : o # p, S # {}
        PROVE  \E x : S = {x}
    <3>1. PICK x \in S : TRUE
      BY <2>1
    <3>2. S = {x}
      BY <2>1, <3>1
    <3> QED
      BY <3>2
  <2> QED
    BY <2>1
<1> QED
  BY <1>2, <1>3, <1>4, <1>5

\* In the cache of an old key nothing is found of any vault or spec, and the error
\* is that of the scope: organizations are known by their names without their keys
\* (index_orgs, decrypt_vault).
THEOREM WrongKeyIsHidden == Made => (Spec => []WrongKeyHidden)
<1> SUFFICES ASSUME Made PROVE Spec => []WrongKeyHidden
  OBVIOUS
<1>1. Held /\ Answered => WrongKeyHidden
  <2> SUFFICES ASSUME Held, Answered, reply # Nothing, reply.kind # "invalid",
                      synced.key # Vault.key, spec.data # <<>>
               PROVE  LET wanted == VaultOf(spec.data[1], spec)
                          orgs == OrgsNamed(wanted)
                      IN  /\ reply.kind = "failed"
                          /\ reply.error = IF wanted = <<>> THEN "NotFound"
                                           ELSE IF orgs = {} THEN "VaultNotFound"
                                           ELSE IF Cardinality(orgs) > 1 THEN "VaultAmbiguous"
                                           ELSE "NotFoundInVault"
    BY DEF WrongKeyHidden
  <2>1. /\ Vault \in Vaults /\ spec \in Specs /\ IsKey(synced.key)
        /\ \A order : CacheOf(order) = decrypt_vault(SyncResponse(Vault), synced.key, order)
    BY SyncedParts
  <2>2. PICK order \in Orders : reply = Outcome(CacheOf(order))
    BY SyncedParts
  <2>3. 1 \in DOMAIN spec.data /\ 0 \notin DOMAIN spec.data /\ DOMAIN spec.data \subseteq Nat
    <3>1. IsList(spec.data)
      BY <2>1, SpecAssumption
    <3> QED
      BY <3>1, ListDomain
  <2> DEFINE cached == CacheOf(order)
             requests == build_requests(spec)
             fetched == try_fetch_secrets(cached, requests)
             wanted == VaultOf(spec.data[1], spec)
             orgs == OrgsNamed(wanted)
             error == IF wanted = <<>> THEN "NotFound"
                      ELSE IF orgs = {} THEN "VaultNotFound"
                      ELSE IF \E o, p \in orgs : o # p THEN "VaultAmbiguous" ELSE "NotFoundInVault"
  <2>4. requests # Failed /\ (fetched.error # "none" => reply.kind = "failed" /\ reply.error = fetched.error)
    <3> DEFINE data == secret_data(spec, fetched.values)
    <3>1. reply =
            IF Interval = Invalid THEN [kind |-> "invalid", requeue |-> DefaultSync]
            ELSE IF requests = Failed THEN [kind |-> "invalid", requeue |-> Interval]
            ELSE IF fetched.error # "none"
            THEN [kind |-> "failed", requeue |-> Interval, error |-> fetched.error]
            ELSE [kind |-> "written", requeue |-> Interval, data |-> data]
      BY <2>2 DEF Outcome
    <3> HIDE DEF data, fetched, requests
    <3> QED
      BY <3>1
  <2>5. /\ resolved_secret_name(spec.data[1]) # <<>>
        /\ DOMAIN requests = DOMAIN spec.data
        /\ requests[1].name = resolved_secret_name(spec.data[1]) /\ requests[1].vault = wanted
    BY <2>3, <2>4 DEF build_requests, Requests
  <2>6. resolved_secret_name(spec.data[1]) \in Seq(Nat)
    BY <2>1, <2>3, SpecTexts
  <2>7. orgs \subseteq 1..Len(Vault.orgs) /\ Len(Vault.orgs) \in Nat
    <3>1. IsList(Vault.orgs)
      BY <2>1, VaultAssumption
    <3>2. orgs \subseteq DOMAIN Vault.orgs
      BY DEF OrgsNamed
    <3> HIDE DEF orgs
    <3> QED
      BY <3>1, <3>2, ListDomain
  <2>8. orgs = {o \in DOMAIN Vault.orgs : Lower(Vault.orgs[o].name) = Lower(wanted)}
    BY DEF OrgsNamed
  <2>9. cached = decrypt_vault(SyncResponse(Vault), synced.key, order)
    BY <2>1
  <2> HIDE DEF cached, requests, fetched, wanted, orgs, error
  <2>10. lookup_item(cached, requests[1].name, requests[1].vault) = Missed(error)
    <3> DEFINE vault == Vault
               name == resolved_secret_name(spec.data[1])
               named == {o \in DOMAIN vault.orgs : Lower(vault.orgs[o].name) = Lower(wanted)}
               error_ == IF wanted = <<>> THEN "NotFound"
                         ELSE IF named = {} THEN "VaultNotFound"
                         ELSE IF \E o, p \in named : o # p THEN "VaultAmbiguous" ELSE "NotFoundInVault"
    <3>1. vault \in Vaults /\ synced.key # vault.key
      BY <2>1
    <3> HIDE DEF vault, name
    <3>2. name \in Seq(Nat) /\ name # <<>>
      BY <2>5, <2>6 DEF name
    <3>3. lookup_item(decrypt_vault(SyncResponse(vault), synced.key, order), name, wanted) = Missed(error_)
      BY <2>1, <3>1, <3>2, OtherKeyMisses
    <3>4. named = orgs
      BY <2>8 DEF vault
    <3> HIDE DEF named
    <3>5. error_ = error
      BY <3>4 DEF error
    <3> HIDE DEF error_
    <3> QED
      BY <2>5, <2>9, <3>3, <3>5 DEF vault, name
  <2>11. error # "none" /\ Missed(error).error = error
    <3>1. Missed(error).error = error
      BY DEF Missed
    <3>2. error # "none"
      BY DEF error
    <3> QED
      BY <3>1, <3>2
  <2>12. fetched.error = error
    BY <2>3, <2>5, <2>10, <2>11, AllFetched DEF fetched
  <2>13. reply.kind = "failed" /\ reply.error = error
    BY <2>4, <2>11, <2>12
  <2>14. Cardinality(orgs) > 1 <=> \E o, p \in orgs : o # p
    BY <2>7, TwoOrMore
  <2>15. error = IF wanted = <<>> THEN "NotFound"
                 ELSE IF orgs = {} THEN "VaultNotFound"
                 ELSE IF Cardinality(orgs) > 1 THEN "VaultAmbiguous" ELSE "NotFoundInVault"
    BY <2>14 DEF error
  <2> QED
    BY <2>13, <2>15 DEF wanted, orgs
<1> QED
  BY <1>1, KeyIsHeld, ReplyIsAnswered, PTL

\* Whatever the vault holds, and under any key: the value at a key of the Secret is
\* the one that the entry has alone (the zip in reconcile_apply).
THEOREM EachKeyHasItsOwnItem == Spec => []EachKeyItsOwnItem
<1>1. Held /\ Answered => EachKeyItsOwnItem
  <2> SUFFICES ASSUME Held, Answered, NEW i \in Kept
               PROVE  /\ resolved_secret_name(spec.data[i]) # <<>>
                      /\ \E order \in Orders :
                           LET alone == try_fetch_secrets(
                                          decrypt_vault(SyncResponse(Vault), synced.key, order),
                                          Requests(<<spec.data[i]>>, spec))
                           IN  alone.error = "none" /\ Value(i) = alone.values[1]
    BY DEF EachKeyItsOwnItem
  <2>1. reply # Nothing /\ reply.kind = "written" /\ i \in DOMAIN spec.data /\ Last(i)
    BY KeptEntry
  <2>2. /\ Vault \in Vaults /\ spec \in Specs
        /\ \A order : CacheOf(order) = decrypt_vault(SyncResponse(Vault), synced.key, order)
        /\ \A order : CacheOf(order).order = order
        /\ \E order \in Orders : reply = Outcome(CacheOf(order))
    BY <2>1, SyncedParts
  <2>3. PICK order \in Orders : reply = Outcome(CacheOf(order))
    BY <2>2
  <2> DEFINE cached == CacheOf(order)
             one == Requests(<<spec.data[i]>>, spec)
             alone == try_fetch_secrets(cached, one)
  <2>4. Outcome(cached).kind = "written" /\ Outcome(cached) = reply
    BY <2>1, <2>3
  <2> HIDE DEF cached
  <2>5. /\ resolved_secret_name(spec.data[i]) # <<>> /\ AnswerTo(cached, i).error = "none"
        /\ Value(i) = extract_secret(AnswerTo(cached, i).item, cached.order)
    BY <2>1, <2>2, <2>4, WrittenValues DEF Value
  <2>6. /\ DOMAIN one = {1}
        /\ one[1].name = resolved_secret_name(spec.data[i]) /\ one[1].vault = VaultOf(spec.data[i], spec)
    BY DEF Requests
  <2> HIDE DEF one
  <2>7. \A j \in DOMAIN one : lookup_item(cached, one[j].name, one[j].vault) = AnswerTo(cached, i)
    BY <2>6 DEF AnswerTo
  <2>8. 1 \in DOMAIN one /\ DOMAIN one \subseteq Nat
    BY <2>6
  <2>9. alone.error = "none" /\ alone.values[1] = extract_secret(AnswerTo(cached, i).item, cached.order)
    BY <2>5, <2>7, <2>8, AllFetched
  <2>10. cached = decrypt_vault(SyncResponse(Vault), synced.key, order)
    BY <2>2 DEF cached
  <2> QED
    BY <2>5, <2>9, <2>10 DEF one
<1> QED
  BY <1>1, KeyIsHeld, ReplyIsAnswered, PTL

\* The order of a HashMap changes no answer.
LEMMA SameAnswer ==
  ASSUME NEW i, NEW o, NEW p
  PROVE  AnswerTo(CacheOf(o), i) = AnswerTo(CacheOf(p), i)
<1>1. /\ CacheOf(o).items = CacheOf(p).items
      /\ CacheOf(o).orgs_by_name = CacheOf(p).orgs_by_name
  BY DEF CacheOf, decrypt_vault
<1> QED
  BY <1>1 DEF AnswerTo, lookup_item

\* Nor does it change anything but the values.
LEMMA SameKind ==
  ASSUME spec \in Specs, NEW o, NEW p,
         Outcome(CacheOf(o)) # Outcome(CacheOf(p))
  PROVE  Outcome(CacheOf(o)).kind = "written" /\ Outcome(CacheOf(p)).kind = "written"
<1> DEFINE requests == build_requests(spec)
           fetched(c) == try_fetch_secrets(c, requests)
           out(c) == IF Interval = Invalid THEN [kind |-> "invalid", requeue |-> DefaultSync]
                     ELSE IF requests = Failed THEN [kind |-> "invalid", requeue |-> Interval]
                     ELSE IF fetched(c).error # "none"
                     THEN [kind |-> "failed", requeue |-> Interval, error |-> fetched(c).error]
                     ELSE [kind |-> "written", requeue |-> Interval,
                           data |-> secret_data(spec, fetched(c).values)]
<1>1. \A c : Outcome(c) = out(c)
  BY DEF Outcome
<1>2. CacheOf(o).items = CacheOf(p).items /\ CacheOf(o).orgs_by_name = CacheOf(p).orgs_by_name
  BY DEF CacheOf, decrypt_vault
<1>3. \A name, vault : lookup_item(CacheOf(o), name, vault) = lookup_item(CacheOf(p), name, vault)
  BY <1>2 DEF lookup_item
<1>4. fetched(CacheOf(o)).error = fetched(CacheOf(p)).error
  <2> DEFINE answer(c, i) == lookup_item(c, requests[i].name, requests[i].vault)
             missed(c) == {i \in DOMAIN requests : answer(c, i).error # "none"}
             values(c) == [i \in DOMAIN requests |-> extract_secret(answer(c, i).item, c.order)]
  <2>1. \A c : fetched(c) = IF missed(c) # {} THEN Missed(answer(c, Least(missed(c))).error)
                            ELSE [error |-> "none", values |-> values(c)]
    BY DEF try_fetch_secrets
  <2>2. \A i : answer(CacheOf(o), i) = answer(CacheOf(p), i)
    BY <1>3
  <2> HIDE DEF answer, values, fetched
  <2>3. missed(CacheOf(o)) = missed(CacheOf(p))
    BY <2>2
  <2> HIDE DEF missed
  <2> QED
    BY <2>1, <2>2, <2>3 DEF Missed
<1> HIDE DEF fetched, requests
<1>5. out(CacheOf(o)) # out(CacheOf(p))
  BY <1>1
<1>6. Interval # Invalid /\ requests # Failed /\ fetched(CacheOf(o)).error = "none"
  BY <1>4, <1>5
<1>7. out(CacheOf(o)).kind = "written" /\ out(CacheOf(p)).kind = "written"
  BY <1>4, <1>6
<1> HIDE DEF out
<1> QED
  BY <1>1, <1>7

\* Two reconciles of the same vault differ only in values, and only between best parts
\* of the same item: the order of a HashMap is the only thing that may show.
THEOREM ValuesAreStable == Made => (Spec => ValueStable)
<1> SUFFICES ASSUME Made PROVE Spec => ValueStable
  OBVIOUS
<1> DEFINE Stable ==
      reply # Nothing /\ reply' # Nothing /\ reply' # reply =>
        /\ reply.kind = "written" /\ reply'.kind = "written"
        /\ \A k \in DOMAIN reply.data :
             \/ reply'.data[k] = reply.data[k]
             \/ \E n \in DOMAIN Vault.items :
                  {reply.data[k], reply'.data[k]} \subseteq Best(Vault.items[n])
<1>1. Held /\ Answered /\ [Next]_vars => [Stable]_vars
  <2> SUFFICES ASSUME Held, Answered, [Next]_vars,
                      reply # Nothing, reply' # Nothing, reply' # reply
               PROVE  /\ reply.kind = "written" /\ reply'.kind = "written"
                      /\ \A k \in DOMAIN reply.data :
                           \E n \in DOMAIN Vault.items :
                             {reply.data[k], reply'.data[k]} \subseteq Best(Vault.items[n])
    OBVIOUS
  <2>1. reply' = Outcome(CacheOf(synced.order))
    <3>1. Reconcile
      BY DEF Next, vars, Authenticate, StoreKey, InitialSync, Sync, Panic
    <3> QED
      BY <3>1 DEF Reconcile, cache
  <2>2. /\ spec \in Specs /\ \E order \in Orders : reply = Outcome(CacheOf(order))
    BY SyncedParts
  <2>3. PICK order \in Orders : reply = Outcome(CacheOf(order))
    BY <2>2
  <2>4. synced.order \in Orders
    BY DEF Held, Answered
  <2>5. reply.kind = "written" /\ reply'.kind = "written"
    BY <2>1, <2>2, <2>3, SameKind
  <2>6. ASSUME NEW k \in DOMAIN reply.data
        PROVE  \E n \in DOMAIN Vault.items :
                 {reply.data[k], reply'.data[k]} \subseteq Best(Vault.items[n])
    <3>1. PICK i \in DOMAIN spec.data : spec.data[i].key = k /\ Last(i)
      <4> DEFINE cached == CacheOf(order)
      <4>1. Outcome(cached).kind = "written" /\ Outcome(cached) = reply
        BY <2>3, <2>5
      <4> HIDE DEF cached
      <4> QED
        BY <2>2, <2>6, <4>1, WrittenValues
    <3>2. PICK n \in Meant(spec.data[i]) :
            /\ AnswerTo(CacheOf(order), i).item = Copy(n) /\ reply.data[k] = extract_secret(Copy(n), order)
            /\ reply.data[k] \in Best(Vault.items[n])
      BY <2>3, <2>5, <3>1, ValueOfEntry
    <3>3. PICK m \in Meant(spec.data[i]) :
            /\ AnswerTo(CacheOf(synced.order), i).item = Copy(m)
            /\ reply'.data[k] = extract_secret(Copy(m), synced.order)
      <4> DEFINE o == synced.order
      <4>1. Outcome(CacheOf(o)) = reply' /\ Outcome(CacheOf(o)).kind = "written" /\ o \in Orders
        BY <2>1, <2>4, <2>5
      <4> HIDE DEF o
      <4>2. \E m \in Meant(spec.data[i]) :
              /\ AnswerTo(CacheOf(o), i).item = Copy(m)
              /\ Outcome(CacheOf(o)).data[spec.data[i].key] = extract_secret(Copy(m), o)
        BY <3>1, <4>1, ValueOfEntry
      <4> QED
        BY <3>1, <4>1, <4>2 DEF o
    <3>4. Copy(m) = Copy(n)
      BY <3>2, <3>3, SameAnswer
    <3>5. reply'.data[k] = extract_secret(Copy(n), synced.order)
      BY <3>3, <3>4
    <3>6. \A order_ \in Orders : extract_secret(Copy(n), order_) \in Best(Vault.items[n])
      BY <2>2, SyncedParts, BestOfMeant
    <3>7. n \in DOMAIN Vault.items
      BY DEF Meant
    <3> QED
      BY <2>4, <3>2, <3>5, <3>6, <3>7
  <2> QED
    BY <2>5, <2>6
<1> QED
  BY <1>1, KeyIsHeld, ReplyIsAnswered, PTL DEF Spec, ValueStable
=============================================================================
