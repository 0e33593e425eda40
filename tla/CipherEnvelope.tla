--------------------------- MODULE CipherEnvelope ---------------------------
(***************************************************************************)
(* The decryption of src/vault/crypto.rs: cipher strings, their padding    *)
(* and MAC, and the keys that are unwrapped from one another.              *)
(*                                                                         *)
(* A text is a sequence of bytes, of which one stands for a whole word; a  *)
(* half of a symmetric key is HalfKey bytes.  The primitives are external  *)
(* and ideal: a ciphertext names the key it is under, a MAC or an RSA      *)
(* decryption under another key fails, and AES under another key yields    *)
(* `noise', any bytes of the same length.                                  *)
(*                                                                         *)
(* All errors of the crate are the one value Failed: its callers do not    *)
(* tell them apart.                                                        *)
(***************************************************************************)
EXTENDS Naturals, Sequences

CONSTANTS
  Failed,        \* Err(CryptoError)
  NoString,      \* the empty string where a cipher string is expected, or None
  BlockSize,     \* 16
  HalfKey,       \* 32
  NotUtf8,       \* bytes that are no text
  Derive(_),     \* PBKDF2 and Argon2id: the master key from their parameters
  Salt(_),       \* an email address, trimmed and in lower case
  SaltBytes(_),  \* how many bytes that has
  MinSalt,       \* the bytes that Argon2 wants of a salt: 8
  Stretch(_),    \* HKDF-Expand: master key to [enc_key, mac_key]
  MemoryUnit,    \* KiB per MiB: 1024
  MemoryWords    \* the values of a u32

ASSUME EnvelopeAssumption ==
  /\ BlockSize \in Nat \ {0} /\ HalfKey \in Nat \ {0}
  /\ MemoryUnit \in Nat \ {0} /\ MemoryWords \in Nat \ {0}
  /\ Failed # NoString
ASSUME FailedAssumption == Failed \notin Seq(Nat)
ASSUME SaltAssumption == MinSalt \in Nat

-----------------------------------------------------------------------------
(***************************************************************************)
(* PKCS#7                                                                  *)
(***************************************************************************)

\* The padding that clients append before they encrypt.
Pad(data) ==
  LET n == BlockSize - (Len(data) % BlockSize) IN data \o [i \in 1..n |-> n]

\* The last byte, which says how many there are to remove.
PadLen(data) == data[Len(data)]

\* Faulty variant of PaddingBytes: only the last byte is looked at.
LastByteOnly(data) == TRUE
\* All bytes of the padding are alike.
PaddingBytes(data) ==
  \A i \in (Len(data) - PadLen(data) + 1)..Len(data) : data[i] = PadLen(data)

pkcs7_unpad(data) ==
  IF /\ Len(data) # 0 /\ Len(data) % BlockSize = 0
     /\ PadLen(data) \in 1..BlockSize
     /\ PaddingBytes(data)
  THEN SubSeq(data, 1, Len(data) - PadLen(data))
  ELSE Failed

-----------------------------------------------------------------------------
(***************************************************************************)
(* Cipher strings                                                          *)
(***************************************************************************)

AesTypes == {0, 2}   \* without and with a MAC
RsaTypes == {3, 4}

\* How many parts follow the type, where the number matters.
Parts == [t \in AesTypes |-> IF t = 0 THEN 2 ELSE 3]

\* A MAC, and who can make it.
MacOf(mac_key, iv, ct) == [key |-> mac_key, iv |-> iv, ct |-> ct]

\* A cipher string as clients make it.
SealAes(type, key, text) ==
  LET ct == [key |-> key.enc_key, bytes |-> Pad(text)]
  IN  [type |-> type, parts |-> Parts[type], base64 |-> TRUE, iv |-> BlockSize, ct |-> ct,
       mac |-> IF type = 2 THEN MacOf(key.mac_key, BlockSize, ct) ELSE NoString]
SealRsa(type, private_key, text) ==
  [type |-> type, parts |-> 1, base64 |-> TRUE, iv |-> 0,
   ct |-> [key |-> private_key, bytes |-> text], mac |-> NoString]

\* CipherString::parse: the type is supported, the parts are there and decode.
parse(s) ==
  IF /\ s # NoString
     /\ s.type \in RsaTypes \/ (s.type \in AesTypes /\ s.parts = Parts[s.type])
     /\ s.base64
  THEN s ELSE Failed

\* Faulty variant of MacMatches: without a MAC key there is nothing to verify.
MacIfKeyed(cs, key) ==
  cs.type = 2 /\ key.mac_key # <<>> => cs.mac = MacOf(key.mac_key, cs.iv, cs.ct)
\* Type 2 needs a MAC key, and the MAC it makes of the IV and the ciphertext.
MacMatches(cs, key) ==
  cs.type = 2 => key.mac_key # <<>> /\ cs.mac = MacOf(key.mac_key, cs.iv, cs.ct)

\* AES-CBC without padding
AesCbc(ct, enc_key, noise) == IF enc_key = ct.key THEN ct.bytes ELSE noise

decrypt(cs, key, noise) ==
  IF /\ cs.iv = BlockSize
     /\ Len(cs.ct.bytes) # 0 /\ Len(cs.ct.bytes) % BlockSize = 0
     /\ MacMatches(cs, key)
     /\ Len(key.enc_key) = HalfKey
  THEN pkcs7_unpad(AesCbc(cs.ct, key.enc_key, noise))
  ELSE Failed

decrypt_rsa(cs, private_key) ==
  IF cs.type \in RsaTypes /\ cs.ct.key = private_key THEN cs.ct.bytes ELSE Failed

\* String::from_utf8
Text(bytes) ==
  IF bytes = Failed \/ (\E i \in DOMAIN bytes : bytes[i] \in NotUtf8) THEN Failed ELSE bytes

\* The empty string decrypts to itself.
decrypt_str(s, key, noise) ==
  IF s = NoString THEN <<>>
  ELSE IF parse(s) = Failed THEN Failed
  ELSE Text(decrypt(parse(s), key, noise))

-----------------------------------------------------------------------------
(***************************************************************************)
(* Keys                                                                    *)
(***************************************************************************)

OrDefault(option, default) == IF option = NoString THEN default ELSE option

\* memory_mib * 1024 in 32 bits, without a check in a release build
MemoryKib(kdf) == (OrDefault(kdf.memory, 64) * MemoryUnit) % MemoryWords

Parallelism(kdf) == OrDefault(kdf.parallelism, 4)

\* Params::new accepts eight blocks per lane, and one iteration, or more.
ParamsAccepted(kdf) ==
  Parallelism(kdf) >= 1 /\ kdf.iterations >= 1 /\ MemoryKib(kdf) >= 8 * Parallelism(kdf)

\* hash_password_into refuses a shorter salt.
SaltAccepted(email) == SaltBytes(Salt(email)) >= MinSalt

make_master_key(password, email, kdf) ==
  LET Key(memory, parallelism) ==
        Derive([password |-> password, salt |-> Salt(email), type |-> kdf.type,
                iterations |-> kdf.iterations, memory |-> memory,
                parallelism |-> parallelism])
  IN  IF kdf.type = "pbkdf2" /\ kdf.iterations >= 1 THEN Key(0, 0)
      ELSE IF kdf.type = "argon2id" /\ ParamsAccepted(kdf) /\ SaltAccepted(email)
      THEN Key(MemoryKib(kdf), Parallelism(kdf))
      ELSE Failed

\* What the server compares with the hash it keeps.
hash_password(password, master_key) == <<password, master_key>>

\* Faulty variant of SymmetricKey: split without a look at the length.
SplitAtHalf(bytes) ==
  IF bytes # Failed /\ Len(bytes) >= HalfKey
  THEN [enc_key |-> SubSeq(bytes, 1, HalfKey),
        mac_key |-> SubSeq(bytes, HalfKey + 1, Len(bytes))]
  ELSE Failed
\* The two halves of a decrypted key, which must have their length.
SymmetricKey(bytes) ==
  IF bytes # Failed /\ Len(bytes) = 2 * HalfKey
  THEN [enc_key |-> SubSeq(bytes, 1, HalfKey),
        mac_key |-> SubSeq(bytes, HalfKey + 1, 2 * HalfKey)]
  ELSE Failed

Legacy(master_key) == [enc_key |-> master_key, mac_key |-> <<>>]

\* Faulty variant of Unwrapped: no attempt with the master key itself.
StretchedOnly(cs, master_key, noise) == decrypt(cs, Stretch(master_key), noise.stretched)
\* The legacy attempt follows only an error: bytes that unpad by chance are taken.
Unwrapped(cs, master_key, noise) ==
  LET modern == decrypt(cs, Stretch(master_key), noise.stretched) IN
  IF modern # Failed THEN modern ELSE decrypt(cs, Legacy(master_key), noise.legacy)

decrypt_symmetric_key(s, master_key, noise) ==
  IF parse(s) = Failed THEN Failed
  ELSE SymmetricKey(Unwrapped(parse(s), master_key, noise))

\* The bytes of a private key are the key; anything else is no PKCS#8.
decrypt_private_key(s, sym_key, noise) ==
  IF parse(s) = Failed THEN Failed ELSE decrypt(parse(s), sym_key, noise)

decrypt_org_key(s, private_key) ==
  IF parse(s) = Failed THEN Failed ELSE SymmetricKey(decrypt_rsa(parse(s), private_key))
=============================================================================
