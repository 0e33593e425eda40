----------------------- MODULE CipherEnvelope_proofs -----------------------
(***************************************************************************)
(* Theorems about CipherEnvelope, for every block size and key length: the *)
(* padding, and what a key opens.                                          *)
(***************************************************************************)
EXTENDS CipherEnvelope, Integers, TLAPS

USE EnvelopeAssumption

-----------------------------------------------------------------------------
(***************************************************************************)
(* PKCS#7                                                                  *)
(***************************************************************************)

LEMMA Remainder ==
  ASSUME NEW a \in Nat, NEW b \in Nat \ {0}
  PROVE  a % b \in 0..(b - 1) /\ a = (b * (a \div b)) + (a % b) /\ a \div b \in Nat
OBVIOUS

LEMMA Multiple ==
  ASSUME NEW a \in Nat, NEW b \in Nat \ {0}, a % b = 0
  PROVE  \E q \in Nat : a = b * q
<1>1. a = b * (a \div b) /\ a \div b \in Nat
  BY Remainder
<1> QED BY <1>1

LEMMA ProductRemainder ==
  ASSUME NEW q \in Nat, NEW b \in Nat \ {0}
  PROVE  (b * q) % b = 0
OBVIOUS

LEMMA UniqueRemainder ==
  ASSUME NEW q \in Nat, NEW b \in Nat \ {0}, NEW r \in 0..(b - 1)
  PROVE  ((b * q) + r) % b = r
OBVIOUS

LEMMA Concatenation ==
  ASSUME NEW s \in Seq(Nat), NEW t \in Seq(Nat)
  PROVE  /\ s \o t \in Seq(Nat) /\ Len(s \o t) = Len(s) + Len(t)
         /\ \A i \in 1..Len(s) : (s \o t)[i] = s[i]
         /\ \A i \in (Len(s) + 1)..(Len(s) + Len(t)) : (s \o t)[i] = t[i - Len(s)]
OBVIOUS

LEMMA SameSequence ==
  ASSUME NEW s \in Seq(Nat), NEW t \in Seq(Nat), Len(s) = Len(t),
         \A i \in 1..Len(s) : s[i] = t[i]
  PROVE  s = t
OBVIOUS

\* The length of padded data is a multiple of the block size.
LEMMA PaddedLength ==
  ASSUME NEW data \in Seq(Nat)
  PROVE  LET n == BlockSize - (Len(data) % BlockSize) IN
         /\ n \in 1..BlockSize
         /\ Pad(data) \in Seq(Nat)
         /\ Len(Pad(data)) = Len(data) + n
         /\ Len(Pad(data)) % BlockSize = 0
         /\ \A i \in 1..Len(data) : Pad(data)[i] = data[i]
         /\ \A i \in (Len(data) + 1)..(Len(data) + n) : Pad(data)[i] = n
<1> DEFINE n == BlockSize - (Len(data) % BlockSize)
           padding == [i \in 1..n |-> n]
<1>1. n \in 1..BlockSize
  BY Remainder
<1>2. padding \in Seq(Nat) /\ Len(padding) = n
  BY <1>1
<1>3. Pad(data) = data \o padding
  BY DEF Pad
<1>4. Len(Pad(data)) = Len(data) + n /\ Pad(data) \in Seq(Nat)
  BY <1>2, <1>3
<1>5. (Len(data) + n) % BlockSize = 0
  <2> DEFINE q == Len(data) \div BlockSize
  <2>1. Len(data) = (BlockSize * q) + (Len(data) % BlockSize) /\ q \in Nat
    <3>1. Len(data) \in Nat
      OBVIOUS
    <3> QED BY <3>1, Remainder
  <2> HIDE DEF q
  <2>2. Len(data) + n = BlockSize * (q + 1)
    <3>1. ASSUME NEW b \in Nat \ {0}, NEW k \in Nat PROVE b * (k + 1) = (b * k) + b
      OBVIOUS
    <3>2. BlockSize * (q + 1) = (BlockSize * q) + BlockSize
      BY <2>1, <3>1
    <3>3. ASSUME NEW p \in Nat, NEW r \in Nat, NEW b \in Nat PROVE (p + r) + (b - r) = p + b
      OBVIOUS
    <3>4. Len(data) % BlockSize \in Nat /\ BlockSize * q \in Nat /\ BlockSize \in Nat
      BY <2>1, Remainder
    <3>5. (BlockSize * q + (Len(data) % BlockSize)) + n = (BlockSize * q) + BlockSize
      BY <3>3, <3>4
    <3> QED BY <2>1, <3>2, <3>5, Zenon
  <2>3. (BlockSize * (q + 1)) % BlockSize = 0
    <3>1. q + 1 \in Nat
      BY <2>1
    <3> QED BY <3>1, ProductRemainder
  <2> HIDE DEF n
  <2> QED BY <2>2, <2>3
<1>6. \A i \in 1..Len(data) : Pad(data)[i] = data[i]
  BY <1>2, <1>3
<1>7. \A i \in (Len(data) + 1)..(Len(data) + n) : Pad(data)[i] = n
  BY <1>1, <1>2, <1>3
<1> QED BY <1>1, <1>4, <1>5, <1>6, <1>7

\* pkcs7_unpad returns what was padded, whatever bytes it ends in (crypto.rs:388).
THEOREM UnpadOfPad ==
  ASSUME NEW data \in Seq(Nat)
  PROVE  pkcs7_unpad(Pad(data)) = data
<1> DEFINE n == BlockSize - (Len(data) % BlockSize)
           padded == Pad(data)
<1> HIDE DEF padded
<1>1. /\ n \in 1..BlockSize /\ padded \in Seq(Nat)
      /\ Len(padded) = Len(data) + n /\ Len(padded) % BlockSize = 0
      /\ \A i \in 1..Len(data) : padded[i] = data[i]
      /\ \A i \in (Len(data) + 1)..(Len(data) + n) : padded[i] = n
  BY PaddedLength DEF padded
<1> HIDE DEF n
<1>2. PadLen(padded) = n
  <2>1. Len(padded) = Len(data) + n /\ Len(data) + n \in (Len(data) + 1)..(Len(data) + n)
    BY <1>1
  <2> QED BY <1>1, <2>1 DEF PadLen
<1>3. PaddingBytes(padded)
  BY <1>1, <1>2 DEF PaddingBytes
<1>4. pkcs7_unpad(padded) = SubSeq(padded, 1, Len(data))
  BY <1>1, <1>2, <1>3 DEF pkcs7_unpad
<1>5. SubSeq(padded, 1, Len(data)) = data
  BY <1>1
<1> QED BY <1>4, <1>5 DEF padded

\* What pkcs7_unpad accepts is the padding of what it returns: two plaintexts
\* cannot have the same padded form, nor one plaintext two (crypto.rs:404).
THEOREM PadOfUnpad ==
  ASSUME NEW data \in Seq(Nat), pkcs7_unpad(data) # Failed
  PROVE  Pad(pkcs7_unpad(data)) = data
<1> DEFINE n == PadLen(data)
           plain == SubSeq(data, 1, Len(data) - n)
<1>1. /\ Len(data) # 0 /\ Len(data) % BlockSize = 0
      /\ n \in 1..BlockSize /\ PaddingBytes(data)
      /\ pkcs7_unpad(data) = plain
  BY DEF pkcs7_unpad
<1>2. n <= Len(data)
  <2>1. PICK q \in Nat : Len(data) = BlockSize * q
    <3>1. Len(data) \in Nat /\ Len(data) % BlockSize = 0
      BY <1>1
    <3> QED BY <3>1, Multiple
  <2>2. Len(data) >= BlockSize
    BY <2>1, <1>1
  <2> QED BY <2>2, <1>1
<1> HIDE DEF n
<1>3. plain \in Seq(Nat) /\ Len(plain) = Len(data) - n
  <2>1. Len(data) - n \in Nat /\ Len(data) - n <= Len(data)
    BY <1>1, <1>2
  <2> QED
    BY <2>1
<1>4. BlockSize - (Len(plain) % BlockSize) = n
  <2>1. PICK q \in Nat : Len(data) = BlockSize * q
    <3>1. Len(data) \in Nat /\ Len(data) % BlockSize = 0
      BY <1>1
    <3> QED BY <3>1, Multiple
  <2>2. q >= 1
    BY <2>1, <1>1
  <2>3. Len(plain) = (BlockSize * (q - 1)) + (BlockSize - n)
    BY <2>1, <2>2, <1>1, <1>3
  <2>4. Len(plain) % BlockSize = BlockSize - n
    <3>1. q - 1 \in Nat /\ BlockSize - n \in 0..(BlockSize - 1)
      BY <2>2, <1>1
    <3>2. ((BlockSize * (q - 1)) + (BlockSize - n)) % BlockSize = BlockSize - n
      BY <3>1, UniqueRemainder
    <3> QED BY <2>3, <3>2
  <2> HIDE DEF plain
  <2>5. n \in Nat /\ BlockSize \in Nat
    BY <1>1
  <2> QED BY <2>4, <2>5
<1>5. Pad(plain) = plain \o [i \in 1..n |-> n]
  BY <1>4 DEF Pad
<1>6. \A i \in (Len(data) - n + 1)..Len(data) : data[i] = n
  BY <1>1 DEF PaddingBytes, n
<1>7. plain \o [i \in 1..n |-> n] = data
  <2> DEFINE padding == [i \in 1..n |-> n]
             joined == plain \o padding
  <2>1. padding \in Seq(Nat) /\ Len(padding) = n /\ \A i \in 1..n : padding[i] = n
    BY <1>1
  <2>2. \A i \in 1..Len(plain) : plain[i] = data[i]
    BY <1>1, <1>2, <1>3
  <2> HIDE DEF padding, plain
  <2>3. /\ joined \in Seq(Nat) /\ Len(joined) = Len(plain) + n
        /\ \A i \in 1..Len(plain) : joined[i] = plain[i]
        /\ \A i \in (Len(plain) + 1)..(Len(plain) + n) : joined[i] = padding[i - Len(plain)]
    BY <1>3, <2>1, Concatenation
  <2> HIDE DEF joined
  <2>4. Len(joined) = Len(data) /\ Len(plain) \in Nat /\ n \in Nat
    BY <1>1, <1>2, <1>3, <2>3
  <2>5. ASSUME NEW i \in 1..Len(data) PROVE joined[i] = data[i]
    <3>1. CASE i <= Len(plain)
      BY <3>1, <2>2, <2>3, <2>4
    <3>2. CASE i > Len(plain)
      <4>1. i \in (Len(plain) + 1)..(Len(plain) + n) /\ i - Len(plain) \in 1..n
        BY <3>2, <2>3, <2>4, <1>3
      <4>2. i \in (Len(data) - n + 1)..Len(data)
        BY <4>1, <2>3, <2>4
      <4> QED BY <4>1, <4>2, <2>1, <2>3, <1>6
    <3> QED BY <3>1, <3>2, <2>4
  <2>6. joined = data
    BY <2>3, <2>4, <2>5, SameSequence
  <2> QED BY <2>6 DEF joined, padding
<1> QED BY <1>1, <1>5, <1>7

-----------------------------------------------------------------------------
(***************************************************************************)
(* What a key opens                                                        *)
(***************************************************************************)

\* A cipher string with a MAC that decrypts was made with the MAC key it is
\* decrypted with, and a key without a MAC key opens none (crypto.rs:164-175).
THEOREM MacSound ==
  ASSUME NEW key, NEW other, NEW text, NEW noise,
         decrypt(SealAes(2, key, text), other, noise) # Failed
  PROVE  other.mac_key = key.mac_key /\ other.mac_key # <<>>
<1> DEFINE cs == SealAes(2, key, text)
<1>1. MacMatches(cs, other)
  BY DEF decrypt
<1>2. cs.type = 2 /\ cs.mac = MacOf(key.mac_key, cs.iv, cs.ct)
  BY DEF SealAes
<1>3. other.mac_key # <<>> /\ cs.mac = MacOf(other.mac_key, cs.iv, cs.ct)
  BY <1>1, <1>2 DEF MacMatches
<1> HIDE DEF cs
<1>4. MacOf(other.mac_key, cs.iv, cs.ct).key = MacOf(key.mac_key, cs.iv, cs.ct).key
  BY <1>2, <1>3
<1> QED BY <1>3, <1>4 DEF MacOf

\* The key that a text was sealed with opens it, with a MAC or without one, and
\* yields the very text, whatever its length.
THEOREM OpensWithItsKey ==
  ASSUME NEW type \in AesTypes, NEW key, NEW text \in Seq(Nat), NEW noise,
         Len(key.enc_key) = HalfKey, type = 2 => key.mac_key # <<>>,
         SealAes(type, key, text) # NoString
  PROVE  /\ parse(SealAes(type, key, text)) = SealAes(type, key, text)
         /\ decrypt(SealAes(type, key, text), key, noise) = text
<1> DEFINE cs == SealAes(type, key, text)
<1>1. /\ cs.type = type /\ cs.parts = Parts[type] /\ cs.base64 /\ cs.iv = BlockSize
      /\ cs.ct = [key |-> key.enc_key, bytes |-> Pad(text)]
      /\ type = 2 => cs.mac = MacOf(key.mac_key, cs.iv, cs.ct)
  BY DEF SealAes
<1>2. parse(cs) = cs
  BY <1>1 DEF parse, SealAes
<1>3. /\ Pad(text) \in Seq(Nat) /\ Len(Pad(text)) # 0 /\ Len(Pad(text)) % BlockSize = 0
  <2>1. Len(text) \in Nat
    OBVIOUS
  <2> QED BY <2>1, PaddedLength
<1>4. pkcs7_unpad(Pad(text)) = text
  BY UnpadOfPad
<1>5. MacMatches(cs, key)
  BY <1>1 DEF MacMatches
<1>6. AesCbc(cs.ct, key.enc_key, noise) = Pad(text)
  BY <1>1 DEF AesCbc
<1> HIDE DEF cs
<1>7. decrypt(cs, key, noise) = text
  BY <1>1, <1>3, <1>4, <1>5, <1>6 DEF decrypt
<1> QED BY <1>2, <1>7 DEF cs
=============================================================================
