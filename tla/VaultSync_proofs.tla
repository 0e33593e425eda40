-------------------------- MODULE VaultSync_proofs --------------------------
(***************************************************************************)
(* Theorems about the lookups of VaultSync, for any cache.                 *)
(***************************************************************************)
EXTENDS VaultSync, TLAPS, WellFoundedInduction

LEMMA LeastIsLeast ==
  ASSUME NEW S, S \subseteq Nat, S # {}
  PROVE  Least(S) \in S /\ \A j \in S : Least(S) <= j
<1>1. PICK i \in S : \A j \in S : <<j, i>> \notin OpToRel(<, Nat)
  BY WFMin, NatLessThanWellFounded, Zenon
<1>2. \A j \in S : ~(j < i)
  BY <1>1, Zenon DEF OpToRel
<1>3. \A j \in S : i <= j
  BY <1>2
<1> QED
  BY <1>3 DEF Least

LEMMA GreatestIsGreatest ==
  ASSUME NEW n \in Nat, NEW S, S \subseteq 1..n, S # {}
  PROVE  Greatest(S) \in S /\ \A j \in S : Greatest(S) >= j
<1> DEFINE Bounds == {i \in Nat : \A j \in S : j <= i}
           i == Least(Bounds)
<1>1. Bounds \subseteq Nat /\ n \in Bounds
  OBVIOUS
<1>2. i \in Bounds /\ \A j \in Bounds : i <= j
  BY <1>1, LeastIsLeast
<1> HIDE DEF i
<1>3. i \in Nat /\ \A j \in S : j \in Nat /\ j <= i
  BY <1>2
<1>4. i \in S
  <2> SUFFICES ASSUME i \notin S PROVE FALSE
    OBVIOUS
  <2>1. PICK j \in S : TRUE
    OBVIOUS
  <2>2. i # 0
    BY <1>3, <2>1
  <2>3. i - 1 \in Nat /\ \A k \in S : k <= i - 1
    BY <1>3, <2>2
  <2> QED
    BY <1>2, <1>3, <2>3
<1>5. \A j \in S : i >= j
  BY <1>3
<1> QED
  BY <1>4, <1>5 DEF Greatest

\* find_item returns an item of the scope: the first of the very name in any case,
\* or, if there is none, the first whose name the wanted one is a part of
\* (sync.rs:380-405).
THEOREM FirstMatchFound ==
  ASSUME NEW items, DOMAIN items \subseteq Nat, NEW name, NEW org, NEW error, error # "none",
         find_item(items, name, org, error).error = "none"
  PROVE  \E i \in DOMAIN items :
           /\ find_item(items, name, org, error).item = items[i]
           /\ InScope(items[i], org)
           /\ \/ /\ IsNamed(items[i], name)
                 /\ \A j \in DOMAIN items :
                      InScope(items[j], org) /\ IsNamed(items[j], name) => i <= j
              \/ /\ Mentions(items[i], name)
                 /\ \A j \in DOMAIN items : InScope(items[j], org) =>
                      ~IsNamed(items[j], name) /\ (Mentions(items[j], name) => i <= j)
<1> DEFINE candidates == Candidates(items, name, org)
           i == Least(candidates)
<1>1. /\ candidates # {}
      /\ find_item(items, name, org, error).item = items[i]
  BY DEF find_item, Missed, Found
<1>2. candidates \subseteq DOMAIN items
  BY DEF Candidates
<1>3. i \in candidates /\ \A j \in candidates : i <= j
  BY <1>1, <1>2, LeastIsLeast
<1> HIDE DEF i
<1> QED
  BY <1>1, <1>2, <1>3 DEF Candidates

\* A lookup with a vault answers with an item of the one organization of that name,
\* never with one of the personal vault or of another organization, whatever the
\* cache holds (lookup_item, sync.rs:414).
THEOREM LookupStaysInVault ==
  ASSUME NEW items, NEW orgs_by_name, NEW cache, NEW name, NEW vault,
         cache.items = items, cache.orgs_by_name = orgs_by_name, DOMAIN items \subseteq Nat,
         \A key \in DOMAIN orgs_by_name : orgs_by_name[key] # {} /\ NoOrg \notin orgs_by_name[key],
         vault # <<>>, lookup_item(cache, name, vault).error = "none"
  PROVE  \E i \in DOMAIN items :
           /\ lookup_item(cache, name, vault).item = items[i]
           /\ Lower(vault) \in DOMAIN orgs_by_name
           /\ orgs_by_name[Lower(vault)] = {items[i].organization}
<1> DEFINE key == Lower(vault)
           org == CHOOSE o \in orgs_by_name[key] : TRUE
<1> HIDE DEF key
<1>1. /\ key \in DOMAIN orgs_by_name
      /\ \A o, p \in orgs_by_name[key] : o = p
      /\ lookup_item(cache, name, vault) = find_item(items, name, org, "NotFoundInVault")
  BY DEF lookup_item, Missed, key
<1>2. orgs_by_name[key] = {org} /\ org # NoOrg
  BY <1>1
<1> HIDE DEF org
<1>3. PICK i \in DOMAIN items :
        /\ find_item(items, name, org, "NotFoundInVault").item = items[i]
        /\ InScope(items[i], org)
  BY <1>1, FirstMatchFound
<1>4. items[i].organization = org
  BY <1>2, <1>3 DEF InScope
<1> QED
  BY <1>1, <1>2, <1>3, <1>4 DEF key

LEMMA Joined ==
  ASSUME NEW X, NEW s \in Seq(X), NEW t \in Seq(X)
  PROVE  /\ s \o t \in Seq(X) /\ Len(s \o t) = Len(s) + Len(t)
         /\ \A i \in 1..Len(s) : (s \o t)[i] = s[i]
         /\ \A i \in 1..Len(t) : (s \o t)[Len(s) + i] = t[i]
OBVIOUS

\* extract_secret returns the password, or else the first of the named fields, or else
\* the notes, or else some other field: none of them when it is empty, and the empty
\* string when there is nothing else (sync.rs:452-476).
THEOREM FirstPartTaken ==
  ASSUME NEW item, NEW n \in Nat, DOMAIN SecretFields = 1..n,
         NEW order, NEW m \in Nat, DOMAIN order = 1..m
  PROVE  LET value == extract_secret(item, order)
             named(r) == FieldValue(item, SecretFields[r])
             other(i) == FieldValue(item, order[i])
         IN  \/ value # <<>> /\ value = item.password
             \/ /\ value # <<>> /\ item.password = <<>>
                /\ \E r \in 1..n : value = named(r) /\ \A q \in 1..n : q < r => named(q) = <<>>
             \/ /\ item.password = <<>> /\ \A r \in 1..n : named(r) = <<>>
                /\ \/ value # <<>> /\ value = item.notes
                   \/ /\ value # <<>> /\ item.notes = <<>>
                      /\ \E i \in 1..m : value = other(i)
                   \/ /\ value = <<>> /\ item.notes = <<>>
                      /\ \A i \in 1..m : other(i) = <<>>
<1> DEFINE sources == Sources(item, order)
           filled == {j \in DOMAIN sources : sources[j] # <<>>}
           value == extract_secret(item, order)
<1>0. PICK k \in Nat : k = n + 2
  OBVIOUS
<1>1. /\ DOMAIN sources = 1..(k + m)
      /\ sources[1] = item.password
      /\ \A r \in 1..n : sources[1 + r] = FieldValue(item, SecretFields[r])
      /\ sources[k] = item.notes
      /\ \A i \in 1..m : sources[k + i] = FieldValue(item, order[i])
  <2> DEFINE X == {item.password, item.notes, <<>>} \cup {item.fields[name] : name \in DOMAIN item.fields}
  <2>0. item.password \in X /\ item.notes \in X /\ \A name : FieldValue(item, name) \in X
    BY DEF FieldValue
  <2> HIDE DEF X
  <2> DEFINE named == [r \in DOMAIN SecretFields |-> FieldValue(item, SecretFields[r])]
             others == [i \in DOMAIN order |-> FieldValue(item, order[i])]
             first == <<item.password>> \o named
             second == first \o <<item.notes>>
             third == second \o others
  <2>1. /\ named \in Seq(X) /\ Len(named) = n
        /\ \A r \in 1..n : named[r] = FieldValue(item, SecretFields[r])
    BY <2>0
  <2>2. /\ others \in Seq(X) /\ Len(others) = m
        /\ \A i \in 1..m : others[i] = FieldValue(item, order[i])
    BY <2>0
  <2>3. /\ <<item.password>> \in Seq(X) /\ Len(<<item.password>>) = 1
        /\ <<item.notes>> \in Seq(X) /\ Len(<<item.notes>>) = 1
    BY <2>0
  <2>4. Sources(item, order) = third
    BY DEF Sources
  <2> HIDE DEF named, others
  <2>5. /\ first \in Seq(X) /\ Len(first) = 1 + n /\ first[1] = item.password
        /\ \A r \in 1..n : first[1 + r] = named[r]
    BY <2>1, <2>3, Joined
  <2> HIDE DEF first
  <2>6. /\ second \in Seq(X) /\ Len(second) = k
        /\ \A i \in 1..(1 + n) : second[i] = first[i]
        /\ second[k] = item.notes
    <3> DEFINE tail == <<item.notes>>
    <3>1. tail \in Seq(X) /\ Len(tail) = 1 /\ tail[1] = item.notes
      BY <2>3
    <3> HIDE DEF tail
    <3>2. /\ first \o tail \in Seq(X) /\ Len(first \o tail) = Len(first) + Len(tail)
          /\ \A i \in 1..Len(first) : (first \o tail)[i] = first[i]
          /\ \A i \in 1..Len(tail) : (first \o tail)[Len(first) + i] = tail[i]
      <4>1. first \in Seq(X) /\ tail \in Seq(X)
        BY <2>5, <3>1
      <4> QED
        BY <4>1, Joined
    <3>3. second = first \o tail
      BY DEF tail
    <3> HIDE DEF second
    <3>4. second[k] = item.notes
      <4>1. 1 \in 1..Len(tail) /\ Len(first) + 1 = k
        BY <1>0, <2>5, <3>1
      <4> QED
        BY <3>1, <3>2, <3>3, <4>1
    <3> QED
      BY <1>0, <2>5, <3>1, <3>2, <3>3, <3>4
  <2> HIDE DEF second
  <2>7. /\ third \in Seq(X) /\ Len(third) = k + m
        /\ \A i \in 1..k : third[i] = second[i]
        /\ \A i \in 1..m : third[k + i] = others[i]
    <3>1. /\ third \in Seq(X) /\ Len(third) = Len(second) + Len(others)
          /\ \A i \in 1..Len(second) : third[i] = second[i]
          /\ \A i \in 1..Len(others) : third[Len(second) + i] = others[i]
      <4>1. second \in Seq(X) /\ others \in Seq(X)
        BY <2>2, <2>6
      <4> QED
        BY <4>1, Joined
    <3> QED
      BY <2>2, <2>6, <3>1
  <2> HIDE DEF third
  <2>8. third[1] = item.password
    <3>1. 1 \in 1..k /\ 1 \in 1..(1 + n)
      BY <1>0
    <3> QED
      BY <2>5, <2>6, <2>7, <3>1
  <2>9. \A r \in 1..n : third[1 + r] = FieldValue(item, SecretFields[r])
    <3> TAKE r \in 1..n
    <3>1. 1 + r \in 1..k /\ 1 + r \in 1..(1 + n)
      BY <1>0
    <3> QED
      BY <2>1, <2>5, <2>6, <2>7, <3>1
  <2>10. third[k] = item.notes
    <3>1. k \in 1..k
      BY <1>0
    <3> QED
      BY <2>6, <2>7, <3>1
  <2>11. \A i \in 1..m : third[k + i] = FieldValue(item, order[i])
    BY <2>2, <2>7
  <2>12. DOMAIN third = 1..(k + m)
    BY <2>7
  <2> QED
    BY <2>4, <2>8, <2>9, <2>10, <2>11, <2>12
<1>2. value = IF filled = {} THEN <<>> ELSE sources[Least(filled)]
  BY DEF extract_secret
<1>3. filled \subseteq Nat /\ \A j \in 1..(k + m) : j \notin filled => sources[j] = <<>>
  BY <1>1
<1>4. CASE filled = {}
  <2>1. \A j \in 1..(k + m) : sources[j] = <<>>
    BY <1>3, <1>4
  <2>2. /\ \A r \in 1..n : 1 + r \in 1..(k + m)
        /\ \A i \in 1..m : k + i \in 1..(k + m)
        /\ 1 \in 1..(k + m) /\ k \in 1..(k + m)
    BY <1>0
  <2> HIDE DEF sources
  <2> QED
    BY <1>1, <1>2, <1>4, <2>1, <2>2
<1>5. CASE filled # {}
  <2> DEFINE j == Least(filled)
  <2>1. j \in filled /\ \A i \in filled : j <= i
    BY <1>3, <1>5, LeastIsLeast
  <2>2. value = sources[j]
    BY <1>2, <1>5
  <2> HIDE DEF j
  <2>3. value # <<>> /\ j \in 1..(k + m)
    BY <1>1, <2>1, <2>2
  <2>4. \A i \in 1..(k + m) : i < j => sources[i] = <<>>
    BY <1>3, <2>1, <2>3
  <2> HIDE DEF filled, sources
  <2>5. CASE j = 1
    BY <1>1, <2>2, <2>3, <2>5
  <2>6. CASE j \in 2..(n + 1)
    <3> DEFINE r == j - 1
    <3>1. r \in 1..n /\ 1 + r = j
      BY <2>6
    <3>2. value = FieldValue(item, SecretFields[r])
      BY <1>1, <2>2, <3>1
    <3>3. item.password = <<>>
      <4>1. 1 \in 1..(k + m) /\ 1 < j
        BY <1>0, <2>6
      <4> QED
        BY <1>1, <2>4, <4>1
    <3>4. ASSUME NEW q \in 1..n, q < r PROVE FieldValue(item, SecretFields[q]) = <<>>
      <4>1. 1 + q \in 1..(k + m) /\ 1 + q < j
        BY <1>0, <3>1, <3>4
      <4> QED
        BY <1>1, <2>4, <4>1
    <3> HIDE DEF value, r
    <3> QED
      BY <2>3, <3>1, <3>2, <3>3, <3>4 DEF value
  <2>7. CASE j >= k
    <3>1. item.password = <<>>
      <4>1. 1 \in 1..(k + m) /\ 1 < j
        BY <1>0, <2>3, <2>7
      <4> QED
        BY <1>1, <2>4, <4>1
    <3>2. ASSUME NEW r \in 1..n PROVE FieldValue(item, SecretFields[r]) = <<>>
      <4>1. 1 + r \in 1..(k + m) /\ 1 + r < j
        BY <1>0, <2>3, <2>7
      <4> QED
        BY <1>1, <2>4, <4>1
    <3>3. CASE j = k
      BY <1>1, <2>2, <2>3, <3>1, <3>2, <3>3
    <3>4. CASE j > k
      <4> DEFINE i == j - k
      <4>1. i \in 1..m /\ k + i = j
        BY <2>3, <3>4
      <4>2. value = FieldValue(item, order[i])
        BY <1>1, <2>2, <4>1
      <4>3. item.notes = <<>>
        <5>1. k \in 1..(k + m) /\ k < j
          BY <1>0, <3>4
        <5> QED
          BY <1>1, <2>4, <5>1
      <4> HIDE DEF i, value
      <4> QED
        BY <2>3, <3>1, <3>2, <4>1, <4>2, <4>3 DEF value
    <3> QED
      BY <2>3, <2>7, <3>3, <3>4
  <2> QED
    BY <1>0, <2>3, <2>5, <2>6, <2>7
<1> QED
  BY <1>4, <1>5

\* What is found is no item without a name.
LEMMA NamedItem ==
  ASSUME NEW name \in Seq(Nat), name # <<>>, NEW item,
         IsNamed(item, name) \/ Mentions(item, name)
  PROVE  item.name # <<>>
<1>1. Lower(<<>>) = <<>>
  BY DEF Lower
<1>2. 1 \in DOMAIN name /\ DOMAIN Lower(name) = DOMAIN name /\ DOMAIN <<>> = {}
  <2>1. 1 \in DOMAIN name
    OBVIOUS
  <2>2. DOMAIN Lower(name) = DOMAIN name
    BY DEF Lower
  <2> QED
    BY <2>1, <2>2
<1>3. Lower(name) # <<>>
  BY <1>2
<1> SUFFICES ASSUME item.name = <<>> PROVE FALSE
  OBVIOUS
<1> QED
  BY <1>1, <1>3 DEF IsNamed, Mentions, Part

LEMMA FindItem ==
  ASSUME NEW items, DOMAIN items \subseteq Nat, NEW name, NEW org, NEW error, error # "none"
  PROVE  LET candidates == Candidates(items, name, org)
             answer == find_item(items, name, org, error)
         IN  /\ candidates = {} => answer = Missed(error)
             /\ answer.error = "none" =>
                  candidates # {} /\ answer.item = items[Least(candidates)] /\ Least(candidates) \in candidates
             /\ candidates \subseteq {n \in DOMAIN items :
                  InScope(items[n], org) /\ (IsNamed(items[n], name) \/ Mentions(items[n], name))}
<1> DEFINE candidates == Candidates(items, name, org)
<1>1. candidates \subseteq {n \in DOMAIN items :
        InScope(items[n], org) /\ (IsNamed(items[n], name) \/ Mentions(items[n], name))}
  BY DEF Candidates
<1> HIDE DEF candidates
<1>2. candidates # {} => Least(candidates) \in candidates
  BY <1>1, LeastIsLeast
<1>3. find_item(items, name, org, error) =
        IF candidates = {} THEN Missed(error) ELSE Found(items[Least(candidates)])
  BY DEF find_item, candidates
<1>4. Missed(error).error = error /\ Found(items[Least(candidates)]).item = items[Least(candidates)]
  BY DEF Missed, Found
<1> QED
  BY <1>1, <1>2, <1>3, <1>4 DEF candidates

\* try_fetch_secrets has a value for every request, or the first of the errors.
LEMMA AllFetched ==
  ASSUME NEW cached, NEW requests, DOMAIN requests \subseteq Nat
  PROVE  LET answer(i) == lookup_item(cached, requests[i].name, requests[i].vault)
             fetched == try_fetch_secrets(cached, requests)
         IN  /\ fetched.error = "none" <=> \A i \in DOMAIN requests : answer(i).error = "none"
             /\ fetched.error = "none" =>
                  /\ DOMAIN fetched.values = DOMAIN requests
                  /\ \A i \in DOMAIN requests :
                       fetched.values[i] = extract_secret(answer(i).item, cached.order)
             /\ 1 \in DOMAIN requests /\ 0 \notin DOMAIN requests /\ answer(1).error # "none"
                  => fetched.error = answer(1).error
<1> DEFINE answer(i) == lookup_item(cached, requests[i].name, requests[i].vault)
           fetched == try_fetch_secrets(cached, requests)
           missed == {i \in DOMAIN requests : answer(i).error # "none"}
           values == [i \in DOMAIN requests |-> extract_secret(answer(i).item, cached.order)]
<1>1. fetched = IF missed # {} THEN Missed(answer(Least(missed)).error)
                ELSE [error |-> "none", values |-> values]
  BY DEF try_fetch_secrets
<1>2. missed # {} => Least(missed) \in missed /\ \A j \in missed : Least(missed) <= j
  BY LeastIsLeast
<1> HIDE DEF answer, fetched, values
<1>3. missed # {} => fetched.error = answer(Least(missed)).error /\ fetched.error # "none"
  BY <1>1, <1>2 DEF Missed
<1>4. missed = {} => fetched.error = "none" /\ fetched.values = values
  BY <1>1
<1>5. 1 \in missed /\ 0 \notin DOMAIN requests => Least(missed) = 1
  <2> HAVE 1 \in missed /\ 0 \notin DOMAIN requests
  <2>1. Least(missed) \in Nat /\ Least(missed) # 0 /\ Least(missed) <= 1
    BY <1>2
  <2> QED
    BY <2>1
<1>6. /\ DOMAIN values = DOMAIN requests
      /\ \A i \in DOMAIN requests : values[i] = extract_secret(answer(i).item, cached.order)
  BY DEF values
<1> HIDE DEF missed
<1>7. missed = {} <=> \A i \in DOMAIN requests : answer(i).error = "none"
  BY DEF missed
<1>8. 1 \in DOMAIN requests /\ answer(1).error # "none" => 1 \in missed /\ missed # {}
  BY DEF missed
<1> QED
  BY <1>3, <1>4, <1>5, <1>6, <1>7, <1>8 DEF answer, fetched
=============================================================================
