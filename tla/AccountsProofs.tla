--------------------------- MODULE AccountsProofs ---------------------------
(***************************************************************************)
(* Type correctness and the invariants of Accounts, for any ids, addresses *)
(* and scopes. An operation stores or removes accounts, changes the        *)
(* selection, and is noticed by open scopes: there is a lemma for each of  *)
(* these effects, and the operations are put together from them.           *)
(***************************************************************************)
EXTENDS Accounts, SequenceTheorems, WellFoundedInduction, TLAPS

-----------------------------------------------------------------------------
(* Sequences without repetitions.                                          *)

LEMMA Shift ==
  ASSUME NEW l \in Nat, NEW p \in 1..l, NEW x \in 1..(l - 1), NEW y,
         y = IF x < p THEN x ELSE x + 1
  PROVE  y \in 1..l /\ y # p
<1>1. CASE x < p
  BY <1>1
<1>2. CASE x >= p
  BY <1>2
<1> QED
  BY <1>1, <1>2

LEMMA RemoveAtFacts ==
  ASSUME NEW S, NEW s \in Seq(S), IsInjective(s), NEW e \in ToSet(s),
         NEW p \in DOMAIN s, s[p] = e
  PROVE  /\ p \in 1..Len(s) /\ s[p] = e
         /\ RemoveAt(s, p) \in Seq(S) /\ Len(RemoveAt(s, p)) = Len(s) - 1
         /\ \A n \in 1..(Len(s) - 1) : RemoveAt(s, p)[n] = IF n < p THEN s[n] ELSE s[n + 1]
         /\ IsInjective(RemoveAt(s, p)) /\ ToSet(RemoveAt(s, p)) = ToSet(s) \ {e}
<1> DEFINE r == RemoveAt(s, p)
<1>1. Len(s) \in Nat /\ DOMAIN s = 1..Len(s) /\ \A n \in 1..Len(s) : s[n] \in S
  BY LenProperties, ElementOfSeq
<1>2. p \in 1..Len(s) /\ s[p] = e
  BY <1>1
<1> DEFINE u == SubSeq(s, 1, p - 1)
           v == SubSeq(s, p + 1, Len(s))
<1>3. u \in Seq(S) /\ Len(u) = p - 1 /\ \A n \in 1..(p - 1) : u[n] = s[n]
  <2>1. \A n \in 1..(p - 1) : s[n] \in S
    BY <1>1, <1>2
  <2>2. /\ u \in Seq(S) /\ Len(u) = IF 1 <= p - 1 THEN (p - 1) - 1 + 1 ELSE 0
        /\ \A n \in 1..((p - 1) - 1 + 1) : u[n] = s[1 + n - 1]
    BY <2>1, <1>2, SubSeqProperties
  <2> QED
    BY <2>2, <1>2
<1>4. v \in Seq(S) /\ Len(v) = Len(s) - p /\ \A n \in 1..(Len(s) - p) : v[n] = s[p + n]
  <2>1. \A n \in (p + 1)..Len(s) : s[n] \in S
    BY <1>1, <1>2
  <2>2. /\ v \in Seq(S) /\ Len(v) = IF p + 1 <= Len(s) THEN Len(s) - (p + 1) + 1 ELSE 0
        /\ \A n \in 1..(Len(s) - (p + 1) + 1) : v[n] = s[(p + 1) + n - 1]
    BY <2>1, <1>1, <1>2, SubSeqProperties
  <2>3. \A n \in 1..(Len(s) - p) : n \in 1..(Len(s) - (p + 1) + 1) /\ (p + 1) + n - 1 = p + n
    BY <1>1, <1>2
  <2>4. Len(v) = Len(s) - p
    BY <2>2, <1>1, <1>2
  <2> QED
    BY <2>2, <2>3, <2>4
<1>a. r = u \o v
  BY DEF RemoveAt
<1> HIDE DEF u, v, r
<1>5. r \in Seq(S) /\ Len(r) = Len(s) - 1
      /\ \A n \in 1..(Len(s) - 1) : r[n] = IF n < p THEN s[n] ELSE s[n + 1]
  <2>2. /\ r \in Seq(S) /\ Len(r) = (p - 1) + (Len(s) - p)
        /\ \A n \in 1..((p - 1) + (Len(s) - p)) : r[n] = IF n <= p - 1 THEN u[n] ELSE v[n - (p - 1)]
    <3>1. /\ u \o v \in Seq(S) /\ Len(u \o v) = Len(u) + Len(v)
          /\ \A n \in 1..(Len(u) + Len(v)) : (u \o v)[n] = IF n <= Len(u) THEN u[n] ELSE v[n - Len(u)]
      <4>1. u \in Seq(S) /\ v \in Seq(S)
        BY <1>3, <1>4
      <4> QED
        BY <4>1, ConcatProperties
    <3> QED
      BY <3>1, <1>a, <1>3, <1>4
  <2>3. Len(r) = Len(s) - 1
    BY <2>2, <1>1, <1>2
  <2>4. ASSUME NEW n \in 1..(Len(s) - 1) PROVE r[n] = IF n < p THEN s[n] ELSE s[n + 1]
    <3>1. r[n] = IF n <= p - 1 THEN u[n] ELSE v[n - (p - 1)]
      BY <2>2, <1>1, <1>2
    <3>2. CASE n < p
      BY <3>1, <3>2, <1>1, <1>2, <1>3
    <3>3. CASE n >= p
      <4>1. n - (p - 1) \in 1..(Len(s) - p) /\ p + (n - (p - 1)) = n + 1
        BY <3>3, <1>1, <1>2
      <4>2. v[n - (p - 1)] = s[p + (n - (p - 1))]
        BY <4>1, <1>4
      <4> QED
        BY <4>1, <4>2, <3>1, <3>3, <1>1, <1>2
    <3> QED
      BY <3>2, <3>3, <1>1, <1>2
  <2> QED
    BY <2>2, <2>3, <2>4
<1>6. DOMAIN r = 1..(Len(s) - 1)
  BY <1>5, LenProperties
<1> DEFINE at(x) == IF x < p THEN x ELSE x + 1
<1>b. \A x \in 1..(Len(s) - 1) : at(x) \in 1..Len(s) /\ at(x) # p /\ r[x] = s[at(x)]
  <2>1. SUFFICES ASSUME NEW x \in 1..(Len(s) - 1)
                 PROVE  at(x) \in 1..Len(s) /\ at(x) # p /\ r[x] = s[at(x)]
    OBVIOUS
  <2>2. r[x] = IF x < p THEN s[x] ELSE s[x + 1]
    BY <1>5
  <2>3. at(x) \in 1..Len(s) /\ at(x) # p
    <3>1. Len(s) \in Nat /\ p \in 1..Len(s)
      BY <1>1, <1>2
    <3> QED
      BY <3>1, Shift
  <2> QED
    BY <2>2, <2>3
<1>7. IsInjective(r)
  <2>1. SUFFICES ASSUME NEW m \in 1..(Len(s) - 1), NEW n \in 1..(Len(s) - 1), r[m] = r[n]
                 PROVE  m = n
    BY <1>6 DEF IsInjective
  <2>2. at(m) = at(n)
    BY <2>1, <1>b, <1>1 DEF IsInjective
  <2> QED
    BY <2>2, <1>1, <1>2
<1>8. ToSet(r) = ToSet(s) \ {e}
  <2>1. ASSUME NEW x \in ToSet(r) PROVE x \in ToSet(s) \ {e}
    <3>1. PICK n \in 1..(Len(s) - 1) : x = r[n]
      BY <1>6 DEF ToSet
    <3>2. at(n) \in 1..Len(s) /\ at(n) # p /\ x = s[at(n)]
      BY <3>1, <1>b
    <3> HIDE DEF at
    <3> QED
      BY <3>2, <1>1, <1>2 DEF ToSet, IsInjective
  <2>2. ASSUME NEW x \in ToSet(s) \ {e} PROVE x \in ToSet(r)
    <3>1. PICK m \in 1..Len(s) : x = s[m] /\ m # p
      BY <1>1, <1>2 DEF ToSet
    <3>2. PICK n \in 1..(Len(s) - 1) : x = r[n]
      <4>1. CASE m < p
        BY <4>1, <3>1, <1>1, <1>2, <1>5
      <4>2. CASE m > p
        <5>1. m - 1 \in 1..(Len(s) - 1) /\ ~(m - 1 < p) /\ (m - 1) + 1 = m
          BY <4>2, <3>1, <1>1, <1>2
        <5>2. r[m - 1] = s[m]
          BY <5>1, <1>5
        <5> QED
          BY <5>1, <5>2, <3>1
      <4> QED
        BY <4>1, <4>2, <3>1, <1>1, <1>2
    <3> QED
      BY <3>2, <1>6 DEF ToSet
  <2> QED
    BY <2>1, <2>2
<1> QED
  BY <1>2, <1>5, <1>7, <1>8 DEF r

LEMMA AppendFacts ==
  ASSUME NEW S, NEW s \in Seq(S), IsInjective(s), NEW e \in S, e \notin ToSet(s)
  PROVE  /\ Append(s, e) \in Seq(S) /\ IsInjective(Append(s, e))
         /\ ToSet(Append(s, e)) = ToSet(s) \cup {e}
         /\ Len(Append(s, e)) = Len(s) + 1 /\ Append(s, e)[Len(s) + 1] = e
         /\ \A n \in 1..Len(s) : Append(s, e)[n] = s[n]
<1>1. Len(s) \in Nat /\ DOMAIN s = 1..Len(s) /\ \A n \in 1..Len(s) : s[n] \in S
  BY LenProperties, ElementOfSeq
<1>2. /\ Append(s, e) \in Seq(S) /\ Len(Append(s, e)) = Len(s) + 1
      /\ DOMAIN Append(s, e) = 1..(Len(s) + 1) /\ Append(s, e)[Len(s) + 1] = e
      /\ \A n \in 1..Len(s) : Append(s, e)[n] = s[n]
  BY <1>1
<1>3. \A n \in 1..Len(s) : s[n] # e
  BY <1>1 DEF ToSet
<1>4. IsInjective(Append(s, e))
  BY <1>1, <1>2, <1>3 DEF IsInjective
<1>5. ToSet(Append(s, e)) = ToSet(s) \cup {e}
  BY <1>1, <1>2 DEF ToSet
<1> QED
  BY <1>2, <1>4, <1>5

LEMMA ToSetFacts ==
  ASSUME NEW S, NEW s \in Seq(S)
  PROVE  /\ \A n \in 1..Len(s) : s[n] \in ToSet(s)
         /\ ToSet(s) \subseteq S
         /\ s # <<>> => Head(s) \in ToSet(s) /\ Len(s) \in 1..Len(s)
         /\ s = <<>> <=> Len(s) = 0
         /\ s = <<>> => ToSet(s) = {}
<1>1. Len(s) \in Nat /\ DOMAIN s = 1..Len(s) /\ \A n \in 1..Len(s) : s[n] \in S
  BY LenProperties, ElementOfSeq
<1>2. s = <<>> <=> Len(s) = 0
  BY <1>1, EmptySeq
<1>3. s # <<>> => Head(s) = s[1]
  BY <1>1, <1>2
<1> QED
  BY <1>1, <1>2, <1>3 DEF ToSet

-----------------------------------------------------------------------------
(* The inductive invariant.                                                *)

\* An address that is not astray leads to an account that has it, if there is one.
IndexAgrees ==
  \A a \in Address \ astray :
    /\ idByAddress[a] # None => idByAddress[a] \in Id /\ address[idByAddress[a]] = a
    /\ \A i \in Id : address[i] = a => idByAddress[a] # None

\* An account that has an address for its id has that address.
OwnAddress == \A i \in Id : i \in Address => address[i] \in {i, None}

\* The scopes that are open are those in the list.
ScopesOK == /\ IsInjective(scopes)
            /\ \A k \in Scope : scope[k].pc = "open" <=> k \in ToSet(scopes)

\* Every scope restores what the one around it activated, and the outermost what was
\* selected; the innermost one's account is active.
Chain ==
  ~disturbed =>
    /\ Restorable(Registered)
    /\ \A n \in 1..Len(scopes) :
         scope[scopes[n]].previous = IF n = 1 THEN home ELSE scope[scopes[n - 1]].target
    /\ ScopedSelection

Inv == /\ TypeOK /\ IndexAgrees /\ OwnAddress /\ ActiveIsRegistered /\ ListenersKnow
       /\ ScopesOK /\ Chain

\* What TypeOK says of the registry.
RegistryOK == /\ order \in Seq(Id) /\ IsInjective(order)
              /\ address \in [Id -> Address \cup {None}]
              /\ \A i \in Id : i \in Registered <=> address[i] # None
              /\ idByAddress \in [Address -> Id \cup {None}] /\ astray \subseteq Address

-----------------------------------------------------------------------------
(* The effects on the registry.                                            *)

LEMMA ResolveFacts ==
  ASSUME TypeOK, NEW ref \in Ref
  PROVE  resolve(ref) \in Registered \cup {None} /\ resolve(ref) \in Id \cup {None}
         /\ (ref \in Registered => resolve(ref) = ref)
<1>1. Registered \subseteq Id
  BY ToSetFacts DEF TypeOK, Registered
<1> QED
  BY <1>1 DEF resolve

LEMMA StoreFacts ==
  ASSUME TypeOK, IndexAgrees, OwnAddress, NEW i \in Id, NEW a \in Address,
         i \in Address => i = a, store(i, a)
  PROVE  RegistryOK' /\ IndexAgrees' /\ OwnAddress' /\ Registered' = Registered \cup {i}
<1> USE AccountsAssumption
<1>1. order' \in Seq(Id) /\ IsInjective(order') /\ Registered' = Registered \cup {i}
  <2>1. CASE i \in Registered
    BY <2>1 DEF TypeOK, store, Registered
  <2>2. CASE i \notin Registered
    <3>1. order' = Append(order, i)
      BY <2>2 DEF store
    <3> QED
      BY <2>2, <3>1, AppendFacts DEF TypeOK, Registered
  <2> QED
    BY <2>1, <2>2
<1>2. address' = [address EXCEPT ![i] = a] /\ address' \in [Id -> Address \cup {None}]
  BY DEF TypeOK, store
<1>3. \A j \in Id : j \in Registered' <=> address'[j] # None
  BY <1>1, <1>2 DEF TypeOK
<1>4. /\ idByAddress' = [idByAddress EXCEPT ![a] = i]
      /\ idByAddress' \in [Address -> Id \cup {None}] /\ astray' = (astray \cup Left(i, a)) \ {a}
      /\ astray' \subseteq Address
  BY DEF TypeOK, store, Left
<1>5. OwnAddress'
  BY <1>2 DEF OwnAddress, TypeOK
<1>6. IndexAgrees'
  <2>1. SUFFICES ASSUME NEW b \in Address, b \notin astray'
                 PROVE  /\ idByAddress'[b] # None => idByAddress'[b] \in Id /\ address'[idByAddress'[b]] = b
                        /\ \A j \in Id : address'[j] = b => idByAddress'[b] # None
    BY DEF IndexAgrees
  <2>2. CASE b = a
    BY <2>2, <1>2, <1>4 DEF TypeOK
  <2>3. CASE b # a
    <3>1. b \notin astray /\ b \notin Left(i, a) /\ idByAddress'[b] = idByAddress[b]
      BY <2>1, <2>3, <1>4 DEF TypeOK
    <3>2. \A j \in Id \ {i} : address'[j] = address[j]
      BY <1>2 DEF TypeOK
    <3>3. address'[i] = a
      BY <1>2 DEF TypeOK
    <3>4. idByAddress[b] # None => idByAddress[b] \in Id /\ address[idByAddress[b]] = b
      BY <3>1 DEF IndexAgrees
    <3>5. \A j \in Id : address[j] = b => idByAddress[b] # None
      BY <3>1 DEF IndexAgrees
    <3>6. idByAddress[b] = i => address[i] # b
      <4>1. i \in Registered <=> address[i] # None
        BY DEF TypeOK
      <4> QED
        BY <4>1, <3>1, <2>3 DEF Left
    <3> QED
      BY <2>3, <3>1, <3>2, <3>3, <3>4, <3>5, <3>6
  <2> QED
    BY <2>2, <2>3
<1> QED
  BY <1>1, <1>2, <1>3, <1>4, <1>5, <1>6 DEF RegistryOK

\* The part of remove and clear that concerns the registry.
Forget(i) == /\ order' = RemoveAt(order, CHOOSE n \in DOMAIN order : order[n] = i)
             /\ address' = [address EXCEPT ![i] = None] /\ idByAddress' = Unindexed(i)
             /\ astray' = astray \cup Shared(i)

LEMMA ForgetFacts ==
  ASSUME TypeOK, IndexAgrees, OwnAddress, NEW i \in Registered, Forget(i)
  PROVE  RegistryOK' /\ IndexAgrees' /\ OwnAddress' /\ Registered' = Registered \ {i}
<1> USE AccountsAssumption
<1>1. i \in Id /\ address[i] \in Address /\ address[i] # None
  BY ToSetFacts DEF TypeOK, Registered
<1>2. order' \in Seq(Id) /\ IsInjective(order') /\ Registered' = Registered \ {i}
  <2> DEFINE p == CHOOSE n \in DOMAIN order : order[n] = i
  <2>1. p \in DOMAIN order /\ order[p] = i /\ order' = RemoveAt(order, p)
    BY DEF Forget, Registered, ToSet
  <2> HIDE DEF p
  <2>2. i \in ToSet(order) /\ order \in Seq(Id) /\ IsInjective(order)
    BY DEF TypeOK, Registered
  <2>3. RemoveAt(order, p) \in Seq(Id) /\ IsInjective(RemoveAt(order, p))
        /\ ToSet(RemoveAt(order, p)) = ToSet(order) \ {i}
    BY <2>1, <2>2, RemoveAtFacts
  <2> QED
    BY <2>1, <2>3 DEF Registered
<1>3. address' = [address EXCEPT ![i] = None] /\ address' \in [Id -> Address \cup {None}]
  BY DEF TypeOK, Forget
<1>4. \A j \in Id : j \in Registered' <=> address'[j] # None
  BY <1>1, <1>2, <1>3 DEF TypeOK
<1>5. idByAddress' \in [Address -> Id \cup {None}] /\ astray' \subseteq Address
  BY <1>1 DEF TypeOK, Forget, Unindexed, Shared
<1>6. OwnAddress'
  BY <1>1, <1>3 DEF OwnAddress, TypeOK
<1>7. IndexAgrees'
  <2>1. SUFFICES ASSUME NEW b \in Address, b \notin astray'
                 PROVE  /\ idByAddress'[b] # None => idByAddress'[b] \in Id /\ address'[idByAddress'[b]] = b
                        /\ \A j \in Id : address'[j] = b => idByAddress'[b] # None
    BY DEF IndexAgrees
  <2>2. b \notin astray /\ b \notin Shared(i)
    BY <2>1 DEF Forget
  <2>3. idByAddress[b] # None => idByAddress[b] \in Id /\ address[idByAddress[b]] = b
    BY <2>2 DEF IndexAgrees
  <2>4. \A j \in Id : address[j] = b => idByAddress[b] # None
    BY <2>2 DEF IndexAgrees
  <2>5. \A j \in Id \ {i} : address'[j] = address[j]
    BY <1>3 DEF TypeOK
  <2>6. address'[i] = None /\ b # None
    BY <1>1, <1>3 DEF TypeOK
  <2>7. CASE b = address[i]
    <3>1. \A j \in Id \ {i} : address[j] # b
      BY <2>2, <2>7 DEF Shared
    <3>2. idByAddress[b] = i
      BY <2>3, <2>4, <2>7, <3>1, <1>1
    <3>3. idByAddress'[b] = None
      BY <3>2, <2>7, <1>1 DEF Forget, Unindexed, TypeOK
    <3> QED
      BY <3>1, <3>3, <2>5, <2>6
  <2>8. CASE b # address[i]
    <3>1. idByAddress'[b] = idByAddress[b]
      BY <2>8, <1>1 DEF Forget, Unindexed, TypeOK
    <3> QED
      BY <2>3, <2>4, <2>5, <2>6, <2>8, <3>1
  <2> QED
    BY <2>7, <2>8
<1> QED
  BY <1>2, <1>3, <1>4, <1>5, <1>6, <1>7 DEF RegistryOK

\* A set of positions has a greatest one.
LEMMA Greatest ==
  ASSUME NEW l \in Nat, NEW T, T \subseteq 1..l, T # {}
  PROVE  \E n \in T : \A m \in T : m <= n
<1> DEFINE U == {l - n : n \in T}
<1>1. U \subseteq Nat /\ U # {}
  <2>1. \A n \in T : l - n \in Nat
    OBVIOUS
  <2> QED
    BY <2>1
<1>2. PICK x \in U : \A y \in U : <<y, x>> \notin OpToRel(<, Nat)
  <2> HIDE DEF U
  <2>1. IsWellFoundedOn(OpToRel(<, Nat), Nat)
    BY NatLessThanWellFounded
  <2> QED
    BY <1>1, <2>1, WFMin
<1>3. \A y \in U : ~(y < x)
  BY <1>1, <1>2 DEF OpToRel
<1>4. PICK n \in T : x = l - n
  BY <1>2
<1>5. \A m \in T : m <= n
  <2>1. SUFFICES ASSUME NEW m \in T PROVE m <= n
    OBVIOUS
  <2>2. l - m \in U
    OBVIOUS
  <2>3. ~(l - m < l - n)
    BY <2>2, <1>3, <1>4
  <2> QED
    BY <2>3
<1> QED
  BY <1>5

LEMMA ClearFacts ==
  ASSUME TypeOK, IndexAgrees, order' = <<>>, address' = [i \in Id |-> None],
         idByAddress' = Cleared, UNCHANGED astray
  PROVE  RegistryOK' /\ IndexAgrees' /\ OwnAddress' /\ Registered' = {}
<1> USE AccountsAssumption
<1>1. order' \in Seq(Id) /\ IsInjective(order') /\ Registered' = {}
  BY DEF Registered, ToSet, IsInjective
<1>2. \A j \in Id : j \in Registered' <=> address'[j] # None
  BY <1>1
<1>3. idByAddress' \in [Address -> Id \cup {None}]
  BY DEF TypeOK, Cleared
<1>4. \A a \in Address \ astray : idByAddress'[a] = None
  <2>1. \A a \in Address \ astray : idByAddress[a] # None => idByAddress[a] \in Id /\ address[idByAddress[a]] = a
    BY DEF IndexAgrees
  <2>2. \A i \in Id : i \in Registered <=> address[i] # None
    BY DEF TypeOK
  <2> QED
    BY <2>1, <2>2 DEF Cleared, TypeOK
<1>5. IndexAgrees'
  BY <1>4 DEF IndexAgrees
<1> QED
  BY <1>1, <1>2, <1>3, <1>5 DEF RegistryOK, OwnAddress, TypeOK

LEMMA AddAllFacts ==
  ASSUME TypeOK, IndexAgrees, NEW list \in Seq(Registration), IsInjective(Ids(list)), AddAll(list)
  PROVE  RegistryOK' /\ IndexAgrees' /\ OwnAddress' /\ Registered' = ToSet(Ids(list))
<1> USE AccountsAssumption
<1>1. Len(list) \in Nat /\ DOMAIN list = 1..Len(list) /\ \A n \in 1..Len(list) : list[n] \in Registration
  BY LenProperties, ElementOfSeq
<1>2. \A n \in 1..Len(list) : /\ list[n][1] \in Id /\ list[n][2] \in Address
                              /\ list[n][1] \in Address => list[n][1] = list[n][2]
  <2>1. \A r \in Registration : r[1] \in Id /\ r[2] \in Address /\ (r[1] \in Address => r[1] = r[2])
    BY DEF Registration
  <2> QED
    BY <1>1, <2>1, Zenon
<1>3. Ids(list) \in Seq(Id) /\ DOMAIN Ids(list) = 1..Len(list)
      /\ \A n \in 1..Len(list) : Ids(list)[n] = list[n][1]
  <2>1. Ids(list) = [n \in 1..Len(list) |-> list[n][1]]
    BY <1>1 DEF Ids
  <2>2. \A n \in 1..Len(list) : list[n][1] \in Id
    BY <1>2, Zenon
  <2>3. Ids(list) \in [1..Len(list) -> Id]
    BY <2>1, <2>2
  <2> QED
    BY <1>1, <2>1, <2>3, SeqDef
<1>4. ToSet(Ids(list)) \subseteq Id /\ \A n \in 1..Len(list) : list[n][1] \in ToSet(Ids(list))
  BY <1>2, <1>3 DEF ToSet
<1>5. order' = Ids(list) /\ Registered' = ToSet(Ids(list))
  BY DEF AddAll, Registered
<1>6. \A i \in ToSet(Ids(list)) : EntryOf(list, i) \in 1..Len(list) /\ list[EntryOf(list, i)][1] = i
  <2>1. SUFFICES ASSUME NEW i \in ToSet(Ids(list))
                 PROVE  EntryOf(list, i) \in 1..Len(list) /\ list[EntryOf(list, i)][1] = i
    OBVIOUS
  <2>2. \E n \in DOMAIN list : list[n][1] = i
    BY <1>1, <1>3 DEF ToSet
  <2> QED
    BY <2>2, <1>1 DEF EntryOf
<1>7. \A n \in 1..Len(list) : EntryOf(list, list[n][1]) = n
  BY <1>3, <1>4, <1>6 DEF IsInjective
<1>8. address' = [i \in Id |-> IF i \in ToSet(Ids(list)) THEN list[EntryOf(list, i)][2] ELSE None]
  BY DEF AddAll
<1>9. /\ address' \in [Id -> Address \cup {None}]
      /\ \A i \in Id : i \in ToSet(Ids(list)) <=> address'[i] # None
  <2>1. ASSUME NEW i \in ToSet(Ids(list)) PROVE list[EntryOf(list, i)][2] \in Address
    <3>1. EntryOf(list, i) \in 1..Len(list)
      BY <1>6
    <3> QED
      BY <3>1, <1>2, Zenon
  <2> QED
    BY <2>1, <1>8
<1>10. \A n \in 1..Len(list) : address'[list[n][1]] = list[n][2]
  BY <1>2, <1>4, <1>7, <1>8
<1>11. OwnAddress'
  <2>1. ASSUME NEW i \in ToSet(Ids(list)), i \in Address PROVE list[EntryOf(list, i)][2] = i
    <3>1. EntryOf(list, i) \in 1..Len(list) /\ list[EntryOf(list, i)][1] = i
      BY <1>6
    <3> QED
      BY <2>1, <3>1, <1>2, Zenon
  <2> QED
    BY <2>1, <1>8 DEF OwnAddress
<1>12. \A a \in Address : (\E n \in 1..Len(list) : list[n][2] = a) =>
          LastAt(list, a) \in 1..Len(list) /\ list[LastAt(list, a)][2] = a
  <2>1. SUFFICES ASSUME NEW a \in Address, \E n \in 1..Len(list) : list[n][2] = a
                 PROVE  LastAt(list, a) \in 1..Len(list) /\ list[LastAt(list, a)][2] = a
    OBVIOUS
  <2> DEFINE T == {n \in 1..Len(list) : list[n][2] = a}
  <2>2. T \subseteq 1..Len(list) /\ T # {}
    BY <2>1
  <2>3. \E n \in T : \A m \in T : m <= n
    <3> HIDE DEF T
    <3> QED
      BY <2>2, <1>1, Greatest
  <2>4. \E n \in DOMAIN list : list[n][2] = a /\ \A m \in DOMAIN list : list[m][2] = a => m <= n
    BY <2>3, <1>1
  <2> QED
    BY <2>4, <1>1 DEF LastAt
<1>13. \A a \in Address : idByAddress'[a] = IF \E n \in 1..Len(list) : list[n][2] = a
                                           THEN list[LastAt(list, a)][1] ELSE Cleared[a]
  BY <1>1 DEF AddAll
<1>14. idByAddress' \in [Address -> Id \cup {None}]
  <2>1. \A a \in Address : Cleared[a] \in Id \cup {None}
    BY DEF Cleared, TypeOK
  <2>2. ASSUME NEW a \in Address, \E n \in 1..Len(list) : list[n][2] = a
        PROVE  list[LastAt(list, a)][1] \in Id
    <3>1. LastAt(list, a) \in 1..Len(list)
      BY <2>2, <1>12
    <3> QED
      BY <3>1, <1>2, Zenon
  <2> QED
    BY <2>1, <2>2, <1>1 DEF AddAll
<1>15. astray' = astray \ {list[n][2] : n \in DOMAIN list} /\ astray' \subseteq Address
  BY DEF AddAll, TypeOK
<1>16. IndexAgrees'
  <2>1. SUFFICES ASSUME NEW a \in Address, a \notin astray'
                 PROVE  /\ idByAddress'[a] # None => idByAddress'[a] \in Id /\ address'[idByAddress'[a]] = a
                        /\ \A j \in Id : address'[j] = a => idByAddress'[a] # None
    BY DEF IndexAgrees
  <2>2. CASE \E n \in 1..Len(list) : list[n][2] = a
    <3>1. LastAt(list, a) \in 1..Len(list) /\ list[LastAt(list, a)][2] = a
      BY <2>2, <1>12
    <3>2. idByAddress'[a] = list[LastAt(list, a)][1]
      BY <2>2, <1>13
    <3>3. list[LastAt(list, a)][1] \in Id /\ address'[list[LastAt(list, a)][1]] = a
      BY <3>1, <1>2, <1>10, Zenon
    <3> QED
      BY <3>2, <3>3
  <2>3. CASE ~ \E n \in 1..Len(list) : list[n][2] = a
    <3>1. a \notin astray
      BY <2>1, <2>3, <1>1, <1>15
    <3>2. idByAddress'[a] = Cleared[a]
      BY <2>3, <1>13
    <3>3. Cleared[a] = None
      <4>1. idByAddress[a] # None => idByAddress[a] \in Id /\ address[idByAddress[a]] = a
        BY <3>1 DEF IndexAgrees
      <4> QED
        BY <4>1 DEF Cleared, TypeOK
    <3>4. \A j \in Id : address'[j] # a
      BY <2>3, <1>6, <1>8
    <3> QED
      BY <3>2, <3>3, <3>4
  <2> QED
    BY <2>2, <2>3
<1> QED
  BY <1>3, <1>5, <1>9, <1>11, <1>14, <1>15, <1>16 DEF RegistryOK

-----------------------------------------------------------------------------
(* The effects on the selection and on the scopes.                         *)

LEMMA ActivateFacts ==
  ASSUME TypeOK, ListenersKnow, NEW i \in Id, activateId(i)
  PROVE  activeId' = i /\ told' \in Id \cup {None} /\ silent' \in BOOLEAN /\ ListenersKnow'
<1>1. CASE i = activeId
  BY <1>1 DEF TypeOK, activateId, ListenersKnow
<1>2. CASE i # activeId
  BY <1>2 DEF TypeOK, activateId, Tell, ListenersKnow
<1> QED
  BY <1>1, <1>2

LEMMA TellFacts ==
  ASSUME NEW i \in Id \cup {None}, activeId' = i, Tell(i)
  PROVE  told' \in Id \cup {None} /\ silent' \in BOOLEAN /\ ListenersKnow'
BY DEF Tell, ListenersKnow

LEMMA DropFacts ==
  ASSUME TypeOK, ListenersKnow, activeId' = None, Drop
  PROVE  told' \in Id \cup {None} /\ silent' \in BOOLEAN /\ ListenersKnow'
BY DEF TypeOK, Drop, ListenersKnow

\* Accounts are only added, the selection stays, and scopes too: the chain holds.
LEMMA ChainKept ==
  ASSUME Chain, Registered \subseteq Registered', UNCHANGED <<activeId, calls, home, disturbed>>
  PROVE  Chain'
<1>1. scopes' = scopes /\ scope' = scope /\ home' = home /\ disturbed' = disturbed /\ activeId' = activeId
  BY DEF calls
<1>2. Restorable(Registered) => Restorable(Registered)'
  BY <1>1 DEF Restorable
<1> QED
  BY <1>1, <1>2 DEF Chain, ScopedSelection

LEMMA SelectFacts ==
  ASSUME TypeOK, ScopesOK, Chain, Select, UNCHANGED calls, activeId' \in Id \cup {None}
  PROVE  home' \in Id \cup {None} /\ disturbed' \in BOOLEAN /\ ScopesOK' /\ Chain'
<1>1. scopes' = scopes /\ scope' = scope
  BY DEF calls
<1>2. ScopesOK'
  BY <1>1 DEF ScopesOK
<1>3. CASE scopes = <<>>
  <2>1. home' = activeId' /\ disturbed' = disturbed
    BY <1>3 DEF Select
  <2>2. Len(scopes) = 0 /\ DOMAIN scopes = {}
    BY <1>3, EmptySeq
  <2>3. Restorable(Registered)'
    BY <1>1, <2>2 DEF Restorable
  <2> QED
    BY <1>1, <1>2, <1>3, <2>1, <2>2, <2>3 DEF TypeOK, Chain, ScopedSelection
<1>4. CASE scopes # <<>>
  <2>1. home' = home /\ disturbed' = (disturbed \/ activeId' # activeId \/ ~Restorable(ToSet(order')))
    BY <1>4 DEF Select
  <2>2. ASSUME ~disturbed' PROVE ~disturbed /\ activeId' = activeId /\ Restorable(Registered)'
    BY <2>1, <2>2, <1>1 DEF Restorable, Registered, TypeOK
  <2>3. disturbed' \in BOOLEAN
    BY <2>1 DEF TypeOK, Restorable
  <2> QED
    BY <1>1, <1>2, <1>4, <2>1, <2>2, <2>3 DEF TypeOK, Chain, ScopedSelection
<1> QED
  BY <1>3, <1>4

\* TypeOK is put together from its parts.
LEMMA TypeParts ==
  ASSUME RegistryOK', activeId' \in Id \cup {None},
         scope' \in [Scope -> [pc : {"idle", "open", "over"}, previous : Id \cup {None},
                               target : Id \cup {None}]],
         scopes' \in Seq(Scope), told' \in Id \cup {None}, silent' \in BOOLEAN,
         home' \in Id \cup {None}, disturbed' \in BOOLEAN
  PROVE  TypeOK'
BY DEF TypeOK, RegistryOK, Registered

\* The invariant after a change of the registry or the selection that scopes notice.
LEMMA ChangeKeepsInv ==
  ASSUME Inv, RegistryOK', IndexAgrees', OwnAddress', activeId' \in Registered' \cup {None},
         told' \in Id \cup {None}, silent' \in BOOLEAN, ListenersKnow', Select, UNCHANGED calls
  PROVE  Inv'
<1>1. Registered' \subseteq Id
  <2>1. order' \in Seq(Id)
    BY DEF RegistryOK
  <2>2. ToSet(order') \subseteq Id
    BY <2>1, ToSetFacts
  <2> QED
    BY <2>2 DEF Registered
<1>2. home' \in Id \cup {None} /\ disturbed' \in BOOLEAN /\ ScopesOK' /\ Chain'
  BY <1>1, SelectFacts DEF Inv
<1>3. TypeOK'
  BY <1>1, <1>2, TypeParts DEF Inv, TypeOK, calls
<1> QED
  BY <1>2, <1>3 DEF Inv, ActiveIsRegistered

-----------------------------------------------------------------------------
(* The operations.                                                         *)

LEMMA SameRegistry ==
  ASSUME Inv, UNCHANGED <<order, address, idByAddress, astray>>
  PROVE  RegistryOK' /\ IndexAgrees' /\ OwnAddress' /\ Registered' = Registered
BY DEF Inv, TypeOK, RegistryOK, IndexAgrees, OwnAddress, Registered

LEMMA AddStep ==
  ASSUME Inv, NEW r \in Registration, NEW q, add(r[1], r[2], q)
  PROVE  Inv'
<1> DEFINE i == r[1]
           a == r[2]
<1>1. i \in Id /\ a \in Address /\ (i \in Address => i = a) /\ store(i, a)
      /\ Select /\ UNCHANGED calls
  BY DEF Registration, add
<1>2. RegistryOK' /\ IndexAgrees' /\ OwnAddress' /\ Registered' = Registered \cup {i}
  <2> HIDE DEF i, a
  <2> QED
    BY <1>1, StoreFacts DEF Inv
<1>3. CASE q = "yes" \/ (q = "default" /\ Len(order') = 1)
  <2>1. activateId(i)
    BY <1>3 DEF add
  <2>2. activeId' = i /\ told' \in Id \cup {None} /\ silent' \in BOOLEAN /\ ListenersKnow'
    BY <1>1, <2>1, ActivateFacts DEF Inv
  <2> QED
    BY <1>1, <1>2, <2>2, ChangeKeepsInv
<1>4. CASE ~(q = "yes" \/ (q = "default" /\ Len(order') = 1))
  <2>1. UNCHANGED <<activeId, told, silent>>
    BY <1>4 DEF add
  <2>2. told' \in Id \cup {None} /\ silent' \in BOOLEAN /\ ListenersKnow'
        /\ activeId' \in Registered' \cup {None}
    BY <1>2, <2>1 DEF Inv, TypeOK, ListenersKnow, ActiveIsRegistered
  <2> QED
    BY <1>1, <1>2, <2>2, ChangeKeepsInv
<1> QED
  BY <1>3, <1>4

LEMMA UpdateStep ==
  ASSUME Inv, NEW ref \in Ref, update(ref)
  PROVE  Inv'
<1> USE AccountsAssumption
<1> DEFINE i == resolve(ref)
<1>1. i \in Registered /\ i \in Id /\ i # None
  BY ResolveFacts DEF Inv, update
<1>2. address[i] \in Address /\ (i \in Address => i = address[i])
  BY <1>1 DEF Inv, TypeOK, OwnAddress
<1>3. store(i, address[i]) /\ UNCHANGED <<activeId, calls, told, silent, home, disturbed>>
  BY DEF update
<1> HIDE DEF i
<1>4. RegistryOK' /\ IndexAgrees' /\ OwnAddress' /\ Registered' = Registered \cup {i}
  BY <1>1, <1>2, <1>3, StoreFacts DEF Inv
<1>5. Chain'
  BY <1>3, <1>4, ChainKept DEF Inv
<1>6. TypeOK'
  BY <1>3, <1>4, TypeParts DEF Inv, TypeOK, calls
<1> QED
  BY <1>3, <1>4, <1>5, <1>6 DEF Inv, ListenersKnow, ActiveIsRegistered, ScopesOK, calls

LEMMA RemoveStep ==
  ASSUME Inv, NEW ref \in Ref, remove(ref)
  PROVE  Inv'
<1> DEFINE i == resolve(ref)
<1>1. i \in Registered
  BY ResolveFacts DEF Inv, remove
<1>2. Forget(i) /\ Select /\ UNCHANGED calls
      /\ IF activeId = i
         THEN activeId' = (IF order' = <<>> THEN None ELSE Head(order')) /\ Tell(activeId')
         ELSE UNCHANGED <<activeId, told, silent>>
  BY DEF remove, Forget
<1> HIDE DEF i
<1>3. RegistryOK' /\ IndexAgrees' /\ OwnAddress' /\ Registered' = Registered \ {i}
  BY <1>1, <1>2, ForgetFacts DEF Inv
<1>4. Registered' \subseteq Id /\ (order' # <<>> => Head(order') \in Registered')
  <2>1. order' \in Seq(Id)
    BY <1>3 DEF RegistryOK
  <2>2. ToSet(order') \subseteq Id /\ (order' # <<>> => Head(order') \in ToSet(order'))
    BY <2>1, ToSetFacts
  <2> QED
    BY <2>2 DEF Registered
<1>5. CASE activeId = i
  <2>1. activeId' \in Registered' \cup {None} /\ Tell(activeId')
    BY <1>2, <1>4, <1>5
  <2>2. told' \in Id \cup {None} /\ silent' \in BOOLEAN /\ ListenersKnow'
    BY <2>1, <1>4 DEF Tell, ListenersKnow
  <2> QED
    BY <1>2, <1>3, <2>1, <2>2, ChangeKeepsInv
<1>6. CASE activeId # i
  <2>1. activeId' \in Registered' \cup {None} /\ told' \in Id \cup {None} /\ silent' \in BOOLEAN
        /\ ListenersKnow'
    BY <1>2, <1>3, <1>6 DEF Inv, TypeOK, ActiveIsRegistered, ListenersKnow
  <2> QED
    BY <1>2, <1>3, <2>1, ChangeKeepsInv
<1> QED
  BY <1>5, <1>6

LEMMA SelectStep ==
  ASSUME Inv, deactivate \/ \E ref \in Ref : activate(ref)
  PROVE  Inv'
<1>1. CASE deactivate
  <2>1. RegistryOK' /\ IndexAgrees' /\ OwnAddress' /\ activeId' = None /\ Drop /\ Select /\ UNCHANGED calls
    BY <1>1, SameRegistry DEF deactivate
  <2>2. told' \in Id \cup {None} /\ silent' \in BOOLEAN /\ ListenersKnow'
    BY <2>1, DropFacts DEF Inv
  <2> QED
    BY <2>1, <2>2, ChangeKeepsInv
<1>2. ASSUME NEW ref \in Ref, activate(ref) PROVE Inv'
  <2>1. resolve(ref) \in Registered /\ resolve(ref) \in Id
    BY <1>2, ResolveFacts, AccountsAssumption DEF Inv, activate
  <2>2. RegistryOK' /\ IndexAgrees' /\ OwnAddress' /\ Registered' = Registered
        /\ activateId(resolve(ref)) /\ Select /\ UNCHANGED calls
    BY <1>2, SameRegistry DEF activate
  <2>3. activeId' = resolve(ref) /\ told' \in Id \cup {None} /\ silent' \in BOOLEAN /\ ListenersKnow'
    BY <2>1, <2>2, ActivateFacts DEF Inv
  <2> QED
    BY <2>1, <2>2, <2>3, ChangeKeepsInv
<1> QED
  BY <1>1, <1>2

LEMMA ClearStep ==
  ASSUME Inv, clear
  PROVE  Inv'
<1>1. RegistryOK' /\ IndexAgrees' /\ OwnAddress' /\ activeId' = None /\ Drop /\ Select /\ UNCHANGED calls
  BY ClearFacts DEF Inv, clear
<1>2. told' \in Id \cup {None} /\ silent' \in BOOLEAN /\ ListenersKnow'
  BY <1>1, DropFacts DEF Inv
<1> QED
  BY <1>1, <1>2, ChangeKeepsInv

LEMMA FrontFacts ==
  ASSUME NEW list \in Seq(Registration), list # <<>>, IsInjective(Ids(list))
  PROVE  Front(list) \in Seq(Registration) /\ IsInjective(Ids(Front(list)))
<1> DEFINE f == Front(list)
<1>1. /\ Len(list) \in Nat \ {0} /\ DOMAIN list = 1..Len(list)
      /\ \A n \in 1..Len(list) : list[n] \in Registration
  BY LenProperties, ElementOfSeq, EmptySeq
<1>2. \A n \in 1..(Len(list) - 1) : list[n] \in Registration
  BY <1>1
<1>3. /\ f \in Seq(Registration) /\ Len(f) = Len(list) - 1
      /\ \A n \in 1..(Len(list) - 1) : f[n] = list[n]
  BY <1>1, <1>2, SubSeqProperties DEF Front
<1> HIDE DEF f
<1>4. DOMAIN f = 1..(Len(list) - 1)
  BY <1>3, LenProperties
<1>5. \A n \in 1..(Len(list) - 1) : n \in 1..Len(list) /\ Ids(f)[n] = Ids(list)[n]
  BY <1>1, <1>3, <1>4 DEF Ids
<1>6. DOMAIN Ids(f) = 1..(Len(list) - 1) /\ DOMAIN Ids(list) = 1..Len(list)
  BY <1>1, <1>4 DEF Ids
<1>7. IsInjective(Ids(f))
  BY <1>5, <1>6 DEF IsInjective
<1> QED
  BY <1>3, <1>7 DEF f

LEMMA ImportStep ==
  ASSUME Inv, NEW list \in Snapshot, NEW wanted \in Id \cup {None}, importState(list, wanted)
  PROVE  Inv'
<1>1. list \in Seq(Registration) /\ IsInjective(Ids(list))
  <2>1. PICK m \in 0..MaxImport : list \in [1..m -> Registration]
    BY DEF Snapshot, SeqOf
  <2>2. m \in Nat
    BY AccountsAssumption
  <2> QED
    BY <2>1, <2>2, SeqDef DEF Snapshot
<1>2. Select /\ UNCHANGED calls
  BY DEF importState
<1>3. CASE AddAll(list) /\ wanted \in ToSet(Ids(list)) /\ activeId' = wanted /\ Tell(wanted)
  <2>1. RegistryOK' /\ IndexAgrees' /\ OwnAddress' /\ Registered' = ToSet(Ids(list))
    BY <1>1, <1>3, AddAllFacts DEF Inv
  <2>2. told' \in Id \cup {None} /\ silent' \in BOOLEAN /\ ListenersKnow'
    BY <1>3, TellFacts
  <2> QED
    BY <1>2, <1>3, <2>1, <2>2, ChangeKeepsInv
<1>4. CASE AddAll(list) /\ activeId' = None /\ Drop
  <2>1. RegistryOK' /\ IndexAgrees' /\ OwnAddress'
    BY <1>1, <1>4, AddAllFacts DEF Inv
  <2>2. told' \in Id \cup {None} /\ silent' \in BOOLEAN /\ ListenersKnow'
    BY <1>4, DropFacts DEF Inv
  <2> QED
    BY <1>2, <1>4, <2>1, <2>2, ChangeKeepsInv
<1>5. CASE list # <<>> /\ AddAll(Front(list)) /\ activeId' = None /\ Drop
  <2>1. Front(list) \in Seq(Registration) /\ IsInjective(Ids(Front(list)))
    BY <1>1, <1>5, FrontFacts
  <2>2. RegistryOK' /\ IndexAgrees' /\ OwnAddress'
    BY <1>5, <2>1, AddAllFacts DEF Inv
  <2>3. told' \in Id \cup {None} /\ silent' \in BOOLEAN /\ ListenersKnow'
    BY <1>5, DropFacts DEF Inv
  <2> QED
    BY <1>2, <1>5, <2>2, <2>3, ChangeKeepsInv
<1> QED
  BY <1>3, <1>4, <1>5 DEF importState

LEMMA EnterStep ==
  ASSUME Inv, NEW k \in Scope, NEW ref \in Ref, enter(k, ref)
  PROVE  Inv'
<1> DEFINE j == resolve(ref)
<1>1. j \in Registered /\ j \in Id
  BY ResolveFacts, AccountsAssumption DEF Inv, enter
<1>2. /\ RegistryOK' /\ IndexAgrees' /\ OwnAddress' /\ Registered' = Registered
      /\ scope[k].pc = "idle" /\ activateId(j) /\ scopes' = Append(scopes, k)
      /\ scope' = [scope EXCEPT ![k] = [pc |-> "open", previous |-> activeId, target |-> activeId']]
      /\ home' = home /\ disturbed' = disturbed
  BY SameRegistry DEF enter
<1> HIDE DEF j
<1>3. activeId' = j /\ told' \in Id \cup {None} /\ silent' \in BOOLEAN /\ ListenersKnow'
  BY <1>1, <1>2, ActivateFacts DEF Inv
<1>4. k \notin ToSet(scopes)
  BY <1>2 DEF Inv, ScopesOK
<1>5. scopes \in Seq(Scope) /\ IsInjective(scopes) /\ Len(scopes) \in Nat
      /\ DOMAIN scopes = 1..Len(scopes) /\ (scopes = <<>> <=> Len(scopes) = 0)
  BY LenProperties, EmptySeq DEF Inv, TypeOK, ScopesOK
<1>6. \A n \in 1..Len(scopes) : scopes[n] \in ToSet(scopes) /\ scopes[n] \in Scope /\ scopes[n] # k
  BY <1>4, <1>5, ElementOfSeq DEF ToSet
<1>7. /\ scopes' \in Seq(Scope) /\ IsInjective(scopes') /\ ToSet(scopes') = ToSet(scopes) \cup {k}
      /\ Len(scopes') = Len(scopes) + 1 /\ scopes'[Len(scopes) + 1] = k
      /\ \A n \in 1..Len(scopes) : scopes'[n] = scopes[n]
  BY <1>2, <1>4, <1>5, AppendFacts
<1>8. /\ scope' \in [Scope -> [pc : {"idle", "open", "over"}, previous : Id \cup {None},
                               target : Id \cup {None}]]
      /\ scope'[k] = [pc |-> "open", previous |-> activeId, target |-> j]
  BY <1>1, <1>2, <1>3 DEF Inv, TypeOK
<1>9. \A q \in Scope \ {k} : scope'[q] = scope[q]
  BY <1>2 DEF Inv, TypeOK
<1>10. ScopesOK'
  <2>1. ASSUME NEW q \in Scope PROVE scope'[q].pc = "open" <=> q \in ToSet(scopes')
    <3>1. CASE q = k
      BY <3>1, <1>7, <1>8
    <3>2. CASE q # k
      BY <3>2, <1>7, <1>9 DEF Inv, ScopesOK
    <3> QED
      BY <3>1, <3>2
  <2> QED
    BY <2>1, <1>7 DEF ScopesOK
<1>11. ASSUME ~disturbed'
       PROVE  /\ Restorable(Registered)'
              /\ \A n \in 1..Len(scopes') :
                   scope'[scopes'[n]].previous = IF n = 1 THEN home' ELSE scope'[scopes'[n - 1]].target
              /\ ScopedSelection'
  <2>1. /\ Restorable(Registered) /\ ScopedSelection /\ ~disturbed
        /\ \A n \in 1..Len(scopes) :
             scope[scopes[n]].previous = IF n = 1 THEN home ELSE scope[scopes[n - 1]].target
    BY <1>2, <1>11 DEF Inv, Chain
  <2>2. \A n \in 1..Len(scopes) : scope'[scopes'[n]] = scope[scopes[n]]
    BY <1>6, <1>7, <1>9
  <2>3. DOMAIN scopes' = 1..(Len(scopes) + 1)
    BY <1>7, LenProperties
  <2>4. Restorable(Registered)'
    <3>1. ASSUME NEW n \in 1..(Len(scopes) + 1)
          PROVE  scope'[scopes'[n]].previous \in Registered' \cup {None}
      <4>1. CASE n = Len(scopes) + 1
        BY <4>1, <1>2, <1>7, <1>8 DEF Inv, ActiveIsRegistered
      <4>2. CASE n \in 1..Len(scopes)
        BY <4>2, <2>1, <2>2, <1>2, <1>5 DEF Restorable
      <4> QED
        BY <4>1, <4>2, <1>5
    <3> QED
      BY <3>1, <2>3 DEF Restorable
  <2>5. ASSUME NEW n \in 1..Len(scopes')
        PROVE  scope'[scopes'[n]].previous = IF n = 1 THEN home' ELSE scope'[scopes'[n - 1]].target
    <3>1. CASE n = Len(scopes) + 1
      <4>1. scope'[scopes'[n]].previous = activeId
        BY <3>1, <1>7, <1>8
      <4>2. CASE Len(scopes) = 0
        BY <4>1, <4>2, <3>1, <2>1, <1>2, <1>5 DEF ScopedSelection
      <4>3. CASE Len(scopes) # 0
        <5>1. Len(scopes) \in 1..Len(scopes) /\ n # 1 /\ n - 1 = Len(scopes)
          BY <4>3, <3>1, <1>5
        <5>2. activeId = scope[scopes[Len(scopes)]].target
          BY <4>3, <2>1, <1>5 DEF ScopedSelection, Last
        <5> QED
          BY <4>1, <5>1, <5>2, <2>2
      <4> QED
        BY <4>2, <4>3
    <3>2. CASE n \in 1..Len(scopes)
      <4>1. scope'[scopes'[n]] = scope[scopes[n]]
        BY <3>2, <2>2
      <4>2. n # 1 => n - 1 \in 1..Len(scopes)
        BY <3>2, <1>5
      <4>3. n # 1 => scope'[scopes'[n - 1]] = scope[scopes[n - 1]]
        BY <4>2, <2>2
      <4> QED
        BY <3>2, <4>1, <4>3, <2>1, <1>2
    <3> QED
      BY <3>1, <3>2, <1>5, <1>7
  <2>6. ScopedSelection'
    <3>1. scopes' # <<>>
      BY <1>5, <1>7, EmptySeq
    <3>2. Last(scopes') = k
      BY <1>7 DEF Last
    <3> QED
      BY <3>1, <3>2, <1>3, <1>8 DEF ScopedSelection
  <2> QED
    BY <2>4, <2>5, <2>6
<1>12. Chain'
  BY <1>11 DEF Chain
<1>13. TypeOK'
  BY <1>1, <1>2, <1>3, <1>7, <1>8, TypeParts DEF Inv, TypeOK
<1> QED
  BY <1>1, <1>2, <1>3, <1>10, <1>12, <1>13 DEF Inv, ActiveIsRegistered

LEMMA RestoreFacts ==
  ASSUME Inv, NEW i \in Id \cup {None}, Restore(i)
  PROVE  /\ activeId' \in Registered \cup {None} /\ activeId' \in Id \cup {None}
         /\ told' \in Id \cup {None} /\ silent' \in BOOLEAN /\ ListenersKnow'
         /\ i \in Registered \cup {None} => activeId' = i
<1> USE AccountsAssumption
<1>1. CASE i = None
  <2>1. activeId' = None /\ Drop
    BY <1>1 DEF Restore
  <2> QED
    BY <1>1, <2>1, DropFacts DEF Inv
<1>2. CASE i # None /\ resolve(i) # None
  <2>1. activateId(resolve(i)) /\ i \in Ref
    BY <1>2 DEF Restore, Ref
  <2>2. resolve(i) \in Registered /\ resolve(i) \in Id /\ (i \in Registered => resolve(i) = i)
    BY <1>2, <2>1, ResolveFacts DEF Inv
  <2> QED
    BY <1>2, <2>1, <2>2, ActivateFacts DEF Inv
<1>3. CASE i # None /\ resolve(i) = None
  <2>1. UNCHANGED <<activeId, told, silent>> /\ i \in Ref
    BY <1>3 DEF Restore, Ref
  <2>2. i \notin Registered
    BY <1>3, <2>1, ResolveFacts DEF Inv
  <2> QED
    BY <1>3, <2>1, <2>2 DEF Inv, TypeOK, ActiveIsRegistered, ListenersKnow
<1> QED
  BY <1>1, <1>2, <1>3

LEMMA LeaveStep ==
  ASSUME Inv, NEW k \in Scope, leave(k)
  PROVE  Inv'
<1> DEFINE p == CHOOSE n \in DOMAIN scopes : scopes[n] = k
           i == scope[k].previous
<1>1. /\ RegistryOK' /\ IndexAgrees' /\ OwnAddress' /\ Registered' = Registered
      /\ scope[k].pc = "open" /\ Restore(i) /\ scopes' = RemoveAt(scopes, p)
      /\ scope' = [scope EXCEPT ![k] = [pc |-> "over", previous |-> None, target |-> None]]
      /\ IF scopes' = <<>>
         THEN home' = (IF disturbed THEN activeId' ELSE home) /\ disturbed' = FALSE
         ELSE disturbed' = (disturbed \/ k # Last(scopes)) /\ UNCHANGED home
  BY SameRegistry DEF leave
<1>2. i \in Id \cup {None}
  BY DEF Inv, TypeOK
<1>3. /\ activeId' \in Registered \cup {None} /\ activeId' \in Id \cup {None}
      /\ told' \in Id \cup {None} /\ silent' \in BOOLEAN /\ ListenersKnow'
      /\ i \in Registered \cup {None} => activeId' = i
  <2> HIDE DEF i
  <2> QED
    BY <1>1, <1>2, RestoreFacts
<1>4. scopes \in Seq(Scope) /\ IsInjective(scopes) /\ Len(scopes) \in Nat /\ k \in ToSet(scopes)
      /\ DOMAIN scopes = 1..Len(scopes)
  BY <1>1, LenProperties DEF Inv, TypeOK, ScopesOK
<1>5. /\ p \in 1..Len(scopes) /\ scopes[p] = k
      /\ scopes' \in Seq(Scope) /\ Len(scopes') = Len(scopes) - 1
      /\ \A n \in 1..(Len(scopes) - 1) : scopes'[n] = IF n < p THEN scopes[n] ELSE scopes[n + 1]
      /\ IsInjective(scopes') /\ ToSet(scopes') = ToSet(scopes) \ {k}
  <2>1. p \in DOMAIN scopes /\ scopes[p] = k
    BY <1>4 DEF ToSet
  <2> HIDE DEF p
  <2> HIDE DEF i
  <2>2. RemoveAt(scopes, p) \in Seq(Scope) /\ Len(RemoveAt(scopes, p)) = Len(scopes) - 1
    BY <2>1, <1>4, RemoveAtFacts
  <2>3. \A n \in 1..(Len(scopes) - 1) :
          RemoveAt(scopes, p)[n] = IF n < p THEN scopes[n] ELSE scopes[n + 1]
    BY <2>1, <1>4, RemoveAtFacts
  <2>4. IsInjective(RemoveAt(scopes, p)) /\ ToSet(RemoveAt(scopes, p)) = ToSet(scopes) \ {k}
    BY <2>1, <1>4, RemoveAtFacts
  <2>5. scopes' = RemoveAt(scopes, p)
    BY <1>1 DEF p
  <2> QED
    BY <2>1, <2>2, <2>5, <2>3, <2>4, <1>4
<1> HIDE DEF p
<1>6. scope' \in [Scope -> [pc : {"idle", "open", "over"}, previous : Id \cup {None},
                            target : Id \cup {None}]]
      /\ scope'[k].pc = "over" /\ \A q \in Scope \ {k} : scope'[q] = scope[q]
  BY <1>1 DEF Inv, TypeOK
<1>7. ScopesOK'
  <2>1. ASSUME NEW q \in Scope PROVE scope'[q].pc = "open" <=> q \in ToSet(scopes')
    <3>1. CASE q = k
      BY <3>1, <1>5, <1>6
    <3>2. CASE q # k
      BY <3>2, <1>5, <1>6 DEF Inv, ScopesOK
    <3> QED
      BY <3>1, <3>2
  <2> QED
    BY <2>1, <1>5 DEF ScopesOK
<1>8. home' \in Id \cup {None} /\ disturbed' \in BOOLEAN
  BY <1>1, <1>3 DEF Inv, TypeOK
<1>9. DOMAIN scopes' = 1..Len(scopes') /\ Len(scopes') \in Nat /\ (scopes' = <<>> <=> Len(scopes') = 0)
  BY <1>5, LenProperties, EmptySeq
<1>10. Chain'
  <2>1. CASE scopes' = <<>>
    <3>1. Len(scopes') = 0 /\ Len(scopes) = 1 /\ p = 1 /\ scopes[1] = k
      <4>1. Len(scopes') = 0
        BY <2>1, <1>9
      <4>2. Len(scopes) = 1
        <5>1. Len(scopes) - 1 = 0
          BY <4>1, <1>5
        <5>2. Len(scopes) \in Nat
          BY <1>4
        <5> QED
          BY <5>1, <5>2
      <4>3. p \in 1..1
        BY <4>2, <1>5
      <4> QED
        BY <4>1, <4>2, <4>3, <1>5
    <3>2. activeId' = home'
      <4>1. CASE disturbed
        BY <4>1, <2>1, <1>1
      <4>2. CASE ~disturbed
        <5>1. i = home /\ i \in Registered \cup {None}
          BY <4>2, <3>1, <1>4 DEF Inv, Chain, Restorable
        <5> QED
          BY <4>2, <5>1, <2>1, <1>1, <1>3
      <4> QED
        BY <4>1, <4>2
    <3>3. Restorable(Registered)'
      BY <3>1, <1>9 DEF Restorable
    <3> QED
      BY <2>1, <3>1, <3>2, <3>3 DEF Chain, ScopedSelection
  <2>2. CASE scopes' # <<>>
    <3>1. SUFFICES ASSUME ~disturbed'
                   PROVE  /\ Restorable(Registered)'
                          /\ \A n \in 1..Len(scopes') : scope'[scopes'[n]].previous =
                               IF n = 1 THEN home' ELSE scope'[scopes'[n - 1]].target
                          /\ ScopedSelection'
      BY DEF Chain
    <3>2. ~disturbed /\ k = Last(scopes) /\ home' = home
      BY <3>1, <2>2, <1>1 DEF Inv, TypeOK
    <3>3. p = Len(scopes) /\ Len(scopes) \in Nat /\ Len(scopes) >= 2
      <4>1. scopes[Len(scopes)] = k
        BY <3>2 DEF Last
      <4>2. Len(scopes) # 0
        BY <1>4, <1>5
      <4>3. Len(scopes) \in 1..Len(scopes)
        BY <4>2, <1>4
      <4>4. p = Len(scopes)
        BY <4>1, <4>3, <1>4, <1>5 DEF IsInjective
      <4>5. Len(scopes) - 1 # 0
        BY <2>2, <1>5, <1>9
      <4> QED
        BY <4>2, <4>4, <4>5, <1>4
    <3>4. /\ Restorable(Registered)
          /\ \A n \in 1..Len(scopes) :
               scope[scopes[n]].previous = IF n = 1 THEN home ELSE scope[scopes[n - 1]].target
      BY <3>2 DEF Inv, Chain
    <3>5. \A n \in 1..(Len(scopes) - 1) : n \in 1..Len(scopes) /\ scopes'[n] = scopes[n]
                                          /\ scope'[scopes'[n]] = scope[scopes[n]]
      <4>1. ASSUME NEW n \in 1..(Len(scopes) - 1)
            PROVE  n \in 1..Len(scopes) /\ scopes'[n] = scopes[n] /\ scopes[n] # k
        <5>1. n \in 1..Len(scopes) /\ n < p /\ n # p
          BY <3>3
        <5>2. scopes'[n] = scopes[n]
          BY <5>1, <1>5
        <5>3. scopes[n] # k
          BY <5>1, <1>4, <1>5 DEF IsInjective
        <5> QED
          BY <5>1, <5>2, <5>3
      <4>2. \A n \in 1..Len(scopes) : scopes[n] \in Scope
        BY <1>4, ElementOfSeq
      <4> QED
        BY <4>1, <4>2, <1>6
    <3>6. Restorable(Registered)'
      <4>1. DOMAIN scopes' = 1..(Len(scopes) - 1)
        BY <1>5, <1>9
      <4> QED
        BY <4>1, <3>4, <3>5, <1>1, <1>4 DEF Restorable
    <3>7. ASSUME NEW n \in 1..Len(scopes')
          PROVE  scope'[scopes'[n]].previous = IF n = 1 THEN home' ELSE scope'[scopes'[n - 1]].target
      <4>1. n \in 1..(Len(scopes) - 1) /\ (n # 1 => n - 1 \in 1..(Len(scopes) - 1))
        BY <1>5, <3>3
      <4>2. scope'[scopes'[n]] = scope[scopes[n]] /\ n \in 1..Len(scopes)
        BY <4>1, <3>5
      <4>3. n # 1 => scope'[scopes'[n - 1]] = scope[scopes[n - 1]]
        BY <4>1, <3>5
      <4> QED
        BY <4>2, <4>3, <3>2, <3>4
    <3>8. ScopedSelection'
      <4>1. scope[scopes[Len(scopes)]].previous = scope[scopes[Len(scopes) - 1]].target
        BY <3>3, <3>4
      <4>2. i = scope[scopes[Len(scopes) - 1]].target /\ i \in Registered \cup {None}
        BY <4>1, <3>3, <3>4, <1>4, <1>5 DEF Restorable
      <4>3. Last(scopes') = scopes'[Len(scopes) - 1] /\ Len(scopes) - 1 \in 1..(Len(scopes) - 1)
        BY <3>3, <1>5 DEF Last
      <4>4. scope'[Last(scopes')].target = i
        BY <4>2, <4>3, <3>5
      <4> QED
        BY <4>2, <4>4, <2>2, <1>3 DEF ScopedSelection
    <3> QED
      BY <3>6, <3>7, <3>8
  <2> QED
    BY <2>1, <2>2
<1>11. TypeOK'
  BY <1>1, <1>3, <1>5, <1>6, <1>8, TypeParts
<1> QED
  BY <1>1, <1>3, <1>7, <1>10, <1>11 DEF Inv, ActiveIsRegistered

-----------------------------------------------------------------------------
(* The theorems.                                                           *)

LEMMA InitInv == Init => Inv
<1> SUFFICES ASSUME Init PROVE Inv
  OBVIOUS
<1> USE AccountsAssumption
<1>1. order = <<>> /\ scopes = <<>> /\ Registered = {} /\ ToSet(scopes) = {}
  BY DEF Init, Registered, ToSet
<1>2. IsInjective(<<>>) /\ <<>> \in Seq(Id) /\ <<>> \in Seq(Scope) /\ Len(<<>>) = 0 /\ DOMAIN <<>> = {}
  BY EmptySeq DEF IsInjective
<1>3. TypeOK
  BY <1>1, <1>2 DEF Init, TypeOK
<1>4. IndexAgrees /\ OwnAddress /\ ActiveIsRegistered /\ ListenersKnow
  BY <1>1 DEF Init, IndexAgrees, OwnAddress, ActiveIsRegistered, ListenersKnow
<1>5. ScopesOK /\ Chain
  BY <1>1, <1>2 DEF Init, ScopesOK, Chain, Restorable, ScopedSelection
<1> QED
  BY <1>3, <1>4, <1>5 DEF Inv

LEMMA StutterInv == Inv /\ UNCHANGED vars => Inv'
<1> SUFFICES ASSUME Inv, UNCHANGED vars PROVE Inv'
  OBVIOUS
<1>1. /\ order' = order /\ address' = address /\ idByAddress' = idByAddress /\ activeId' = activeId
      /\ scope' = scope /\ scopes' = scopes /\ told' = told /\ silent' = silent /\ astray' = astray
      /\ home' = home /\ disturbed' = disturbed
  BY DEF vars, registry, calls
<1> QED
  BY <1>1 DEF Inv, TypeOK, IndexAgrees, OwnAddress, ActiveIsRegistered, ListenersKnow, ScopesOK,
              Chain, Restorable, ScopedSelection, Registered

LEMMA Invariance == Spec => []Inv
<1>1. Inv /\ [Next]_vars => Inv'
  <2> SUFFICES ASSUME Inv, [Next]_vars PROVE Inv'
    OBVIOUS
  <2>1. CASE deactivate \/ \E ref \in Ref : activate(ref)
    BY <2>1, SelectStep
  <2>2. CASE clear
    BY <2>2, ClearStep
  <2>3. CASE \E r \in Registration, q \in {"yes", "no", "default"} : add(r[1], r[2], q)
    BY <2>3, AddStep
  <2>4. CASE \E ref \in Ref : update(ref) \/ remove(ref)
    BY <2>4, UpdateStep, RemoveStep
  <2>5. CASE \E list \in Snapshot, wanted \in Id \cup {None} : importState(list, wanted)
    BY <2>5, ImportStep
  <2>6. CASE \E k \in Scope : leave(k) \/ \E ref \in Ref : enter(k, ref)
    BY <2>6, EnterStep, LeaveStep
  <2>7. CASE UNCHANGED vars
    BY <2>7, StutterInv
  <2> QED
    BY <2>1, <2>2, <2>3, <2>4, <2>5, <2>6, <2>7 DEF Next
<1> QED
  BY InitInv, <1>1, PTL DEF Spec

\* The variables keep their types, and the registry its ids without repetitions.
THEOREM TypeCorrect == Spec => []TypeOK
<1>1. Inv => TypeOK
  BY DEF Inv
<1> QED
  BY Invariance, <1>1, PTL

\* Whatever is removed, imported or restored, the active account is registered.
THEOREM ActiveRegistered == Spec => []ActiveIsRegistered
<1>1. Inv => ActiveIsRegistered
  BY DEF Inv
<1> QED
  BY Invariance, <1>1, PTL

\* Listeners know the active account unless the selection was dropped silently.
THEOREM ListenersAgree == Spec => []ListenersKnow
<1>1. Inv => ListenersKnow
  BY DEF Inv
<1> QED
  BY Invariance, <1>1, PTL

\* The two indexes agree about every address that is not astray.
THEOREM IndexesAgree == Spec => []LookupsAgree
<1>1. Inv => LookupsAgree
  <2> SUFFICES ASSUME Inv, NEW a \in Address \ astray
               PROVE  /\ resolve(a) # None <=> \E i \in Id : address[i] = a
                      /\ resolve(a) # None => address[resolve(a)] = a
    BY DEF LookupsAgree
  <2> USE AccountsAssumption
  <2>1. /\ idByAddress[a] # None => idByAddress[a] \in Id /\ address[idByAddress[a]] = a
        /\ \A i \in Id : address[i] = a => idByAddress[a] # None
    BY DEF Inv, IndexAgrees
  <2>2. Registered \subseteq Id /\ \A i \in Id : i \in Registered <=> address[i] # None
    BY ToSetFacts DEF Inv, TypeOK, Registered
  <2>3. a \in Registered => address[a] = a
    BY <2>2 DEF Inv, OwnAddress
  <2> QED
    BY <2>1, <2>2, <2>3 DEF resolve
<1> QED
  BY Invariance, <1>1, PTL

\* Nested scopes act as their accounts and restore the selection around them.
THEOREM ScopesRestore == Spec => []ScopedSelection
<1>1. Inv => ScopedSelection
  BY DEF Inv, Chain, ScopedSelection
<1> QED
  BY Invariance, <1>1, PTL

=============================================================================
