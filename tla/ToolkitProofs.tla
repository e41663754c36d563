---------------------------- MODULE ToolkitProofs ----------------------------
(***************************************************************************)
(* What module Toolkit promises, for any values of the constants: what the *)
(* services do, and the codec, for all types and all values of whatever    *)
(* depth. That the codec keeps what it encodes is shown for one kind of    *)
(* type after the other, of the parts of which it is known, and then by    *)
(* the depth of the types: the least depth at which it did not hold would  *)
(* have parts for which it does.                                           *)
(***************************************************************************)
EXTENDS Toolkit, ServicesProofs, FunctionTheorems

-----------------------------------------------------------------------------
(* The recursive functions. A function that is defined by what it is before n *)
(* is built up to n, in one way only, and that exists for every n: a least n *)
(* without it would have it.                                               *)

\* Nested is what its definition says.
LEMMA NestedIs ==
  \A d \in Nat : Nested[d] = IF d = 0 THEN [datums |-> DatumsOf({}), types |-> {}]
                             ELSE [datums |-> DatumsOf(Nested[d - 1].datums), types |-> TypesOf(Nested[d - 1].types)]
<1> DEFINE Def(g, i) == IF i = 0 THEN [datums |-> DatumsOf({}), types |-> {}]
                        ELSE [datums |-> DatumsOf(g[i - 1].datums), types |-> TypesOf(g[i - 1].types)]
           Is(h, n) == h = [i \in 0 .. n |-> Def(h, i)]
           Agree(h, n) == \A m \in Nat : \A g : n <= m /\ Is(g, m) => \A i \in 0 .. n : g[i] = h[i]
           F == [n \in Nat |-> (CHOOSE h : Is(h, n))[n]]
<1>1. ASSUME NEW g, NEW h, NEW i \in Nat, i # 0 => g[i - 1] = h[i - 1] PROVE Def(g, i) = Def(h, i)
  BY <1>1
<1> HIDE DEF Def
<1>2. \A n \in Nat : \A h : Is(h, n) => \A i \in 0 .. n : h[i] = Def(h, i)
  OBVIOUS
<1>3. ASSUME NEW n \in Nat, NEW h, n # 0 => Is(h, n - 1) /\ Agree(h, n - 1)
      PROVE  \E k : Is(k, n) /\ Agree(k, n)
  <2> DEFINE k == [i \in 0 .. n |-> Def(h, i)]
  <2>1. ASSUME NEW i \in 0 .. n, i # 0 PROVE n # 0 /\ n - 1 \in Nat /\ i - 1 \in 0 .. n - 1 /\ i - 1 \in 0 .. n
    BY <2>1
  <2>2. \A i \in 0 .. n : Def(k, i) = Def(h, i)
    <3>1. ASSUME NEW i \in 0 .. n, i # 0 PROVE k[i - 1] = h[i - 1]
      BY <1>2, <1>3, <2>1, <3>1
    <3>2. \A i \in 0 .. n : i \in Nat
      OBVIOUS
    <3> QED
      BY <1>1, <3>1, <3>2
  <2>3. ASSUME NEW m \in Nat, NEW g, n <= m, Is(g, m), NEW i \in 0 .. n PROVE g[i] = k[i]
    <3>1. i \in 0 .. m /\ g[i] = Def(g, i) /\ n - 1 <= m
      BY <1>2, <2>3
    <3>2. ASSUME i # 0 PROVE g[i - 1] = h[i - 1]
      BY <1>3, <2>1, <2>3, <3>1, <3>2
    <3> QED
      BY <1>1, <3>1, <3>2
  <2>4. Is(k, n) /\ Agree(k, n)
    BY <2>2, <2>3
  <2> QED
    BY <2>4
<1> HIDE DEF Is
<1>4. \A n \in Nat : \E h : Is(h, n) /\ Agree(h, n)
  <2> DEFINE Bad == {n \in Nat : ~\E h : Is(h, n) /\ Agree(h, n)}
  <2> SUFFICES ASSUME Bad # {} PROVE FALSE
    OBVIOUS
  <2> HIDE DEF Agree
  <2>1. Min(Bad) \in Bad /\ \A m \in Bad : Min(Bad) <= m
    BY MinIs
  <2> DEFINE n == Min(Bad)
  <2> HIDE DEF n
  <2>2. n \in Nat /\ n \in Bad /\ (n # 0 => n - 1 \in Nat /\ n - 1 \notin Bad)
    BY <2>1 DEF n
  <2>3. \E h : n # 0 => Is(h, n - 1) /\ Agree(h, n - 1)
    BY <2>2
  <2> QED
    BY <1>3, <2>2, <2>3
<1>5. ASSUME NEW i \in Nat PROVE F[i] = Def(F, i)
  <2>1. Is(CHOOSE h : Is(h, i), i) /\ F[i] = (CHOOSE h : Is(h, i))[i]
    BY <1>4
  <2>2. ASSUME i # 0
        PROVE  F[i - 1] = (CHOOSE h : Is(h, i))[i - 1]
    <3>1. i - 1 \in Nat /\ i - 1 \in 0 .. i - 1 /\ i - 1 <= i - 1 /\ i - 1 <= i
      BY <2>2
    <3>2. Is(CHOOSE h : Is(h, i - 1), i - 1) /\ F[i - 1] = (CHOOSE h : Is(h, i - 1))[i - 1]
      BY <1>4, <3>1
    <3>3. PICK k : Is(k, i - 1) /\ Agree(k, i - 1)
      BY <1>4, <3>1
    <3> QED
      BY <2>1, <3>1, <3>2, <3>3
  <2>3. (CHOOSE h : Is(h, i))[i] = Def(CHOOSE h : Is(h, i), i)
    BY <1>2, <2>1
  <2> QED
    BY <1>1, <2>1, <2>2, <2>3
<1>6. F = [i \in Nat |-> Def(F, i)]
  BY <1>5
<1> HIDE DEF F
<1>7. Nested = [i \in Nat |-> Def(Nested, i)]
  BY <1>6 DEF Nested, Def
<1> QED
  BY <1>7 DEF Def

\* So is Codec.
LEMMA CodecIs ==
  \A d \in Nat : Codec[d] = IF d = 0 THEN <<>> ELSE CodecOf(Codec[d - 1], d)
<1> DEFINE Def(g, i) == IF i = 0 THEN <<>> ELSE CodecOf(g[i - 1], i)
           Is(h, n) == h = [i \in 0 .. n |-> Def(h, i)]
           Agree(h, n) == \A m \in Nat : \A g : n <= m /\ Is(g, m) => \A i \in 0 .. n : g[i] = h[i]
           F == [n \in Nat |-> (CHOOSE h : Is(h, n))[n]]
<1>1. ASSUME NEW g, NEW h, NEW i \in Nat, i # 0 => g[i - 1] = h[i - 1] PROVE Def(g, i) = Def(h, i)
  BY <1>1
<1> HIDE DEF Def
<1>2. \A n \in Nat : \A h : Is(h, n) => \A i \in 0 .. n : h[i] = Def(h, i)
  OBVIOUS
<1>3. ASSUME NEW n \in Nat, NEW h, n # 0 => Is(h, n - 1) /\ Agree(h, n - 1)
      PROVE  \E k : Is(k, n) /\ Agree(k, n)
  <2> DEFINE k == [i \in 0 .. n |-> Def(h, i)]
  <2>1. ASSUME NEW i \in 0 .. n, i # 0 PROVE n # 0 /\ n - 1 \in Nat /\ i - 1 \in 0 .. n - 1 /\ i - 1 \in 0 .. n
    BY <2>1
  <2>2. \A i \in 0 .. n : Def(k, i) = Def(h, i)
    <3>1. ASSUME NEW i \in 0 .. n, i # 0 PROVE k[i - 1] = h[i - 1]
      BY <1>2, <1>3, <2>1, <3>1
    <3>2. \A i \in 0 .. n : i \in Nat
      OBVIOUS
    <3> QED
      BY <1>1, <3>1, <3>2
  <2>3. ASSUME NEW m \in Nat, NEW g, n <= m, Is(g, m), NEW i \in 0 .. n PROVE g[i] = k[i]
    <3>1. i \in 0 .. m /\ g[i] = Def(g, i) /\ n - 1 <= m
      BY <1>2, <2>3
    <3>2. ASSUME i # 0 PROVE g[i - 1] = h[i - 1]
      BY <1>3, <2>1, <2>3, <3>1, <3>2
    <3> QED
      BY <1>1, <3>1, <3>2
  <2>4. Is(k, n) /\ Agree(k, n)
    BY <2>2, <2>3
  <2> QED
    BY <2>4
<1> HIDE DEF Is
<1>4. \A n \in Nat : \E h : Is(h, n) /\ Agree(h, n)
  <2> DEFINE Bad == {n \in Nat : ~\E h : Is(h, n) /\ Agree(h, n)}
  <2> SUFFICES ASSUME Bad # {} PROVE FALSE
    OBVIOUS
  <2> HIDE DEF Agree
  <2>1. Min(Bad) \in Bad /\ \A m \in Bad : Min(Bad) <= m
    BY MinIs
  <2> DEFINE n == Min(Bad)
  <2> HIDE DEF n
  <2>2. n \in Nat /\ n \in Bad /\ (n # 0 => n - 1 \in Nat /\ n - 1 \notin Bad)
    BY <2>1 DEF n
  <2>3. \E h : n # 0 => Is(h, n - 1) /\ Agree(h, n - 1)
    BY <2>2
  <2> QED
    BY <1>3, <2>2, <2>3
<1>5. ASSUME NEW i \in Nat PROVE F[i] = Def(F, i)
  <2>1. Is(CHOOSE h : Is(h, i), i) /\ F[i] = (CHOOSE h : Is(h, i))[i]
    BY <1>4
  <2>2. ASSUME i # 0
        PROVE  F[i - 1] = (CHOOSE h : Is(h, i))[i - 1]
    <3>1. i - 1 \in Nat /\ i - 1 \in 0 .. i - 1 /\ i - 1 <= i - 1 /\ i - 1 <= i
      BY <2>2
    <3>2. Is(CHOOSE h : Is(h, i - 1), i - 1) /\ F[i - 1] = (CHOOSE h : Is(h, i - 1))[i - 1]
      BY <1>4, <3>1
    <3>3. PICK k : Is(k, i - 1) /\ Agree(k, i - 1)
      BY <1>4, <3>1
    <3> QED
      BY <2>1, <3>1, <3>2, <3>3
  <2>3. (CHOOSE h : Is(h, i))[i] = Def(CHOOSE h : Is(h, i), i)
    BY <1>2, <2>1
  <2> QED
    BY <1>1, <2>1, <2>2, <2>3
<1>6. F = [i \in Nat |-> Def(F, i)]
  BY <1>5
<1> HIDE DEF F
<1>7. Codec = [i \in Nat |-> Def(Codec, i)]
  BY <1>6 DEF Codec, Def
<1> QED
  BY <1>7 DEF Def

-----------------------------------------------------------------------------
(* What is nested.                                                         *)

\* Of what is nested, by the depth.
LEMMA NestedSteps ==
  /\ Datums(0) = DatumsOf({}) /\ TypesTo(0) = {}
  /\ \A d \in Nat : Datums(d + 1) = DatumsOf(Datums(d)) /\ TypesTo(d + 1) = TypesOf(TypesTo(d))
<1>1. 0 \in Nat /\ \A d \in Nat : d + 1 \in Nat /\ d + 1 # 0 /\ (d + 1) - 1 = d
  OBVIOUS
<1>2. Nested[0] = [datums |-> DatumsOf({}), types |-> {}]
  BY <1>1, NestedIs
<1>3. \A d \in Nat : Nested[d + 1] = [datums |-> DatumsOf(Nested[d].datums), types |-> TypesOf(Nested[d].types)]
  BY <1>1, NestedIs
<1>4. ASSUME NEW d \in Nat
      PROVE  Datums(d + 1) = DatumsOf(Datums(d)) /\ TypesTo(d + 1) = TypesOf(TypesTo(d))
  <2> DEFINE D == DatumsOf(Nested[d].datums)
             T == TypesOf(Nested[d].types)
  <2> HIDE DEF D, T
  <2>1. Nested[d + 1] = [datums |-> D, types |-> T]
    BY <1>3 DEF D, T
  <2>2. Nested[d + 1].datums = D /\ Nested[d + 1].types = T
    BY <2>1
  <2> QED
    BY <2>2 DEF Datums, TypesTo, D, T
<1>5. Datums(0) = DatumsOf({}) /\ TypesTo(0) = {}
  BY <1>2 DEF Datums, TypesTo
<1> QED
  BY <1>4, <1>5

\* What is made of more parts is more.
LEMMA Wider == ASSUME NEW P, NEW Q, P \subseteq Q
               PROVE  DatumsOf(P) \subseteq DatumsOf(Q) /\ TypesOf(P) \subseteq TypesOf(Q)
<1>1. Seq(P) \subseteq Seq(Q)
  OBVIOUS
<1> QED
  BY <1>1 DEF DatumsOf, TypesOf

\* What is nested up to d deep is nested up to any greater depth.
LEMMA Deeper == ASSUME NEW c \in Nat, NEW d \in Nat, c <= d
                PROVE  Datums(c) \subseteq Datums(d) /\ TypesTo(c) \subseteq TypesTo(d)
<1> DEFINE Sub(a, b) == Datums(a) \subseteq Datums(b) /\ TypesTo(a) \subseteq TypesTo(b)
<1>1. \A e \in Nat : Sub(e, e + 1)
  <2> DEFINE Bad == {e \in Nat : ~Sub(e, e + 1)}
  <2> SUFFICES ASSUME Bad # {} PROVE FALSE
    OBVIOUS
  <2>1. PICK e \in Nat : ~Sub(e, e + 1) /\ \A a \in Nat : Sub(a, a + 1) \/ e <= a
    <3>1. PICK e \in Bad : \A a \in Bad : e <= a
      BY MinIs
    <3> QED
      BY <3>1
  <2> HIDE DEF Sub
  <2>2. CASE e = 0
    <3>1. e + 1 = 1 /\ 0 \in Nat /\ 0 + 1 = 1
      BY <2>2
    <3>2. Datums(1) = DatumsOf(Datums(0)) /\ TypesTo(1) = TypesOf(TypesTo(0))
      BY <3>1, NestedSteps
    <3>3. Datums(0) \subseteq Datums(1) /\ TypesTo(0) \subseteq TypesTo(1)
      BY <3>2, NestedSteps, Wider
    <3> QED
      BY <2>1, <2>2, <3>1, <3>3 DEF Sub
  <2>3. CASE e # 0
    <3>1. e - 1 \in Nat /\ (e - 1) + 1 = e /\ Sub(e - 1, e)
      <4>1. e - 1 \in Nat /\ (e - 1) + 1 = e /\ ~(e <= e - 1)
        BY <2>3
      <4>2. Sub(e - 1, (e - 1) + 1)
        BY <2>1, <4>1
      <4> QED
        BY <4>1, <4>2
    <3>2. Datums(e) = DatumsOf(Datums(e - 1)) /\ TypesTo(e) = TypesOf(TypesTo(e - 1))
      BY <3>1, NestedSteps
    <3>3. Datums(e + 1) = DatumsOf(Datums(e)) /\ TypesTo(e + 1) = TypesOf(TypesTo(e))
      BY NestedSteps
    <3>4. Datums(e - 1) \subseteq Datums(e) /\ TypesTo(e - 1) \subseteq TypesTo(e)
      BY <3>1 DEF Sub
    <3>5. Datums(e) \subseteq Datums(e + 1) /\ TypesTo(e) \subseteq TypesTo(e + 1)
      <4>1. /\ DatumsOf(Datums(e - 1)) \subseteq DatumsOf(Datums(e))
            /\ TypesOf(TypesTo(e - 1)) \subseteq TypesOf(TypesTo(e))
        BY <3>4, Wider
      <4> QED
        BY <3>2, <3>3, <4>1
    <3> QED
      BY <2>1, <3>5 DEF Sub
  <2> QED
    BY <2>2, <2>3
<1>2. ASSUME ~Sub(c, d) PROVE FALSE
  <2> DEFINE Bad == {e \in Nat : c <= e /\ ~Sub(c, e)}
  <2>1. d \in Bad
    BY <1>2
  <2>2. PICK e \in Bad : \A a \in Bad : e <= a
    BY <2>1, MinIs
  <2>3. e # c
    BY <2>2
  <2>4. e - 1 \in Nat /\ c <= e - 1 /\ (e - 1) + 1 = e
    BY <2>2, <2>3
  <2>5. Sub(c, e - 1) /\ Sub(e - 1, e)
    BY <1>1, <2>2, <2>4
  <2> QED
    BY <2>2, <2>5
<1> QED
  BY <1>2

\* The kinds of values.
AllKinds == JsKinds \cup ScKinds

\* The fields of a value, of whichever sort it is.
LEMMA DatumFields ==
  /\ \A k : Plain(k).k = k
  /\ \A k, n : Number(k, n).k = k /\ Number(k, n).n = n
  /\ \A k, w : Word(k, w).k = k /\ Word(k, w).w = w
  /\ \A k, items : List(k, items).k = k /\ List(k, items).items = items
  /\ \A k, keys, items : /\ Table(k, keys, items).k = k
                         /\ Table(k, keys, items).keys = keys /\ Table(k, keys, items).items = items
BY DEF Plain, Number, Word, List, Table, Datum

\* What can be made of the parts P, and what each of that is made of.
LEMMA InDatums ==
  ASSUME NEW P
  PROVE  /\ \A k \in AllKinds : Plain(k) \in DatumsOf(P)
         /\ \A k \in AllKinds, n \in Int : Number(k, n) \in DatumsOf(P)
         /\ \A k \in AllKinds, w \in Words : Word(k, w) \in DatumsOf(P)
         /\ \A k \in AllKinds, items \in Seq(P) : List(k, items) \in DatumsOf(P)
         /\ \A k \in AllKinds, keys \in Seq(P), items \in Seq(P) :
              Len(keys) = Len(items) => Table(k, keys, items) \in DatumsOf(P)
         /\ \A v \in DatumsOf(P) : /\ v.k \in AllKinds /\ v.n \in Int /\ v.w \in Words
                                    /\ v.keys \in Seq(P) /\ v.items \in Seq(P)
                                    /\ DOMAIN v.keys \subseteq DOMAIN v.items
<1>1. <<>> \in Seq(P) /\ Len(<<>>) = 0
  OBVIOUS
<1>0. 0 \in Int
  OBVIOUS
<1>4. "" \in Words
  BY CodecAssumption
<1>2. ASSUME NEW v \in DatumsOf(P)
      PROVE  /\ v.k \in AllKinds /\ v.n \in Int /\ v.w \in Words
             /\ v.keys \in Seq(P) /\ v.items \in Seq(P) /\ DOMAIN v.keys \subseteq DOMAIN v.items
  <2>1. /\ v.k \in AllKinds /\ v.n \in Int /\ v.w \in Words
        /\ v.keys \in Seq(P) /\ v.items \in Seq(P) /\ (v.keys # <<>> => Len(v.keys) = Len(v.items))
    BY DEF DatumsOf, AllKinds
  <2>2. v.keys = <<>> => DOMAIN v.keys = {}
    OBVIOUS
  <2>3. \A s \in Seq(P) : DOMAIN s = 1 .. Len(s)
    OBVIOUS
  <2> QED
    BY <2>1, <2>2, <2>3
<1>3. \A k \in AllKinds, n \in Int, w \in Words, keys \in Seq(P), items \in Seq(P) :
        (keys # <<>> => Len(keys) = Len(items)) => Datum(k, n, w, keys, items) \in DatumsOf(P)
  BY DEF DatumsOf, Datum, AllKinds
<1>5. \A k \in AllKinds : Plain(k) \in DatumsOf(P)
  BY <1>0, <1>1, <1>3, <1>4 DEF Plain
<1>6. \A k \in AllKinds, n \in Int : Number(k, n) \in DatumsOf(P)
  BY <1>0, <1>1, <1>3, <1>4 DEF Number
<1>7. \A k \in AllKinds, w \in Words : Word(k, w) \in DatumsOf(P)
  BY <1>0, <1>1, <1>3 DEF Word
<1>8. \A k \in AllKinds, items \in Seq(P) : List(k, items) \in DatumsOf(P)
  BY <1>0, <1>1, <1>3, <1>4 DEF List
<1>9. \A k \in AllKinds, keys \in Seq(P), items \in Seq(P) :
        Len(keys) = Len(items) => Table(k, keys, items) \in DatumsOf(P)
  BY <1>0, <1>3, <1>4 DEF Table
<1> QED
  BY <1>2, <1>5, <1>6, <1>7, <1>8, <1>9

\* A leaf is in every set of values, and a collection is made of values.
LEMMA InEvery == ASSUME NEW d \in Nat
                 PROVE  /\ \A k \in AllKinds : Plain(k) \in Datums(d)
                        /\ \A k \in AllKinds, n \in Int : Number(k, n) \in Datums(d)
                        /\ \A k \in AllKinds, w \in Words : Word(k, w) \in Datums(d)
                        /\ \A v \in Datums(d) : /\ v.k \in AllKinds /\ v.n \in Int /\ v.w \in Words
                                                /\ v.keys \in Seq(Datums(d)) /\ v.items \in Seq(Datums(d))
                                                /\ DOMAIN v.keys \subseteq DOMAIN v.items
<1>1. PICK P : Datums(d) = DatumsOf(P) /\ P \subseteq Datums(d)
  <2>1. CASE d = 0
    BY <2>1, NestedSteps
  <2>2. CASE d # 0
    <3>1. d - 1 \in Nat /\ (d - 1) + 1 = d /\ d - 1 <= d
      BY <2>2
    <3> QED
      BY <3>1, NestedSteps, Deeper
  <2> QED
    BY <2>1, <2>2
<1>2. Seq(P) \subseteq Seq(Datums(d))
  BY <1>1
<1> QED
  BY <1>1, <1>2, InDatums

-----------------------------------------------------------------------------
(* Sorted maps.                                                            *)

\* at tells which of the entries is the m-th of the sorted map.
Sorts(at, n, key, item) ==
  /\ at \in [1 .. n -> DOMAIN key]
  /\ SortedMap(key, item) = Table("scvMap", [m \in 1 .. n |-> key[at[m]]], [m \in 1 .. n |-> item[at[m]]])
  /\ \A i \in DOMAIN key : \E m \in 1 .. n : at[m] = i
  /\ \A a, b \in 1 .. n : a < b => Rank(key[at[a]]) < Rank(key[at[b]])

\* sortedScvMap puts the entries in the order of their keys, each once.
LEMMA Sorting ==
  ASSUME NEW I, NEW n, NEW key, NEW item, IsFiniteSet(I), n = Cardinality(I), DOMAIN key = I,
         ~EntriesInvalid(key, item), \A i \in I : Rank(key[i]) \in Nat,
         \A i, j \in I : Rank(key[i]) = Rank(key[j]) => key[i] = key[j]
  PROVE  n \in Nat /\ \E at : Sorts(at, n, key, item)
<1> DEFINE rank == [i \in I |-> Rank(key[i])]
           S == {Rank(key[j]) : j \in I}
           pick(m) == CHOOSE i \in I : Rank(key[i]) = Nth(S, m)
           at == [m \in 1 .. n |-> pick(m)]
<1>1. n \in Nat
  BY FS_CardinalityType
<1>2. \A i, j \in I : Rank(key[i]) = Rank(key[j]) => i = j
  BY DEF EntriesInvalid
<1>3. IsFiniteSet(S) /\ Cardinality(S) = n
  <2>1. rank \in Bijection(I, S)
    BY <1>2 DEF Bijection, Injection, Surjection, IsInjective
  <2> QED
    BY <2>1, FS_Bijection DEF ExistsBijection
<1>4. S \in SUBSET Nat
  OBVIOUS
<1>5. /\ \A m \in 1 .. n : Nth(S, m) \in S
      /\ \A x \in S : \E m \in 1 .. n : x = Nth(S, m)
      /\ \A a, b \in 1 .. n : a < b => Nth(S, a) < Nth(S, b)
  BY <1>3, <1>4, NthCounts
<1>6. ASSUME NEW m \in 1 .. n PROVE pick(m) \in I /\ Rank(key[pick(m)]) = Nth(S, m)
  <2>1. Nth(S, m) \in S
    BY <1>5
  <2>2. PICK i \in I : Rank(key[i]) = Nth(S, m)
    BY <2>1
  <2> QED
    BY <2>2
<1>7. SortedMap(key, item) = Table("scvMap", [m \in 1 .. n |-> key[pick(m)]], [m \in 1 .. n |-> item[pick(m)]])
  BY DEF SortedMap
<1>a. \A i \in I : Rank(key[i]) \in S
  OBVIOUS
<1> HIDE DEF pick, S
<1>8. /\ at \in [1 .. n -> I]
      /\ SortedMap(key, item) = Table("scvMap", [m \in 1 .. n |-> key[at[m]]], [m \in 1 .. n |-> item[at[m]]])
  <2>1. \A m \in 1 .. n : at[m] = pick(m)
    OBVIOUS
  <2>2. /\ [m \in 1 .. n |-> key[pick(m)]] = [m \in 1 .. n |-> key[at[m]]]
        /\ [m \in 1 .. n |-> item[pick(m)]] = [m \in 1 .. n |-> item[at[m]]]
    BY <2>1
  <2> QED
    BY <1>6, <1>7, <2>2
<1>9. ASSUME NEW i \in I PROVE \E m \in 1 .. n : at[m] = i
  <2>1. Rank(key[i]) \in S
    BY <1>a
  <2>2. PICK m \in 1 .. n : Rank(key[i]) = Nth(S, m)
    BY <1>5, <2>1
  <2> QED
    BY <1>2, <1>6, <2>2
<1>10. \A a, b \in 1 .. n : a < b => Rank(key[at[a]]) < Rank(key[at[b]])
  BY <1>5, <1>6
<1> QED
  <2> HIDE DEF at
  <2>1. Sorts(at, n, key, item)
    BY <1>8, <1>9, <1>10 DEF Sorts
  <2> QED
    BY <1>1, <2>1

\* Entries that are in order stay as they are.
KeysOrdered(n, B, key, item) ==
  /\ key \in [1 .. n -> B] /\ item \in [1 .. n -> B]
  /\ \A i \in 1 .. n : key[i] # Invalid /\ item[i] # Invalid /\ Rank(key[i]) \in Nat
  /\ \A a, b \in 1 .. n : a < b => Rank(key[a]) < Rank(key[b])

\* What is in order stays as it is: a map that was decoded is encoded in the same order.
LEMMA InOrder ==
  ASSUME NEW n \in Nat, NEW B, NEW key, NEW item, KeysOrdered(n, B, key, item)
  PROVE  SortedMap(key, item) = Table("scvMap", key, item)
<1>0. /\ key \in [1 .. n -> B] /\ item \in [1 .. n -> B]
      /\ \A i \in 1 .. n : key[i] # Invalid /\ item[i] # Invalid /\ Rank(key[i]) \in Nat
      /\ \A a, b \in 1 .. n : a < b => Rank(key[a]) < Rank(key[b])
  BY DEF KeysOrdered
<1>1. \A a, b \in 1 .. n : Rank(key[a]) = Rank(key[b]) => a = b
  <2> SUFFICES ASSUME NEW a \in 1 .. n, NEW b \in 1 .. n, Rank(key[a]) = Rank(key[b]), a # b PROVE FALSE
    OBVIOUS
  <2>1. a < b \/ b < a
    OBVIOUS
  <2>2. Rank(key[a]) \in Nat /\ Rank(key[b]) \in Nat
    BY <1>0
  <2>3. Rank(key[a]) < Rank(key[b]) \/ Rank(key[b]) < Rank(key[a])
    BY <1>0, <2>1
  <2> QED
    BY <2>2, <2>3
<1>2. IsFiniteSet(1 .. n) /\ n = Cardinality(1 .. n) /\ DOMAIN key = 1 .. n
  BY <1>0, FS_Interval
<1>3. ~EntriesInvalid(key, item)
  BY <1>0, <1>1 DEF EntriesInvalid
<1>4. PICK at : Sorts(at, n, key, item)
  <2>1. \A i \in 1 .. n : Rank(key[i]) \in Nat
    BY <1>0
  <2>2. \A i, j \in 1 .. n : Rank(key[i]) = Rank(key[j]) => key[i] = key[j]
    BY <1>1
  <2> QED
    BY <1>2, <1>3, <2>1, <2>2, Sorting
<1>a. /\ at \in [1 .. n -> 1 .. n]
      /\ SortedMap(key, item) = Table("scvMap", [m \in 1 .. n |-> key[at[m]]], [m \in 1 .. n |-> item[at[m]]])
      /\ \A i \in 1 .. n : \E m \in 1 .. n : at[m] = i
      /\ \A a, b \in 1 .. n : a < b => Rank(key[at[a]]) < Rank(key[at[b]])
  BY <1>2, <1>4 DEF Sorts
<1>5. \A a, b \in 1 .. n : a < b => at[a] < at[b]
  <2> SUFFICES ASSUME NEW a \in 1 .. n, NEW b \in 1 .. n, a < b, ~(at[a] < at[b]) PROVE FALSE
    OBVIOUS
  <2>1. at[a] \in 1 .. n /\ at[b] \in 1 .. n /\ Rank(key[at[a]]) < Rank(key[at[b]])
    BY <1>a
  <2>2. at[b] < at[a] \/ at[b] = at[a]
    BY <2>1
  <2>3. Rank(key[at[b]]) < Rank(key[at[a]]) \/ Rank(key[at[b]]) = Rank(key[at[a]])
    BY <1>0, <2>1, <2>2
  <2>4. Rank(key[at[a]]) \in Nat /\ Rank(key[at[b]]) \in Nat
    BY <1>0, <2>1
  <2>5. \A x, y \in Nat : x < y => ~(y < x) /\ x # y
    OBVIOUS
  <2> QED
    BY <2>1, <2>3, <2>4, <2>5
<1>6. \A m \in 1 .. n : at[m] = m
  <2> DEFINE Bad == {m \in 1 .. n : at[m] # m}
  <2> SUFFICES ASSUME Bad # {} PROVE FALSE
    OBVIOUS
  <2>1. Bad \in SUBSET Nat
    OBVIOUS
  <2>2. PICK m \in Bad : \A j \in Bad : m <= j
    BY <2>1, MinIs
  <2>3. m \in 1 .. n /\ at[m] \in 1 .. n /\ at[m] # m /\ \A j \in 1 .. n : j < m => at[j] = j
    <3>1. m \in 1 .. n /\ at[m] # m
      BY <2>2
    <3>2. ASSUME NEW j \in 1 .. n, j < m PROVE at[j] = j
      <4>1. ~(m <= j)
        BY <3>1, <3>2
      <4>2. j \notin Bad
        BY <2>2, <4>1
      <4> QED
        BY <4>2
    <3> QED
      BY <1>a, <3>1, <3>2
  <2>4. PICK j \in 1 .. n : at[j] = m
    BY <1>a, <2>3
  <2>5. ~(j < m) /\ j # m
    BY <2>3, <2>4
  <2>6. m < j
    BY <2>3, <2>5
  <2>7. at[m] < m
    BY <1>5, <2>3, <2>4, <2>6
  <2>8. at[at[m]] = at[m]
    BY <2>3, <2>7
  <2>9. at[at[m]] < at[m]
    BY <1>5, <2>3, <2>7
  <2> QED
    BY <2>3, <2>8, <2>9
<1>7. /\ [m \in 1 .. n |-> key[at[m]]] = [m \in 1 .. n |-> key[m]]
      /\ [m \in 1 .. n |-> item[at[m]]] = [m \in 1 .. n |-> item[m]]
  BY <1>6
<1>8. SortedMap(key, item) = Table("scvMap", [m \in 1 .. n |-> key[m]], [m \in 1 .. n |-> item[m]])
  BY <1>a, <1>7
<1>9. key = [m \in 1 .. n |-> key[m]] /\ item = [m \in 1 .. n |-> item[m]]
  BY <1>0
<1> QED
  BY <1>8, <1>9

-----------------------------------------------------------------------------
(* What is kept, and by the leaves.                                        *)

\* x is what something of type t is encoded to, S the values that are not nested deeper than t.
\* The host accepts it, and y, to which it is decoded, is encoded as x again.
Kept(x, S, t, accepted, y, again) ==
  /\ x \in S /\ x.k \in ScKinds /\ accepted
  /\ x.k = "scvVoid"  => x = Plain("scvVoid")
  /\ x.k = "scvError" => x = Number("scvError", x.n)
  /\ t.k = "int"      => x = Number("scvInt", x.n) /\ x.n \in 0 .. MaxInteger
  /\ t.k = "symbol"   => x = Word("scvSymbol", x.w) /\ x.w \in Symbols
  /\ t.k # "args" => /\ y \in S /\ y.k \in JsKinds /\ y.k # "undefined"
                     /\ y.k = "null" => x.k = "scvVoid"
                     /\ again = x

\* So it is with the parts of a type: P are their types, B the values that are not nested deeper.
PartsKept(E, D, A, P, B, V) ==
  \A s \in P, v \in V : \/ E[s][v] = Invalid
                        \/ Kept(E[s][v], B, s, A[s][E[s][v]], D[s][E[s][v]], E[s][D[s][E[s][v]]])

\* V are all the values.
Parts(E, D, A, P, B, V) ==
  /\ PartsKept(E, D, A, P, B, V) /\ B \subseteq V
  /\ \A k \in AllKinds : Plain(k) \in B
  /\ \A k \in AllKinds, n \in Int : Number(k, n) \in B
  /\ \A k \in AllKinds, w \in Words : Word(k, w) \in B
  /\ \A v \in V : /\ v.k \in AllKinds /\ v.n \in Int /\ v.w \in Words
                  /\ v.keys \in Seq(V) /\ v.items \in Seq(V) /\ DOMAIN v.keys \subseteq DOMAIN v.items

\* So is the whole: v, as a value of type t.
WholeKept(E, D, A, S, t, v) ==
  \/ EncodeBy(E, v, t) = Invalid
  \/ Kept(EncodeBy(E, v, t), S, t, AcceptsBy(A, EncodeBy(E, v, t), t), DecodeBy(D, EncodeBy(E, v, t), t),
          EncodeBy(E, DecodeBy(D, EncodeBy(E, v, t), t), t))

\* What a type is made of.
LEMMA TypeIs == ASSUME NEW P, NEW t \in TypesOf(P)
                PROVE  t.k \in Kinds /\ t.names \in Seq(Symbols) /\ t.t \in Seq(P) /\ WellFormed(t)
BY DEF TypesOf

\* Whatever is given for a void comes back as null.
LEMMA VoidKept == ASSUME NEW E, NEW D, NEW A, NEW P, NEW B, NEW V, Parts(E, D, A, P, B, V),
                         NEW t \in TypesOf(P), t.k = "void", NEW v \in V
                  PROVE  WholeKept(E, D, A, DatumsOf(B), t, v)
<1> DEFINE x == Plain("scvVoid")
           y == Plain("null")
<1>1. EncodeBy(E, v, t) = x /\ EncodeBy(E, y, t) = x
  BY DatumFields DEF EncodeBy
<1>2. DecodeBy(D, x, t) = y
  BY DatumFields DEF DecodeBy, DecodeLeaf
<1>3. AcceptsBy(A, x, t)
  BY DatumFields DEF AcceptsBy
<1>4. x \in DatumsOf(B) /\ y \in DatumsOf(B) /\ x.k = "scvVoid" /\ y.k = "null"
  BY DatumFields, InDatums DEF AllKinds, JsKinds, ScKinds
<1> HIDE DEF x, y
<1> QED
  BY <1>1, <1>2, <1>3, <1>4 DEF WholeKept, Kept, ScKinds, JsKinds, x, y

\* An integer comes back as a number, however it was given.
LEMMA IntKept == ASSUME NEW E, NEW D, NEW A, NEW P, NEW B, NEW V, Parts(E, D, A, P, B, V),
                        NEW t \in TypesOf(P), t.k = "int", NEW v \in V
                 PROVE  WholeKept(E, D, A, DatumsOf(B), t, v)
<1>1. CASE EncodeBy(E, v, t) = Invalid
  BY <1>1 DEF WholeKept
<1>2. CASE EncodeBy(E, v, t) # Invalid
  <2>1. EncodeBy(E, v, t) = ParseInteger(v)
    BY <1>2 DEF EncodeBy
  <2>2. PICK n \in 0 .. MaxInteger : EncodeBy(E, v, t) = Number("scvInt", n)
    BY <1>2, <2>1 DEF ParseInteger
  <2> DEFINE x == Number("scvInt", n)
             y == Number("number", n)
  <2>3. n \in Int /\ x.k = "scvInt" /\ x.n = n /\ y.k = "number" /\ y.n = n
    BY DatumFields DEF MaxInteger
  <2>4. x \in DatumsOf(B) /\ y \in DatumsOf(B)
    BY <2>3, InDatums DEF AllKinds, JsKinds, ScKinds
  <2> HIDE DEF x, y
  <2>5. DecodeBy(D, x, t) = y
    BY <2>3 DEF DecodeBy, DecodeLeaf, y
  <2>6. AcceptsBy(A, x, t)
    BY <2>3 DEF AcceptsBy
  <2>7. EncodeBy(E, y, t) = x
    <3>1. ParseInteger(y) = x
      BY <2>3 DEF ParseInteger, x
    <3> QED
      BY <2>3, <3>1 DEF EncodeBy
  <2>8. EncodeBy(E, v, t) = x
    BY <2>2 DEF x
  <2> QED
    BY <2>3, <2>4, <2>5, <2>6, <2>7, <2>8 DEF WholeKept, Kept, ScKinds, JsKinds, x
<1> QED
  BY <1>1, <1>2

\* A symbol comes back as the string it was.
LEMMA SymbolKept == ASSUME NEW E, NEW D, NEW A, NEW P, NEW B, NEW V, Parts(E, D, A, P, B, V),
                           NEW t \in TypesOf(P), t.k = "symbol", NEW v \in V
                    PROVE  WholeKept(E, D, A, DatumsOf(B), t, v)
<1>1. CASE EncodeBy(E, v, t) = Invalid
  BY <1>1 DEF WholeKept
<1>2. CASE EncodeBy(E, v, t) # Invalid
  <2>1. EncodeBy(E, v, t) = IF v.k = "string" /\ \E i \in DOMAIN WordOrder : v.w = WordOrder[i]
                            THEN Word("scvSymbol", v.w) ELSE Invalid
    BY <1>2 DEF EncodeBy
  <2>2. v.w \in Symbols /\ v.w \in Words /\ EncodeBy(E, v, t) = Word("scvSymbol", v.w)
    <3>1. v.k = "string" /\ \E i \in DOMAIN WordOrder : v.w = WordOrder[i]
      BY <1>2, <2>1
    <3>2. EncodeBy(E, v, t) = Word("scvSymbol", v.w)
      BY <2>1, <3>1
    <3> QED
      BY <3>1, <3>2 DEF Symbols, Parts
  <2> DEFINE x == Word("scvSymbol", v.w)
             y == Word("string", v.w)
  <2>3. x.k = "scvSymbol" /\ x.w = v.w /\ y.k = "string" /\ y.w = v.w
    BY DatumFields
  <2>4. x \in DatumsOf(B) /\ y \in DatumsOf(B)
    BY <2>2, InDatums DEF AllKinds, JsKinds, ScKinds
  <2> HIDE DEF x, y
  <2>5. DecodeBy(D, x, t) = y
    BY <2>3 DEF DecodeBy, DecodeLeaf, y
  <2>6. AcceptsBy(A, x, t)
    BY <2>2, <2>3 DEF AcceptsBy
  <2>7. EncodeBy(E, y, t) = x
    <3>1. \E i \in DOMAIN WordOrder : y.w = WordOrder[i]
      BY <2>2, <2>3 DEF Symbols
    <3> QED
      BY <2>3, <3>1 DEF EncodeBy, x
  <2>8. EncodeBy(E, v, t) = x
    BY <2>2 DEF x
  <2> QED
    BY <2>2, <2>3, <2>4, <2>5, <2>6, <2>7, <2>8 DEF WholeKept, Kept, ScKinds, JsKinds, x
<1> QED
  BY <1>1, <1>2

\* A case comes back as its number, which is accepted like its name.
LEMMA EnumKept == ASSUME NEW E, NEW D, NEW A, NEW P, NEW B, NEW V, Parts(E, D, A, P, B, V),
                         NEW t \in TypesOf(P), t.k = "enum", NEW v \in V
                  PROVE  WholeKept(E, D, A, DatumsOf(B), t, v)
<1>1. CASE EncodeBy(E, v, t) = Invalid
  BY <1>1 DEF WholeKept
<1>2. CASE EncodeBy(E, v, t) # Invalid
  <2> DEFINE I(u) == {i \in DOMAIN t.names : u \in {Word("string", t.names[i]), Number("number", i)}}
  <2>1. EncodeBy(E, v, t) = EncodeEnum(v, t)
    BY <1>2 DEF EncodeBy
  <2>2. PICK i \in DOMAIN t.names : EncodeBy(E, v, t) = Number("scvInt", i)
    <3>1. I(v) # {} /\ EncodeBy(E, v, t) = Number("scvInt", CHOOSE i \in I(v) : TRUE)
      BY <1>2, <2>1 DEF EncodeEnum
    <3> QED
      BY <3>1
  <2> DEFINE x == Number("scvInt", i)
             y == Number("number", i)
  <2>3. i \in Int /\ x.k = "scvInt" /\ x.n = i /\ y.k = "number" /\ y.n = i
    <3>1. t.names \in Seq(Symbols)
      BY TypeIs
    <3> QED
      BY <3>1, DatumFields
  <2>4. x \in DatumsOf(B) /\ y \in DatumsOf(B)
    BY <2>3, InDatums DEF AllKinds, JsKinds, ScKinds
  <2>5. I(y) = {i}
    <3>1. \A j \in DOMAIN t.names : y # Word("string", t.names[j])
      BY <2>3, DatumFields
    <3>2. \A j \in DOMAIN t.names : y = Number("number", j) => j = i
      BY DatumFields
    <3> QED
      BY <3>1, <3>2
  <2>6. EncodeEnum(y, t) = x
    BY <2>5 DEF EncodeEnum
  <2> HIDE DEF x, y
  <2>7. DecodeBy(D, x, t) = y
    BY <2>3 DEF DecodeBy, y
  <2>8. AcceptsBy(A, x, t)
    BY <2>3 DEF AcceptsBy
  <2>9. EncodeBy(E, y, t) = x
    BY <2>3, <2>6 DEF EncodeBy
  <2>10. EncodeBy(E, v, t) = x
    BY <2>2 DEF x
  <2> QED
    BY <2>3, <2>4, <2>7, <2>8, <2>9, <2>10 DEF WholeKept, Kept, ScKinds, JsKinds
<1> QED
  BY <1>1, <1>2

\* What is to be shown of the other types.
LEMMA KeptByParts ==
  ASSUME NEW E, NEW D, NEW A, NEW S, NEW t, NEW v, NEW x, NEW y, t.k \notin {"int", "symbol"},
         EncodeBy(E, v, t) = x, x \in S, x.k \in ScKinds, AcceptsBy(A, x, t),
         x.k = "scvVoid" => x = Plain("scvVoid"), x.k = "scvError" => x = Number("scvError", x.n),
         t.k # "args" => /\ DecodeBy(D, x, t) = y /\ y \in S /\ y.k \in JsKinds /\ y.k # "undefined"
                         /\ y.k = "null" => x.k = "scvVoid"
                         /\ EncodeBy(E, y, t) = x
  PROVE  WholeKept(E, D, A, S, t, v)
<1>1. CASE t.k = "args"
  <2>1. Kept(x, S, t, AcceptsBy(A, x, t), DecodeBy(D, x, t), EncodeBy(E, DecodeBy(D, x, t), t))
    BY <1>1 DEF Kept
  <2> QED
    BY <2>1 DEF WholeKept
<1>2. CASE t.k # "args"
  <2>1. Kept(x, S, t, AcceptsBy(A, x, t), y, EncodeBy(E, y, t))
    BY <1>2 DEF Kept
  <2>2. Kept(x, S, t, AcceptsBy(A, x, t), DecodeBy(D, x, t), EncodeBy(E, DecodeBy(D, x, t), t))
    BY <1>2, <2>1
  <2> QED
    BY <2>2 DEF WholeKept
<1> QED
  BY <1>1, <1>2

\* An option is void or what it is an option of, and nothing but a void comes back as null.
LEMMA OptionKept == ASSUME NEW E, NEW D, NEW A, NEW P, NEW B, NEW V, Parts(E, D, A, P, B, V),
                           B \subseteq DatumsOf(B),
                           NEW t \in TypesOf(P), t.k = "option", NEW v \in V
                    PROVE  WholeKept(E, D, A, DatumsOf(B), t, v)
<1> DEFINE s == t.t[1]
<1>1. s \in P /\ s.k # "args"
  BY TypeIs DEF WellFormed
<1>2. CASE v.k \in {"null", "undefined"}
  <2> DEFINE x == Plain("scvVoid")
             y == Plain("null")
  <2>1. x.k = "scvVoid" /\ y.k = "null"
    BY DatumFields
  <2>2. x \in DatumsOf(B) /\ y \in DatumsOf(B)
    BY InDatums DEF AllKinds, JsKinds, ScKinds
  <2>3. EncodeBy(E, v, t) = x
    BY <1>2 DEF EncodeBy
  <2> HIDE DEF x, y
  <2>4. DecodeBy(D, x, t) = y
    BY <2>1 DEF DecodeBy, DecodeGeneric, y
  <2>5. AcceptsBy(A, x, t)
    BY <2>1 DEF AcceptsBy
  <2>6. EncodeBy(E, y, t) = x
    BY <2>1 DEF EncodeBy, x
  <2> QED
    BY <2>1, <2>2, <2>3, <2>4, <2>5, <2>6 DEF WholeKept, Kept, ScKinds, JsKinds, x
<1>3. CASE v.k \notin {"null", "undefined"}
  <2> DEFINE x == E[s][v]
             y == D[s][x]
  <2>1. EncodeBy(E, v, t) = x
    BY <1>3 DEF EncodeBy
  <2>2. x = Invalid \/ Kept(x, B, s, A[s][x], y, E[s][y])
    BY <1>1 DEF Parts, PartsKept
  <2>3. CASE x = Invalid
    BY <2>1, <2>3 DEF WholeKept
  <2>4. CASE x # Invalid
    <3>0. AcceptsBy(A, x, t) = (x.k = "scvVoid" \/ A[s][x])
      BY DEF AcceptsBy
    <3>a. DecodeBy(D, x, t) = IF x.k = "scvVoid" THEN Plain("null") ELSE y
      BY DEF DecodeBy, DecodeGeneric
    <3>b. \A u : u.k \notin {"null", "undefined"} => EncodeBy(E, u, t) = E[s][u]
      BY DEF EncodeBy
    <3>c. EncodeBy(E, Plain("null"), t) = Plain("scvVoid")
      BY DatumFields DEF EncodeBy
    <3> HIDE DEF x, y, s
    <3>1. /\ x \in B /\ x.k \in ScKinds /\ A[s][x]
          /\ x.k = "scvVoid" => x = Plain("scvVoid")
          /\ x.k = "scvError" => x = Number("scvError", x.n)
          /\ y \in B /\ y.k \in JsKinds /\ y.k # "undefined" /\ (y.k = "null" => x.k = "scvVoid") /\ E[s][y] = x
      BY <1>1, <2>2, <2>4 DEF Kept
    <3>2. AcceptsBy(A, x, t)
      BY <3>0, <3>1
    <3>3. CASE x.k = "scvVoid"
      <4>1. DecodeBy(D, x, t) = Plain("null") /\ x = Plain("scvVoid")
        BY <3>1, <3>3, <3>a
      <4>2. Plain("null").k = "null" /\ Plain("null") \in DatumsOf(B) /\ Plain("scvVoid") \in DatumsOf(B)
        BY DatumFields, InDatums DEF AllKinds, JsKinds, ScKinds
      <4> QED
        <5>1. EncodeBy(E, Plain("null"), t) = x /\ EncodeBy(E, v, t) = x /\ x \in DatumsOf(B)
          BY <2>1, <3>c, <4>1, <4>2
        <5>2. Plain("null").k \in JsKinds /\ Plain("null").k # "undefined" /\ x.k # "scvError"
          BY <3>3, <4>2 DEF JsKinds
        <5> QED
          BY <3>1, <3>2, <3>3, <4>1, <4>2, <5>1, <5>2, KeptByParts
    <3>4. CASE x.k # "scvVoid"
      <4>1. DecodeBy(D, x, t) = y /\ EncodeBy(E, y, t) = x
        BY <3>1, <3>4, <3>a, <3>b
      <4> QED
        <5>1. x \in DatumsOf(B) /\ y \in DatumsOf(B)
          BY <3>1
        <5> QED
          BY <2>1, <3>1, <3>2, <3>4, <4>1, <5>1, KeptByParts
    <3> QED
      BY <3>3, <3>4
  <2> QED
    BY <2>3, <2>4
<1> QED
  BY <1>2, <1>3

-----------------------------------------------------------------------------
(* Lists.                                                                  *)

\* No value is the error.
LEMMA NotInvalid == ASSUME NEW E, NEW D, NEW A, NEW P, NEW B, NEW V, Parts(E, D, A, P, B, V)
                    PROVE  \A u \in V : u # Invalid
<1>1. Invalid.k \notin AllKinds
  BY DatumFields DEF AllKinds, JsKinds, ScKinds, Invalid
<1> QED
  BY <1>1 DEF Parts

\* A function of 1 .. n is a sequence.
LEMMA AsSeq == ASSUME NEW S, NEW n \in Nat, NEW f \in [1 .. n -> S] PROVE f \in Seq(S) /\ Len(f) = n
OBVIOUS

\* The items of X are encoded to, those of Y decoded, each by its type.
EachKept(E, D, A, B, n, X, Y, of) ==
  /\ X \in Seq(B) /\ Len(X) = n /\ Y \in Seq(B) /\ Len(Y) = n
  /\ \A i \in 1 .. n : /\ X[i] # Invalid /\ A[of[i]][X[i]] /\ D[of[i]][X[i]] = Y[i]
                       /\ Y[i] # Invalid /\ Y[i].k # "undefined" /\ E[of[i]][Y[i]] = X[i]

\* w are encoded to X, and those decoded to Y.
Coded(E, D, P, V, n, w, X, Y, of) ==
  /\ X = [i \in 1 .. n |-> X[i]] /\ Y = [i \in 1 .. n |-> Y[i]]
  /\ \A i \in 1 .. n : /\ w[i] \in V /\ of[i] \in P /\ of[i].k # "args" /\ E[of[i]][w[i]] # Invalid
                       /\ X[i] = E[of[i]][w[i]] /\ Y[i] = D[of[i]][X[i]]

\* Items that are all encoded are all kept.
LEMMA Items ==
  ASSUME NEW E, NEW D, NEW A, NEW P, NEW B, NEW V, Parts(E, D, A, P, B, V),
         NEW n \in Nat, NEW w, NEW of, NEW X, NEW Y, Coded(E, D, P, V, n, w, X, Y, of)
  PROVE  EachKept(E, D, A, B, n, X, Y, of)
<1>1. ASSUME NEW i \in 1 .. n
      PROVE  /\ X[i] \in B /\ A[of[i]][X[i]] /\ Y[i] \in B /\ Y[i].k # "undefined" /\ E[of[i]][Y[i]] = X[i]
             /\ X[i] # Invalid /\ Y[i] # Invalid /\ D[of[i]][X[i]] = Y[i]
  <2>0. /\ w[i] \in V /\ of[i] \in P /\ of[i].k # "args" /\ E[of[i]][w[i]] # Invalid
        /\ X[i] = E[of[i]][w[i]] /\ Y[i] = D[of[i]][X[i]]
    BY DEF Coded
  <2>1. Kept(X[i], B, of[i], A[of[i]][X[i]], Y[i], E[of[i]][Y[i]])
    <3> DEFINE u == w[i]
               s == of[i]
    <3>1. /\ u \in V /\ s \in P /\ s.k # "args" /\ E[s][u] # Invalid
          /\ X[i] = E[s][u] /\ Y[i] = D[s][X[i]]
      BY <2>0
    <3> HIDE DEF u, s
    <3>2. Kept(E[s][u], B, s, A[s][E[s][u]], D[s][E[s][u]], E[s][D[s][E[s][u]]])
      BY <3>1 DEF Parts, PartsKept
    <3> QED
      BY <3>1, <3>2 DEF s
  <2>2. /\ X[i] \in B /\ A[of[i]][X[i]] /\ Y[i] \in B /\ Y[i].k # "undefined" /\ E[of[i]][Y[i]] = X[i]
    BY <2>0, <2>1 DEF Kept
  <2>3. B \subseteq V
    BY DEF Parts
  <2> QED
    BY <2>0, <2>2, <2>3, NotInvalid
<1>2. X \in Seq(B) /\ Len(X) = n /\ Y \in Seq(B) /\ Len(Y) = n
  <2>1. X \in [1 .. n -> B] /\ Y \in [1 .. n -> B]
    BY <1>1 DEF Coded
  <2> QED
    BY <2>1, AsSeq, Zenon
<1> QED
  BY <1>1, <1>2 DEF EachKept

\* v and what it becomes are lists of n items, each of its type.
AsList(E, D, A, t, v, n, w, of) ==
  /\ EncodeBy(E, v, t) = ListOrInvalid([i \in 1 .. n |-> E[of[i]][w[i]]])
  /\ \A X : (Len(X) = n /\ DOMAIN X = 1 .. n /\ \A i \in 1 .. n : A[of[i]][X[i]])
           => AcceptsBy(A, List("scvVec", X), t)
  /\ \A X : Len(X) = n /\ DOMAIN X = 1 .. n /\ t.k # "args"
           => /\ DecodeBy(D, List("scvVec", X), t) = ArrayOrInvalid([i \in 1 .. n |-> D[of[i]][X[i]]])
              /\ EncodeBy(E, List("array", X), t) = ListOrInvalid([i \in 1 .. n |-> E[of[i]][X[i]]])

\* A list of which every item is kept is kept.
LEMMA ListKept ==
  ASSUME NEW E, NEW D, NEW A, NEW P, NEW B, NEW V, Parts(E, D, A, P, B, V),
         NEW t, t.k \in {"vec", "tuple", "args"}, NEW v, NEW n \in Nat, NEW w, NEW of,
         \A i \in 1 .. n : w[i] \in V /\ of[i] \in P /\ of[i].k # "args",
         AsList(E, D, A, t, v, n, w, of)
  PROVE  WholeKept(E, D, A, DatumsOf(B), t, v)
<1> DEFINE X == [i \in 1 .. n |-> E[of[i]][w[i]]]
           Y == [i \in 1 .. n |-> D[of[i]][E[of[i]][w[i]]]]
           x == List("scvVec", X)
           y == List("array", Y)
<1>1. CASE EncodeBy(E, v, t) = Invalid
  BY <1>1 DEF WholeKept
<1>2. CASE EncodeBy(E, v, t) # Invalid
  <2>0. EncodeBy(E, v, t) = ListOrInvalid(X)
    BY DEF AsList
  <2>1. \A i \in 1 .. n : E[of[i]][w[i]] # Invalid
    BY <1>2, <2>0 DEF ListOrInvalid, AnyInvalid
  <2>2. EachKept(E, D, A, B, n, X, Y, of)
    <3>1. \A i \in 1 .. n : w[i] \in V /\ of[i] \in P /\ of[i].k # "args" /\ E[of[i]][w[i]] # Invalid
      BY <2>1
    <3>2. Coded(E, D, P, V, n, w, X, Y, of)
      BY <3>1 DEF Coded
    <3> HIDE DEF X, Y
    <3> QED
      BY <3>2, Items
  <2>3. EncodeBy(E, v, t) = x
    BY <2>0, <2>1 DEF ListOrInvalid, AnyInvalid
  <2>4. DOMAIN X = 1 .. n /\ DOMAIN Y = 1 .. n
    OBVIOUS
  <2> HIDE DEF X, Y
  <2>5. X = [i \in 1 .. n |-> E[of[i]][Y[i]]] /\ Y = [i \in 1 .. n |-> D[of[i]][X[i]]]
    <3>1. \A i \in 1 .. n : X[i] = E[of[i]][Y[i]] /\ Y[i] = D[of[i]][X[i]]
      BY <2>2 DEF EachKept
    <3>2. X = [i \in 1 .. n |-> X[i]] /\ Y = [i \in 1 .. n |-> Y[i]]
      BY DEF X, Y
    <3> QED
      BY <3>1, <3>2
  <2>6. ~AnyInvalid(X) /\ ~AnyInvalid(Y)
    BY <2>2, <2>4 DEF EachKept, AnyInvalid
  <2>7. AcceptsBy(A, x, t)
    <3>1. Len(X) = n /\ DOMAIN X = 1 .. n /\ \A i \in 1 .. n : A[of[i]][X[i]]
      BY <2>2, <2>4 DEF EachKept
    <3>2. \A Z : (Len(Z) = n /\ DOMAIN Z = 1 .. n /\ \A i \in 1 .. n : A[of[i]][Z[i]])
                => AcceptsBy(A, List("scvVec", Z), t)
      BY DEF AsList
    <3> QED
      BY <3>1, <3>2, Zenon
  <2>8. t.k # "args" => DecodeBy(D, x, t) = y /\ EncodeBy(E, y, t) = x
    <3>1. Len(X) = n /\ Len(Y) = n
      BY <2>2 DEF EachKept
    <3>2. ArrayOrInvalid(Y) = y /\ ListOrInvalid(X) = x
      BY <2>6 DEF ArrayOrInvalid, ListOrInvalid
    <3>3. t.k # "args" => DecodeBy(D, x, t) = ArrayOrInvalid([i \in 1 .. n |-> D[of[i]][X[i]]])
      BY <2>4, <3>1 DEF AsList
    <3>4. t.k # "args" => EncodeBy(E, y, t) = ListOrInvalid([i \in 1 .. n |-> E[of[i]][Y[i]]])
      BY <2>4, <3>1 DEF AsList
    <3> QED
      BY <2>5, <3>2, <3>3, <3>4
  <2>9. x \in DatumsOf(B) /\ y \in DatumsOf(B) /\ x.k = "scvVec" /\ y.k = "array"
    <3>1. X \in Seq(B) /\ Y \in Seq(B)
      BY <2>2 DEF EachKept
    <3>2. "scvVec" \in AllKinds /\ "array" \in AllKinds
      BY DEF AllKinds, JsKinds, ScKinds
    <3> QED
      BY <3>1, <3>2, DatumFields, InDatums
  <2> HIDE DEF x, y
  <2>10. x.k \in ScKinds /\ y.k \in JsKinds
    BY <2>9 DEF ScKinds, JsKinds
  <2> QED
    BY <2>3, <2>7, <2>8, <2>9, <2>10, KeptByParts
<1> QED
  BY <1>1, <1>2

\* The items of a sequence.
LEMMA OfSeq == ASSUME NEW S, NEW s \in Seq(S)
               PROVE  Len(s) \in Nat /\ DOMAIN s = 1 .. Len(s) /\ \A i \in DOMAIN s : s[i] \in S
OBVIOUS

\* A vector is a list of items of one type.
LEMMA VecKept ==
  ASSUME NEW E, NEW D, NEW A, NEW P, NEW B, NEW V, Parts(E, D, A, P, B, V),
         NEW t \in TypesOf(P), t.k = "vec", NEW v \in V
  PROVE  WholeKept(E, D, A, DatumsOf(B), t, v)
<1> DEFINE s == t.t[1]
           n == Len(v.items)
           w == v.items
           of == [i \in 1 .. n |-> s]
<1>1. CASE EncodeBy(E, v, t) = Invalid
  BY <1>1 DEF WholeKept
<1>2. CASE EncodeBy(E, v, t) # Invalid
  <2>1. EncodeBy(E, v, t) = ListOrInvalid([i \in DOMAIN w |-> E[s][w[i]]])
    BY <1>2 DEF EncodeBy
  <2>2. n \in Nat /\ DOMAIN w = 1 .. n /\ (\A i \in 1 .. n : w[i] \in V) /\ s \in P /\ s.k # "args"
    <3>1. w \in Seq(V)
      BY DEF Parts
    <3>2. s \in P /\ s.k # "args"
      BY TypeIs DEF WellFormed
    <3> HIDE DEF s
    <3> QED
      BY <3>1, <3>2
  <2>3. /\ \A X : (\A i \in DOMAIN X : A[s][X[i]]) => AcceptsBy(A, List("scvVec", X), t)
        /\ \A X : DecodeBy(D, List("scvVec", X), t) = ArrayOrInvalid([i \in DOMAIN X |-> D[s][X[i]]])
        /\ \A X : EncodeBy(E, List("array", X), t) = ListOrInvalid([i \in DOMAIN X |-> E[s][X[i]]])
    <3>1. \A x : x.k = "scvVec" /\ (\A i \in DOMAIN x.items : A[s][x.items[i]]) => AcceptsBy(A, x, t)
      BY DEF AcceptsBy
    <3>2. \A x : x.k = "scvVec" => DecodeBy(D, x, t) = ArrayOrInvalid([i \in DOMAIN x.items |-> D[s][x.items[i]]])
      BY DEF DecodeBy, DecodeGeneric
    <3>3. \A u : u.k = "array" => EncodeBy(E, u, t) = ListOrInvalid([i \in DOMAIN u.items |-> E[s][u.items[i]]])
      BY DEF EncodeBy
    <3> HIDE DEF s
    <3>4. ASSUME NEW X
          PROVE  /\ (\A i \in DOMAIN X : A[s][X[i]]) => AcceptsBy(A, List("scvVec", X), t)
                 /\ DecodeBy(D, List("scvVec", X), t) = ArrayOrInvalid([i \in DOMAIN X |-> D[s][X[i]]])
                 /\ EncodeBy(E, List("array", X), t) = ListOrInvalid([i \in DOMAIN X |-> E[s][X[i]]])
      <4>1. List("scvVec", X).k = "scvVec" /\ List("scvVec", X).items = X
        BY DatumFields
      <4>2. List("array", X).k = "array" /\ List("array", X).items = X
        BY DatumFields
      <4>3. (\A i \in DOMAIN X : A[s][X[i]]) => AcceptsBy(A, List("scvVec", X), t)
        BY <3>1, <4>1
      <4>4. DecodeBy(D, List("scvVec", X), t) = ArrayOrInvalid([i \in DOMAIN X |-> D[s][X[i]]])
        BY <3>2, <4>1
      <4>5. EncodeBy(E, List("array", X), t) = ListOrInvalid([i \in DOMAIN X |-> E[s][X[i]]])
        BY <3>3, <4>2
      <4> QED
        BY <4>3, <4>4, <4>5
    <3> QED
      BY <3>4
  <2> HIDE DEF s, n, w
  <2>4. \A i \in 1 .. n : of[i] = s
    OBVIOUS
  <2>5. AsList(E, D, A, t, v, n, w, of)
    <3>1. EncodeBy(E, v, t) = ListOrInvalid([i \in 1 .. n |-> E[of[i]][w[i]]])
      <4>1. [i \in 1 .. n |-> E[of[i]][w[i]]] = [i \in DOMAIN w |-> E[s][w[i]]]
        BY <2>2, <2>4
      <4> QED
        BY <2>1, <4>1
    <3>2. ASSUME NEW X, DOMAIN X = 1 .. n
          PROVE  /\ [i \in DOMAIN X |-> D[s][X[i]]] = [i \in 1 .. n |-> D[of[i]][X[i]]]
                 /\ [i \in DOMAIN X |-> E[s][X[i]]] = [i \in 1 .. n |-> E[of[i]][X[i]]]
      BY <3>2, <2>4
    <3> HIDE DEF of
    <3>3. ASSUME NEW X, Len(X) = n, DOMAIN X = 1 .. n, \A i \in 1 .. n : A[of[i]][X[i]]
          PROVE  AcceptsBy(A, List("scvVec", X), t)
      <4>1. \A i \in DOMAIN X : A[s][X[i]]
        BY <2>4, <3>3
      <4> QED
        BY <2>3, <4>1
    <3>4. ASSUME NEW X, DOMAIN X = 1 .. n
          PROVE  /\ DecodeBy(D, List("scvVec", X), t) = ArrayOrInvalid([i \in 1 .. n |-> D[of[i]][X[i]]])
                 /\ EncodeBy(E, List("array", X), t) = ListOrInvalid([i \in 1 .. n |-> E[of[i]][X[i]]])
      <4>1. /\ DecodeBy(D, List("scvVec", X), t) = ArrayOrInvalid([i \in DOMAIN X |-> D[s][X[i]]])
            /\ EncodeBy(E, List("array", X), t) = ListOrInvalid([i \in DOMAIN X |-> E[s][X[i]]])
        BY <2>3
      <4> QED
        BY <3>2, <3>4, <4>1
    <3> QED
      BY <3>1, <3>3, <3>4 DEF AsList
  <2>6. \A i \in 1 .. n : w[i] \in V /\ of[i] \in P /\ of[i].k # "args"
    BY <2>2, <2>4
  <2> HIDE DEF of
  <2> QED
    BY <2>2, <2>5, <2>6, ListKept
<1> QED
  BY <1>1, <1>2

\* A tuple is a list with a type for every item.
LEMMA TupleKept ==
  ASSUME NEW E, NEW D, NEW A, NEW P, NEW B, NEW V, Parts(E, D, A, P, B, V),
         NEW t \in TypesOf(P), t.k = "tuple", NEW v \in V
  PROVE  WholeKept(E, D, A, DatumsOf(B), t, v)
<1> DEFINE n == Len(t.t)
           w == v.items
           of == t.t
<1>1. CASE EncodeBy(E, v, t) = Invalid
  BY <1>1 DEF WholeKept
<1>2. CASE EncodeBy(E, v, t) # Invalid
  <2>1. Len(w) = n /\ EncodeBy(E, v, t) = ListOrInvalid([i \in DOMAIN w |-> E[of[i]][w[i]]])
    BY <1>2 DEF EncodeBy, EncodeAll
  <2>2. n \in Nat /\ DOMAIN w = 1 .. n /\ \A i \in 1 .. n : w[i] \in V /\ of[i] \in P /\ of[i].k # "args"
    <3>1. w \in Seq(V)
      BY DEF Parts
    <3>2. of \in Seq(P) /\ \A i \in DOMAIN of : of[i].k # "args"
      BY TypeIs DEF WellFormed
    <3>3. n = Len(of)
      OBVIOUS
    <3> HIDE DEF n, w, of
    <3> QED
      BY <2>1, <3>1, <3>2, <3>3, OfSeq
  <2>3. /\ \A X : (Len(X) = n /\ \A i \in DOMAIN X : A[of[i]][X[i]]) => AcceptsBy(A, List("scvVec", X), t)
        /\ \A X : Len(X) = n =>
             /\ DecodeBy(D, List("scvVec", X), t) = ArrayOrInvalid([i \in DOMAIN X |-> D[of[i]][X[i]]])
             /\ EncodeBy(E, List("array", X), t) = ListOrInvalid([i \in DOMAIN X |-> E[of[i]][X[i]]])
    <3>1. \A x : x.k = "scvVec" /\ Len(x.items) = n /\ (\A i \in DOMAIN x.items : A[of[i]][x.items[i]])
                 => AcceptsBy(A, x, t)
      BY DEF AcceptsBy
    <3>2. \A x : x.k = "scvVec" /\ Len(x.items) = n =>
            DecodeBy(D, x, t) = ArrayOrInvalid([i \in DOMAIN x.items |-> D[of[i]][x.items[i]]])
      BY DEF DecodeBy, DecodeGeneric
    <3>3. \A u : u.k = "array" /\ Len(u.items) = n =>
            EncodeBy(E, u, t) = ListOrInvalid([i \in DOMAIN u.items |-> E[of[i]][u.items[i]]])
      BY DEF EncodeBy, EncodeAll
    <3> HIDE DEF n, of
    <3>4. ASSUME NEW X
          PROVE  (Len(X) = n /\ \A i \in DOMAIN X : A[of[i]][X[i]]) => AcceptsBy(A, List("scvVec", X), t)
      <4>1. List("scvVec", X).k = "scvVec" /\ List("scvVec", X).items = X
        BY DatumFields
      <4> SUFFICES ASSUME Len(X) = n, \A i \in DOMAIN X : A[of[i]][X[i]]
                   PROVE AcceptsBy(A, List("scvVec", X), t)
        OBVIOUS
      <4> QED
        BY <3>1, <4>1
    <3>5. ASSUME NEW X, Len(X) = n
          PROVE  /\ DecodeBy(D, List("scvVec", X), t) = ArrayOrInvalid([i \in DOMAIN X |-> D[of[i]][X[i]]])
                 /\ EncodeBy(E, List("array", X), t) = ListOrInvalid([i \in DOMAIN X |-> E[of[i]][X[i]]])
      <4>1. List("scvVec", X).k = "scvVec" /\ List("scvVec", X).items = X
        BY DatumFields
      <4>2. List("array", X).k = "array" /\ List("array", X).items = X
        BY DatumFields
      <4>3. DecodeBy(D, List("scvVec", X), t) = ArrayOrInvalid([i \in DOMAIN X |-> D[of[i]][X[i]]])
        BY <3>2, <3>5, <4>1
      <4>4. EncodeBy(E, List("array", X), t) = ListOrInvalid([i \in DOMAIN X |-> E[of[i]][X[i]]])
        BY <3>3, <3>5, <4>2
      <4> QED
        BY <4>3, <4>4
    <3> QED
      BY <3>4, <3>5
  <2> HIDE DEF n, w, of
  <2>4. AsList(E, D, A, t, v, n, w, of)
    <3>1. EncodeBy(E, v, t) = ListOrInvalid([i \in 1 .. n |-> E[of[i]][w[i]]])
      BY <2>1, <2>2
    <3>2. ASSUME NEW X, Len(X) = n, DOMAIN X = 1 .. n, \A i \in 1 .. n : A[of[i]][X[i]]
          PROVE  AcceptsBy(A, List("scvVec", X), t)
      BY <2>3, <3>2
    <3>3. ASSUME NEW X, Len(X) = n, DOMAIN X = 1 .. n
          PROVE  /\ DecodeBy(D, List("scvVec", X), t) = ArrayOrInvalid([i \in 1 .. n |-> D[of[i]][X[i]]])
                 /\ EncodeBy(E, List("array", X), t) = ListOrInvalid([i \in 1 .. n |-> E[of[i]][X[i]]])
      <4>1. /\ DecodeBy(D, List("scvVec", X), t) = ArrayOrInvalid([i \in DOMAIN X |-> D[of[i]][X[i]]])
            /\ EncodeBy(E, List("array", X), t) = ListOrInvalid([i \in DOMAIN X |-> E[of[i]][X[i]]])
        BY <2>3, <3>3
      <4> QED
        BY <3>3, <4>1
    <3> QED
      BY <3>1, <3>2, <3>3 DEF AsList
  <2> QED
    BY <2>2, <2>4, ListKept
<1> QED
  BY <1>1, <1>2

\* A property of a value is a value.
LEMMA AtIs == ASSUME NEW E, NEW D, NEW A, NEW P, NEW B, NEW V, Parts(E, D, A, P, B, V), NEW v \in V, NEW name
              PROVE  At(v, name) \in V
<1> DEFINE I == {i \in DOMAIN v.keys : v.keys[i] = Word("string", name)}
<1>1. Plain("undefined") \in V
  BY DEF Parts, AllKinds, JsKinds
<1>2. CASE I = {}
  BY <1>1, <1>2 DEF At
<1>3. CASE I # {}
  <2>1. v.items \in Seq(V) /\ DOMAIN v.keys \subseteq DOMAIN v.items
    BY DEF Parts
  <2>2. (CHOOSE i \in I : TRUE) \in DOMAIN v.items
    BY <1>3, <2>1
  <2>3. At(v, name) = v.items[CHOOSE i \in I : TRUE]
    BY <1>3 DEF At
  <2> HIDE DEF I
  <2> QED
    BY <2>1, <2>2, <2>3
<1> QED
  BY <1>2, <1>3

\* Arguments are a list, whether they are given by position or by name.
LEMMA ArgsKept ==
  ASSUME NEW E, NEW D, NEW A, NEW P, NEW B, NEW V, Parts(E, D, A, P, B, V),
         NEW t \in TypesOf(P), t.k = "args", NEW v \in V
  PROVE  WholeKept(E, D, A, DatumsOf(B), t, v)
<1> DEFINE n == Len(t.t)
           of == t.t
<1>1. CASE EncodeBy(E, v, t) = Invalid
  BY <1>1 DEF WholeKept
<1>2. CASE EncodeBy(E, v, t) # Invalid
  <2>1. EncodeBy(E, v, t) = EncodeArgs(E, v, t)
    BY <1>2 DEF EncodeBy
  <2>2. n \in Nat /\ DOMAIN of = 1 .. n /\ DOMAIN t.names = 1 .. n
        /\ \A i \in 1 .. n : of[i] \in P /\ of[i].k # "args"
    <3>1. of \in Seq(P) /\ t.names \in Seq(Symbols) /\ Len(t.names) = n /\ \A i \in DOMAIN of : of[i].k # "args"
      BY TypeIs DEF WellFormed
    <3>3. n = Len(of)
      OBVIOUS
    <3> HIDE DEF n, of
    <3> QED
      BY <3>1, <3>3, OfSeq
  <2>3. \A X : (Len(X) = n /\ \A i \in DOMAIN X : A[of[i]][X[i]]) => AcceptsBy(A, List("scvVec", X), t)
    <3>1. \A x : x.k = "scvVec" /\ Len(x.items) = n /\ (\A i \in DOMAIN x.items : A[of[i]][x.items[i]])
                 => AcceptsBy(A, x, t)
      BY DEF AcceptsBy
    <3> HIDE DEF n, of
    <3>2. \A X : List("scvVec", X).k = "scvVec" /\ List("scvVec", X).items = X
      BY DatumFields
    <3> SUFFICES ASSUME NEW X, Len(X) = n, \A i \in DOMAIN X : A[of[i]][X[i]]
                 PROVE AcceptsBy(A, List("scvVec", X), t)
      OBVIOUS
    <3> QED
      BY <3>1, <3>2
  <2>4. PICK w : /\ EncodeBy(E, v, t) = ListOrInvalid([i \in 1 .. n |-> E[of[i]][w[i]]])
                 /\ \A i \in 1 .. n : w[i] \in V
    <3>1. CASE v.k = "array"
      <4>1. /\ Len(v.items) = n
            /\ EncodeArgs(E, v, t) = ListOrInvalid([i \in DOMAIN v.items |-> E[of[i]][v.items[i]]])
        BY <1>2, <2>1, <3>1 DEF EncodeArgs, EncodeAll
      <4>2. DOMAIN v.items = 1 .. n /\ \A i \in 1 .. n : v.items[i] \in V
        <5>1. v.items \in Seq(V)
          BY DEF Parts
        <5> QED
          BY <4>1, <5>1, OfSeq
      <4>3. EncodeBy(E, v, t) = ListOrInvalid([i \in 1 .. n |-> E[of[i]][v.items[i]]])
        BY <2>1, <4>1, <4>2
      <4> QED
        BY <4>2, <4>3
    <3>2. CASE v.k # "array"
      <4> DEFINE u == [i \in 1 .. n |-> At(v, t.names[i])]
      <4>1. EncodeArgs(E, v, t) = ListOrInvalid([i \in DOMAIN t.names |-> E[of[i]][At(v, t.names[i])]])
        BY <1>2, <2>1, <3>2 DEF EncodeArgs
      <4>2. [i \in DOMAIN t.names |-> E[of[i]][At(v, t.names[i])]] = [i \in 1 .. n |-> E[of[i]][u[i]]]
        BY <2>2
      <4>3. \A i \in 1 .. n : u[i] \in V
        BY AtIs
      <4>4. EncodeBy(E, v, t) = ListOrInvalid([i \in 1 .. n |-> E[of[i]][u[i]]])
        BY <2>1, <4>1, <4>2
      <4> HIDE DEF u
      <4> QED
        BY <4>3, <4>4
    <3> QED
      BY <3>1, <3>2
  <2> HIDE DEF n, of
  <2>5. AsList(E, D, A, t, v, n, w, of)
    <3>1. ASSUME NEW X, Len(X) = n, DOMAIN X = 1 .. n, \A i \in 1 .. n : A[of[i]][X[i]]
          PROVE  AcceptsBy(A, List("scvVec", X), t)
      BY <2>3, <3>1
    <3> QED
      BY <2>4, <3>1 DEF AsList
  <2>6. \A i \in 1 .. n : w[i] \in V /\ of[i] \in P /\ of[i].k # "args"
    BY <2>2, <2>4
  <2> QED
    BY <2>2, <2>5, <2>6, ListKept
<1> QED
  BY <1>1, <1>2

-----------------------------------------------------------------------------
(* Maps.                                                                   *)

\* What a key of a map is encoded to.
KeysAs(s) == IF s.k = "int" THEN {Number("scvInt", n) : n \in 0 .. MaxInteger}
                            ELSE {Word("scvSymbol", w) : w \in Symbols}

\* Two keys of one type have different places in the order.
LEMMA Ranks == ASSUME NEW s, NEW x \in KeysAs(s), NEW y \in KeysAs(s)
               PROVE  Rank(x) \in Nat /\ (Rank(x) = Rank(y) => x = y)
<1>1. CASE s.k = "int"
  <2>1. PICK n \in 0 .. MaxInteger : x = Number("scvInt", n)
    BY <1>1 DEF KeysAs
  <2>2. PICK m \in 0 .. MaxInteger : y = Number("scvInt", m)
    BY <1>1 DEF KeysAs
  <2>3. x.k = "scvInt" /\ x.n = n /\ y.k = "scvInt" /\ y.n = m
    BY <2>1, <2>2, DatumFields
  <2>4. Rank(x) = n /\ Rank(y) = m
    BY <2>3 DEF Rank
  <2>5. n \in Nat
    BY DEF MaxInteger
  <2> QED
    BY <2>1, <2>2, <2>4, <2>5
<1>2. CASE s.k # "int"
  <2>0. \A w \in Symbols : Place(w) \in DOMAIN WordOrder /\ WordOrder[Place(w)] = w
    <3>1. \A w \in Symbols : \E i \in DOMAIN WordOrder : WordOrder[i] = w
      BY DEF Symbols
    <3> QED
      BY <3>1 DEF Place
  <2>1. PICK u \in Symbols : x = Word("scvSymbol", u)
    BY <1>2 DEF KeysAs
  <2>2. PICK w \in Symbols : y = Word("scvSymbol", w)
    BY <1>2 DEF KeysAs
  <2>3. x.k = "scvSymbol" /\ x.w = u /\ y.k = "scvSymbol" /\ y.w = w
    BY <2>1, <2>2, DatumFields
  <2>4. Rank(x) = MaxInteger + Place(u) /\ Rank(y) = MaxInteger + Place(w)
    BY <2>3 DEF Rank
  <2>5. Place(u) \in Nat /\ Place(w) \in Nat /\ MaxInteger \in Nat
    <3>1. \A i \in DOMAIN WordOrder : i \in Nat
      BY DEF WordOrder
    <3> QED
      BY <2>0, <3>1 DEF MaxInteger
  <2>6. Rank(x) = Rank(y) => Place(u) = Place(w)
    BY <2>4, <2>5
  <2>7. Place(u) = Place(w) => u = w
    BY <2>0
  <2> QED
    BY <2>1, <2>2, <2>4, <2>5, <2>6, <2>7
<1> QED
  BY <1>1, <1>2

\* A key of a map is encoded to one of those.
LEMMA KeyOf == ASSUME NEW E, NEW D, NEW A, NEW P, NEW B, NEW V, Parts(E, D, A, P, B, V),
                      NEW s \in P, s.k \in {"int", "symbol"}, NEW u \in V, E[s][u] # Invalid
               PROVE  E[s][u] \in KeysAs(s)
<1> DEFINE x == E[s][u]
<1>1. Kept(x, B, s, A[s][x], D[s][x], E[s][D[s][x]])
  BY DEF Parts, PartsKept
<1> HIDE DEF x
<1>2. /\ s.k = "int"    => x = Number("scvInt", x.n) /\ x.n \in 0 .. MaxInteger
      /\ s.k = "symbol" => x = Word("scvSymbol", x.w) /\ x.w \in Symbols
  BY <1>1 DEF Kept
<1>3. x \in KeysAs(s)
  BY <1>2 DEF KeysAs
<1> QED
  BY <1>3 DEF x

\* A sequence is a function of its positions.
LEMMA ToFunction == ASSUME NEW S, NEW s \in Seq(S) PROVE s \in [1 .. Len(s) -> S]
OBVIOUS

\* A map is kept: its entries are sorted and, as they come back, in order.
LEMMA MapKept ==
  ASSUME NEW E, NEW D, NEW A, NEW P, NEW B, NEW V, Parts(E, D, A, P, B, V),
         NEW t \in TypesOf(P), t.k = "map", NEW v \in V
  PROVE  WholeKept(E, D, A, DatumsOf(B), t, v)
<1> DEFINE I == DOMAIN v.keys
           n == Len(v.keys)
           q == t.t[1]
           r == t.t[2]
           key == [i \in I |-> E[q][v.keys[i]]]
           item == [i \in DOMAIN v.items |-> E[r][v.items[i]]]
<1>1. CASE EncodeBy(E, v, t) = Invalid
  BY <1>1 DEF WholeKept
<1>2. CASE EncodeBy(E, v, t) # Invalid
  <2>1. EncodeBy(E, v, t) = SortedMap(key, item)
    BY <1>2 DEF EncodeBy
  <2>2. /\ n \in Nat /\ I = 1 .. n /\ IsFiniteSet(I) /\ n = Cardinality(I)
        /\ \A i \in I : i \in DOMAIN v.items /\ v.keys[i] \in V /\ v.items[i] \in V
    <3>1. v.keys \in Seq(V) /\ v.items \in Seq(V) /\ DOMAIN v.keys \subseteq DOMAIN v.items
      BY DEF Parts
    <3>2. n \in Nat /\ I = 1 .. n
      BY <3>1, OfSeq
    <3>3. IsFiniteSet(I) /\ n = Cardinality(I)
      BY <3>2, FS_Interval
    <3>4. \A i \in I : i \in DOMAIN v.items /\ v.keys[i] \in V /\ v.items[i] \in V
      BY <3>1, OfSeq
    <3> QED
      BY <3>2, <3>3, <3>4
  <2>3. q \in P /\ q.k \in {"int", "symbol"} /\ r \in P /\ r.k # "args"
    <3>1. t.t \in Seq(P) /\ Len(t.t) = 2 /\ t.t[1].k \in {"int", "symbol"}
          /\ \A i \in DOMAIN t.t : t.t[i].k # "args"
      BY TypeIs DEF WellFormed
    <3> QED
      BY <3>1
  <2>4. DOMAIN key = I /\ \A i \in I : key[i] = E[q][v.keys[i]] /\ item[i] = E[r][v.items[i]]
    BY <2>2
  <2>5. /\ \A x : x.k = "scvMap" /\ (\A i, j \in DOMAIN x.keys : i < j => Rank(x.keys[i]) < Rank(x.keys[j]))
                  /\ (\A i \in DOMAIN x.keys : A[q][x.keys[i]] /\ A[r][x.items[i]])
                  => AcceptsBy(A, x, t)
        /\ \A x : x.k = "scvMap" =>
             DecodeBy(D, x, t) = TableOrInvalid("map", [i \in DOMAIN x.keys |-> D[q][x.keys[i]]],
                                                [i \in DOMAIN x.items |-> D[r][x.items[i]]])
        /\ \A u : u.k = "map" =>
             EncodeBy(E, u, t) = SortedMap([i \in DOMAIN u.keys |-> E[q][u.keys[i]]],
                                           [i \in DOMAIN u.items |-> E[r][u.items[i]]])
    <3>1. \A x : x.k = "scvMap" /\ (\A i, j \in DOMAIN x.keys : i < j => Rank(x.keys[i]) < Rank(x.keys[j]))
                  /\ (\A i \in DOMAIN x.keys : A[q][x.keys[i]] /\ A[r][x.items[i]])
                  => AcceptsBy(A, x, t)
      BY DEF AcceptsBy, KeyBefore
    <3>2. \A x : x.k = "scvMap" =>
             DecodeBy(D, x, t) = TableOrInvalid("map", [i \in DOMAIN x.keys |-> D[q][x.keys[i]]],
                                                [i \in DOMAIN x.items |-> D[r][x.items[i]]])
      BY DEF DecodeBy, DecodeGeneric
    <3>3. \A u : u.k = "map" =>
             EncodeBy(E, u, t) = SortedMap([i \in DOMAIN u.keys |-> E[q][u.keys[i]]],
                                           [i \in DOMAIN u.items |-> E[r][u.items[i]]])
      BY DEF EncodeBy
    <3> QED
      BY <3>1, <3>2, <3>3
  <2> HIDE DEF I, n, q, r, key, item
  <2>6. ~EntriesInvalid(key, item)
    BY <1>2, <2>1 DEF SortedMap
  <2>7. \A i \in I : key[i] # Invalid /\ item[i] # Invalid
    BY <2>4, <2>6 DEF EntriesInvalid
  <2>8. \A i \in I : key[i] \in KeysAs(q)
    <3> SUFFICES ASSUME NEW i \in I PROVE key[i] \in KeysAs(q)
      OBVIOUS
    <3>1. key[i] = E[q][v.keys[i]] /\ v.keys[i] \in V /\ key[i] # Invalid
      BY <2>2, <2>4, <2>7
    <3> QED
      BY <2>3, <3>1, KeyOf
  <2>9. PICK at : Sorts(at, n, key, item)
    <3>1. \A i \in I : Rank(key[i]) \in Nat
      BY <2>8, Ranks
    <3>2. \A i, j \in I : Rank(key[i]) = Rank(key[j]) => key[i] = key[j]
      BY <2>8, Ranks
    <3> QED
      BY <2>2, <2>4, <2>6, <3>1, <3>2, Sorting
  <2> DEFINE K == [m \in 1 .. n |-> key[at[m]]]
             X == [m \in 1 .. n |-> item[at[m]]]
             KY == [m \in 1 .. n |-> D[q][K[m]]]
             XY == [m \in 1 .. n |-> D[r][X[m]]]
             Q == [m \in 1 .. n |-> q]
             R == [m \in 1 .. n |-> r]
             u == [m \in 1 .. n |-> v.keys[at[m]]]
             w == [m \in 1 .. n |-> v.items[at[m]]]
             x == Table("scvMap", K, X)
             y == Table("map", KY, XY)
  <2>10. /\ \A m \in 1 .. n : at[m] \in I
         /\ SortedMap(key, item) = x
         /\ \A a, b \in 1 .. n : a < b => Rank(key[at[a]]) < Rank(key[at[b]])
    BY <2>4, <2>9 DEF Sorts
  <2>11. Coded(E, D, P, V, n, u, K, KY, Q) /\ Coded(E, D, P, V, n, w, X, XY, R)
    <3>1. \A m \in 1 .. n : /\ u[m] \in V /\ Q[m] = q /\ E[q][u[m]] # Invalid /\ K[m] = E[q][u[m]] /\ KY[m] = D[q][K[m]]
                            /\ w[m] \in V /\ R[m] = r /\ E[r][w[m]] # Invalid /\ X[m] = E[r][w[m]] /\ XY[m] = D[r][X[m]]
      <4> SUFFICES ASSUME NEW m \in 1 .. n
                   PROVE  /\ u[m] \in V /\ Q[m] = q /\ E[q][u[m]] # Invalid /\ K[m] = E[q][u[m]] /\ KY[m] = D[q][K[m]]
                          /\ w[m] \in V /\ R[m] = r /\ E[r][w[m]] # Invalid /\ X[m] = E[r][w[m]] /\ XY[m] = D[r][X[m]]
        OBVIOUS
      <4>1. /\ u[m] = v.keys[at[m]] /\ w[m] = v.items[at[m]] /\ Q[m] = q /\ R[m] = r
            /\ K[m] = key[at[m]] /\ X[m] = item[at[m]] /\ KY[m] = D[q][K[m]] /\ XY[m] = D[r][X[m]]
        OBVIOUS
      <4> HIDE DEF K, X, KY, XY, Q, R, u, w
      <4>2. at[m] \in I
        BY <2>10
      <4>3. /\ v.keys[at[m]] \in V /\ v.items[at[m]] \in V /\ key[at[m]] # Invalid /\ item[at[m]] # Invalid
            /\ key[at[m]] = E[q][v.keys[at[m]]] /\ item[at[m]] = E[r][v.items[at[m]]]
        BY <2>2, <2>4, <2>7, <4>2
      <4> QED
        BY <4>1, <4>3
    <3>2. /\ K = [m \in 1 .. n |-> K[m]] /\ KY = [m \in 1 .. n |-> KY[m]]
          /\ X = [m \in 1 .. n |-> X[m]] /\ XY = [m \in 1 .. n |-> XY[m]]
      OBVIOUS
    <3> HIDE DEF K, X, KY, XY, Q, R, u, w
    <3>3. q.k # "args" /\ r.k # "args"
      BY <2>3
    <3> QED
      BY <2>3, <3>1, <3>2, <3>3 DEF Coded
  <2>12. /\ K = [m \in 1 .. n |-> K[m]] /\ X = [m \in 1 .. n |-> X[m]]
         /\ DOMAIN K = 1 .. n /\ DOMAIN X = 1 .. n /\ DOMAIN KY = 1 .. n /\ DOMAIN XY = 1 .. n
         /\ \A m \in 1 .. n : K[m] = key[at[m]] /\ Q[m] = q /\ R[m] = r
    OBVIOUS
  <2>13. [m \in 1 .. n |-> D[q][K[m]]] = KY /\ [m \in 1 .. n |-> D[r][X[m]]] = XY
    OBVIOUS
  <2> HIDE DEF Q, R, u, w, K, X, KY, XY
  <2>14. /\ x.k = "scvMap" /\ x.keys = K /\ x.items = X
         /\ y.k = "map" /\ y.keys = KY /\ y.items = XY
    BY DatumFields
  <2>15. EachKept(E, D, A, B, n, K, KY, Q) /\ EachKept(E, D, A, B, n, X, XY, R)
    BY <2>2, <2>11, Items
  <2>16. /\ K \in Seq(B) /\ KY \in Seq(B) /\ X \in Seq(B) /\ XY \in Seq(B)
         /\ Len(K) = n /\ Len(X) = n /\ Len(KY) = n /\ Len(XY) = n
         /\ \A m \in 1 .. n : /\ K[m] # Invalid /\ A[q][K[m]] /\ KY[m] # Invalid /\ E[q][KY[m]] = K[m]
                              /\ X[m] # Invalid /\ A[r][X[m]] /\ XY[m] # Invalid /\ E[r][XY[m]] = X[m]
    <3>1. /\ K \in Seq(B) /\ KY \in Seq(B) /\ Len(K) = n /\ Len(KY) = n
          /\ \A m \in 1 .. n : K[m] # Invalid /\ A[Q[m]][K[m]] /\ KY[m] # Invalid /\ E[Q[m]][KY[m]] = K[m]
      BY <2>15 DEF EachKept
    <3>2. /\ X \in Seq(B) /\ XY \in Seq(B) /\ Len(X) = n /\ Len(XY) = n
          /\ \A m \in 1 .. n : X[m] # Invalid /\ A[R[m]][X[m]] /\ XY[m] # Invalid /\ E[R[m]][XY[m]] = X[m]
      BY <2>15 DEF EachKept
    <3>3. \A m \in 1 .. n : Q[m] = q /\ R[m] = r
      BY <2>12
    <3>4. \A m \in 1 .. n : K[m] # Invalid /\ A[q][K[m]] /\ KY[m] # Invalid /\ E[q][KY[m]] = K[m]
      BY <3>1, <3>3
    <3>5. \A m \in 1 .. n : X[m] # Invalid /\ A[r][X[m]] /\ XY[m] # Invalid /\ E[r][XY[m]] = X[m]
      BY <3>2, <3>3
    <3> QED
      BY <3>1, <3>2, <3>4, <3>5
  <2>17. x \in DatumsOf(B) /\ y \in DatumsOf(B)
    <3>1. "scvMap" \in AllKinds /\ "map" \in AllKinds
      BY DEF AllKinds, JsKinds, ScKinds
    <3> QED
      BY <2>16, <3>1, InDatums
  <2> HIDE DEF x
  <2>18. AcceptsBy(A, x, t)
    <3>1. \A a, b \in DOMAIN x.keys : a < b => Rank(x.keys[a]) < Rank(x.keys[b])
      BY <2>10, <2>12, <2>14
    <3>2. \A i \in DOMAIN x.keys : A[q][x.keys[i]] /\ A[r][x.items[i]]
      BY <2>12, <2>14, <2>16
    <3> QED
      BY <2>5, <2>14, <3>1, <3>2
  <2>19. DecodeBy(D, x, t) = y
    <3>1. DecodeBy(D, x, t) = TableOrInvalid("map", [i \in 1 .. n |-> D[q][K[i]]], [i \in 1 .. n |-> D[r][X[i]]])
      BY <2>5, <2>12, <2>14
    <3>2. ~AnyInvalid(KY) /\ ~AnyInvalid(XY)
      BY <2>12, <2>16 DEF AnyInvalid
    <3> QED
      BY <2>13, <3>1, <3>2 DEF TableOrInvalid
  <2> HIDE DEF y
  <2>20. EncodeBy(E, y, t) = x
    <3>1. EncodeBy(E, y, t) = SortedMap([i \in 1 .. n |-> E[q][KY[i]]], [i \in 1 .. n |-> E[r][XY[i]]])
      BY <2>5, <2>12, <2>14
    <3>2. [i \in 1 .. n |-> E[q][KY[i]]] = K /\ [i \in 1 .. n |-> E[r][XY[i]]] = X
      <4>1. /\ [i \in 1 .. n |-> E[q][KY[i]]] = [i \in 1 .. n |-> K[i]]
            /\ [i \in 1 .. n |-> E[r][XY[i]]] = [i \in 1 .. n |-> X[i]]
        BY <2>16
      <4> QED
        BY <2>12, <4>1
    <3>3. SortedMap(K, X) = Table("scvMap", K, X)
      <4>1. K \in [1 .. n -> B] /\ X \in [1 .. n -> B]
        BY <2>16, ToFunction
      <4>2. \A i \in 1 .. n : K[i] # Invalid /\ X[i] # Invalid /\ Rank(K[i]) \in Nat
        BY <2>8, <2>10, <2>12, <2>16, Ranks
      <4>3. \A a, b \in 1 .. n : a < b => Rank(K[a]) < Rank(K[b])
        BY <2>10, <2>12
      <4> QED
        <5>1. KeysOrdered(n, B, K, X)
          BY <4>1, <4>2, <4>3 DEF KeysOrdered
        <5> QED
          BY <2>2, <5>1, InOrder
    <3> QED
      BY <3>1, <3>2, <3>3 DEF x
  <2>21. /\ x.k \in ScKinds /\ y.k \in JsKinds /\ y.k # "null"
         /\ y.k # "undefined" /\ x.k # "scvVoid" /\ x.k # "scvError"
    BY <2>14 DEF ScKinds, JsKinds
  <2>22. EncodeBy(E, v, t) = x
    BY <2>1, <2>10
  <2> QED
    BY <2>17, <2>18, <2>19, <2>20, <2>21, <2>22, KeptByParts
<1> QED
  BY <1>1, <1>2

-----------------------------------------------------------------------------
(* Objects: results, structs and unions.                                   *)

\* The property of a name is that of its only entry.
LEMMA AtEntry == ASSUME NEW k, NEW keys, NEW items, NEW name, NEW i \in DOMAIN keys,
                        \A j \in DOMAIN keys : keys[j] = Word("string", name) <=> j = i
                 PROVE  /\ Has(Table(k, keys, items), name)
                        /\ At(Table(k, keys, items), name) = items[i]
<1> DEFINE y == Table(k, keys, items)
           I == {j \in DOMAIN y.keys : y.keys[j] = Word("string", name)}
<1>1. y.keys = keys /\ y.items = items
  BY DatumFields
<1> HIDE DEF y
<1>2. I = {i}
  BY <1>1
<1>3. (CHOOSE j \in I : TRUE) = i
  BY <1>2
<1>4. At(y, name) = items[i]
  BY <1>1, <1>2, <1>3 DEF At
<1>5. Has(y, name)
  BY <1>1 DEF Has
<1> QED
  BY <1>4, <1>5 DEF y

\* Nor is there a property of any other name.
LEMMA NoEntry == ASSUME NEW k, NEW keys, NEW items, NEW name,
                        \A j \in DOMAIN keys : keys[j] # Word("string", name)
                 PROVE  /\ ~Has(Table(k, keys, items), name)
                        /\ At(Table(k, keys, items), name) = Plain("undefined")
<1> DEFINE y == Table(k, keys, items)
<1>1. y.keys = keys
  BY DatumFields
<1> HIDE DEF y
<1>2. ~Has(y, name) /\ At(y, name) = Plain("undefined")
  BY <1>1 DEF Has, At
<1> QED
  BY <1>2 DEF y

\* An object of one property.
LEMMA OneEntry == ASSUME NEW B, NEW name \in Words, NEW item \in B, Word("string", name) \in B
                  PROVE  LET y == Table("object", <<Word("string", name)>>, <<item>>)
                         IN  /\ y \in DatumsOf(B) /\ y.k = "object" /\ Has(y, name) /\ At(y, name) = item
                             /\ \A other : other # name => ~Has(y, other)
<1> DEFINE keys == <<Word("string", name)>>
           items == <<item>>
           y == Table("object", keys, items)
<1>1. /\ keys \in Seq(B) /\ items \in Seq(B) /\ Len(keys) = Len(items) /\ DOMAIN keys = {1}
      /\ keys[1] = Word("string", name) /\ items[1] = item
  <2> DEFINE key == Word("string", name)
  <2> HIDE DEF key
  <2>1. /\ <<key>> \in Seq(B) /\ <<item>> \in Seq(B) /\ Len(<<key>>) = Len(<<item>>)
        /\ DOMAIN <<key>> = {1} /\ <<key>>[1] = key /\ <<item>>[1] = item
    BY DEF key
  <2> QED
    BY <2>1 DEF key
<1> HIDE DEF keys, items
<1>2. "object" \in AllKinds
  BY DEF AllKinds, JsKinds
<1>3. y \in DatumsOf(B) /\ y.k = "object"
  BY <1>1, <1>2, InDatums, DatumFields
<1>4. Has(y, name) /\ At(y, name) = items[1]
  BY <1>1, AtEntry
<1>5. ASSUME NEW other, other # name PROVE ~Has(y, other)
  <2>1. Word("string", name) # Word("string", other)
    BY <1>5, DatumFields
  <2> QED
    BY <1>1, <2>1, NoEntry
<1> QED
  BY <1>1, <1>3, <1>4, <1>5 DEF keys, items

\* An error comes back as the name of its case, or as its code if no case has it.
LEMMA ErrorKept ==
  ASSUME NEW E, NEW D, NEW A, NEW P, NEW B, NEW V, Parts(E, D, A, P, B, V),
         NEW t \in TypesOf(P), t.k = "result", NEW v \in V, NEW c \in Int,
         EncodeBy(E, v, t) = Number("scvError", c)
  PROVE  WholeKept(E, D, A, DatumsOf(B), t, v)
<1> DEFINE x == Number("scvError", c)
           e == IF c \in DOMAIN t.names THEN Word("string", t.names[c]) ELSE Number("number", c)
           y == Table("object", <<Word("string", "error")>>, <<e>>)
           J(u) == {i \in DOMAIN t.names : u = Word("string", t.names[i])}
<1>0. x.k = "scvError" /\ x.n = c /\ x \in DatumsOf(B)
  <2>1. "scvError" \in AllKinds
    BY DEF AllKinds, ScKinds
  <2>2. Number("scvError", c).k = "scvError" /\ Number("scvError", c).n = c
    BY DatumFields
  <2>3. Number("scvError", c) \in DatumsOf(B)
    BY <2>1, InDatums
  <2> QED
    BY <2>2, <2>3
<1>1. t.names \in Seq(Symbols) /\ WellFormed(t) /\ \A i, j \in DOMAIN t.names : t.names[i] = t.names[j] => i = j
  BY TypeIs DEF WellFormed
<1>2. Word("string", "error") \in B /\ e \in B /\ "error" \in Words
  <2>1. "error" \in Words /\ Symbols \subseteq Words
    BY CodecAssumption
  <2>2. c \in DOMAIN t.names => t.names[c] \in Words
    BY <1>1, <2>1, OfSeq
  <2>3. "string" \in AllKinds /\ "number" \in AllKinds
    BY DEF AllKinds, JsKinds
  <2> QED
    BY <2>1, <2>2, <2>3 DEF Parts
<1>3. /\ c \in DOMAIN t.names => e = Word("string", t.names[c]) /\ J(e) = {c}
      /\ c \notin DOMAIN t.names => e = Number("number", c) /\ J(e) = {}
  <2>1. CASE c \in DOMAIN t.names
    <3>1. \A i \in DOMAIN t.names : e = Word("string", t.names[i]) <=> i = c
      BY <1>1, <2>1, DatumFields
    <3> QED
      BY <2>1, <3>1
  <2>2. CASE c \notin DOMAIN t.names
    <3>1. e.k = "number" /\ \A i \in DOMAIN t.names : Word("string", t.names[i]).k = "string"
      BY <2>2, DatumFields
    <3> QED
      BY <2>2, <3>1
  <2> QED
    BY <2>1, <2>2
<1>4. \A z : z.k = "scvError" => AcceptsBy(A, z, t)
  BY DEF AcceptsBy
<1>5. DecodeBy(D, x, t) = y
  BY <1>0 DEF DecodeBy, DecodeGeneric
<1> HIDE DEF x, e
<1>6. y \in DatumsOf(B) /\ y.k = "object" /\ Has(y, "error") /\ At(y, "error") = e
  BY <1>2, OneEntry
<1> HIDE DEF y
<1>7. EncodeBy(E, y, t) = x
  <2>1. EncodeBy(E, y, t) = EncodeResult(E, y, t)
    BY <1>6 DEF EncodeBy
  <2>2. EncodeResult(E, y, t) = IF J(e) # {} THEN Number("scvError", CHOOSE i \in J(e) : TRUE)
                                ELSE IF e.k = "number" THEN Number("scvError", e.n) ELSE Invalid
    <3>1. ASSUME NEW q, q.k = "object", Has(q, "error")
          PROVE  EncodeResult(E, q, t) = IF J(At(q, "error")) # {}
                                           THEN Number("scvError", CHOOSE i \in J(At(q, "error")) : TRUE)
                                         ELSE IF At(q, "error").k = "number" THEN Number("scvError", At(q, "error").n)
                                                 ELSE Invalid
      BY <3>1 DEF EncodeResult
    <3> HIDE DEF J
    <3> QED
      BY <1>6, <3>1
  <2> HIDE DEF J
  <2>3. CASE c \in DOMAIN t.names
    BY <1>3, <2>1, <2>2, <2>3 DEF x
  <2>4. CASE c \notin DOMAIN t.names
    <3>1. e.k = "number" /\ e.n = c
      BY <1>3, <2>4, DatumFields
    <3> QED
      BY <1>3, <2>1, <2>2, <2>4, <3>1 DEF x
  <2> QED
    BY <2>3, <2>4
<1>8. EncodeBy(E, v, t) = x /\ x = Number("scvError", x.n)
  BY <1>0 DEF x
<1>9. x.k \in ScKinds /\ y.k \in JsKinds /\ y.k # "null" /\ y.k # "undefined"
  BY <1>0, <1>6 DEF ScKinds, JsKinds
<1>10. AcceptsBy(A, x, t)
  BY <1>0, <1>4
<1> QED
  BY <1>0, <1>5, <1>6, <1>7, <1>8, <1>9, <1>10, KeptByParts

\* What is not an error comes back as that.
LEMMA ResultKept ==
  ASSUME NEW E, NEW D, NEW A, NEW P, NEW B, NEW V, Parts(E, D, A, P, B, V), B \subseteq DatumsOf(B),
         NEW t \in TypesOf(P), t.k = "result", NEW v \in V
  PROVE  WholeKept(E, D, A, DatumsOf(B), t, v)
<1> DEFINE s == t.t[1]
           u == At(v, "ok")
           x == E[s][u]
           z == D[s][x]
           y == Table("object", <<Word("string", "ok")>>, <<z>>)
<1>1. CASE EncodeBy(E, v, t) = Invalid
  BY <1>1 DEF WholeKept
<1>2. CASE EncodeBy(E, v, t) # Invalid
  <2>1. EncodeBy(E, v, t) = EncodeResult(E, v, t)
    BY <1>2 DEF EncodeBy
  <2>2. CASE Has(v, "error")
    <3>1. PICK c : EncodeBy(E, v, t) = Number("scvError", c) /\ (c \in DOMAIN t.names \/ c = At(v, "error").n)
      <4> DEFINE J == {i \in DOMAIN t.names : At(v, "error") = Word("string", t.names[i])}
      <4>1. EncodeBy(E, v, t) = IF J # {} THEN Number("scvError", CHOOSE i \in J : TRUE)
                                ELSE IF At(v, "error").k = "number" THEN Number("scvError", At(v, "error").n)
                                         ELSE Invalid
        BY <1>2, <2>1, <2>2 DEF EncodeResult
      <4>2. J # {} => (CHOOSE i \in J : TRUE) \in DOMAIN t.names
        OBVIOUS
      <4> HIDE DEF J
      <4> QED
        BY <1>2, <4>1, <4>2
    <3>2. c \in Int
      <4>1. t.names \in Seq(Symbols)
        BY TypeIs
      <4>2. DOMAIN t.names \subseteq Int
        BY <4>1, OfSeq
      <4>3. At(v, "error").n \in Int
        <5>1. At(v, "error") \in V
          BY AtIs
        <5> QED
          BY <5>1 DEF Parts
      <4> QED
        BY <3>1, <4>2, <4>3
    <3> QED
      BY <3>1, <3>2, ErrorKept
  <2>3. CASE ~Has(v, "error")
    <3>1. EncodeBy(E, v, t) = x
      BY <1>2, <2>1, <2>3 DEF EncodeResult
    <3>2. s \in P /\ s.k # "args"
      BY TypeIs DEF WellFormed
    <3>3. u \in V
      BY AtIs
    <3>4. \A q : A[s][q] => AcceptsBy(A, q, t)
      BY DEF AcceptsBy
    <3>5. \A q : q.k # "scvError" => DecodeBy(D, q, t) =
                               TableOrInvalid("object", <<Word("string", "ok")>>, <<D[s][q]>>)
      BY DEF DecodeBy, DecodeGeneric
    <3>6. \A q : q.k = "object" /\ ~Has(q, "error") /\ Has(q, "ok") => EncodeBy(E, q, t) = E[s][At(q, "ok")]
      BY DEF EncodeBy, EncodeResult
    <3> HIDE DEF s, u
    <3>7. Kept(x, B, s, A[s][x], z, E[s][z])
      BY <1>2, <3>1, <3>2, <3>3 DEF Parts, PartsKept
    <3> HIDE DEF x
    <3>d. z = D[s][x]
      OBVIOUS
    <3> HIDE DEF z
    <3>8. /\ x \in B /\ x.k \in ScKinds /\ A[s][x]
          /\ x.k = "scvVoid" => x = Plain("scvVoid")
          /\ x.k = "scvError" => x = Number("scvError", x.n)
          /\ z \in B /\ E[s][z] = x
      BY <3>2, <3>7 DEF Kept
    <3>9. CASE x.k = "scvError"
      <4>1. x.n \in Int
        BY <3>8 DEF Parts
      <4> QED
        BY <3>1, <3>8, <3>9, <4>1, ErrorKept
    <3>10. CASE x.k # "scvError"
      <4>1. z # Invalid /\ Word("string", "ok") # Invalid
        <5>1. z \in V
          BY <3>8 DEF Parts
        <5>2. Invalid.k = "invalid" /\ Word("string", "ok").k = "string"
          BY DatumFields DEF Invalid
        <5> QED
          BY <5>1, <5>2, NotInvalid
      <4>2. DecodeBy(D, x, t) = y
        <5>1. ~AnyInvalid(<<z>>) /\ ~AnyInvalid(<<Word("string", "ok")>>)
          <6> DEFINE key == Word("string", "ok")
          <6> HIDE DEF key
          <6>1. ~AnyInvalid(<<z>>) /\ (key # Invalid => ~AnyInvalid(<<key>>))
            BY <4>1 DEF AnyInvalid
          <6> QED
            BY <4>1, <6>1 DEF key
        <5>2. DecodeBy(D, x, t) = TableOrInvalid("object", <<Word("string", "ok")>>, <<z>>)
          BY <3>5, <3>10, <3>d
        <5> QED
          BY <5>1, <5>2 DEF TableOrInvalid
      <4>3. y \in DatumsOf(B) /\ y.k = "object" /\ Has(y, "ok") /\ At(y, "ok") = z /\ ~Has(y, "error")
        <5>1. "ok" \in Words /\ "string" \in AllKinds
          BY CodecAssumption DEF AllKinds, JsKinds
        <5>2. Word("string", "ok") \in B
          BY <5>1 DEF Parts
        <5> QED
          BY <3>8, <5>1, <5>2, OneEntry
      <4> HIDE DEF y
      <4>4. EncodeBy(E, y, t) = x
        BY <3>6, <3>8, <4>3
      <4>5. y.k \in JsKinds /\ y.k # "null" /\ y.k # "undefined"
        BY <4>3 DEF JsKinds
      <4>6. x \in DatumsOf(B) /\ AcceptsBy(A, x, t)
        BY <3>4, <3>8
      <4> QED
        BY <3>1, <3>8, <3>10, <4>2, <4>3, <4>4, <4>5, <4>6, KeptByParts
    <3> QED
      BY <3>9, <3>10
  <2> QED
    BY <2>2, <2>3
<1> QED
  BY <1>1, <1>2

\* The fields of a struct that the object has.
Given(v, t) == {i \in DOMAIN t.names : At(v, t.names[i]).k # "undefined"}

\* The entries of the fields I.
FieldKeys(I, t) == [i \in I |-> Word("scvSymbol", t.names[i])]

FieldItems(E, I, v, t) == [i \in I |-> E[t.t[i]][At(v, t.names[i])]]

\* A struct is encoded to the sorted map of the fields that are given.
LEMMA StructIs ==
  ASSUME NEW E, NEW t, t.k = "struct", NEW v
  PROVE  EncodeBy(E, v, t) = IF v.k # "object" \/ ~KnownKeys(v, t.names) \/ Missing(v, t) THEN Invalid
                             ELSE SortedMap(FieldKeys(Given(v, t), t), FieldItems(E, Given(v, t), v, t))
<1>1. EncodeStruct(E, v, t) = IF v.k # "object" \/ ~KnownKeys(v, t.names) \/ Missing(v, t) THEN Invalid
                             ELSE SortedMap(FieldKeys(Given(v, t), t), FieldItems(E, Given(v, t), v, t))
  BY DEF EncodeStruct, Given, FieldKeys, FieldItems
<1>2. v.k # "undefined" => EncodeBy(E, v, t) = EncodeStruct(E, v, t)
  BY DEF EncodeBy
<1>3. v.k = "undefined" => EncodeBy(E, v, t) = Invalid
  BY DEF EncodeBy
<1> QED
  BY <1>1, <1>2, <1>3

\* The m-th entry of the map that v is encoded to is the field at[m].
LEMMA StructSorts ==
  ASSUME NEW E, NEW P, NEW t \in TypesOf(P), t.k = "struct", NEW v, EncodeBy(E, v, t) # Invalid
  PROVE  LET n == Cardinality(Given(v, t)) IN
         /\ n \in Nat /\ v.k = "object" /\ ~Missing(v, t)
         /\ EncodeBy(E, v, t) = SortedMap(FieldKeys(Given(v, t), t), FieldItems(E, Given(v, t), v, t))
         /\ \A i \in Given(v, t) : FieldItems(E, Given(v, t), v, t)[i] # Invalid
         /\ \E at : Sorts(at, n, FieldKeys(Given(v, t), t), FieldItems(E, Given(v, t), v, t))
<1> DEFINE I == Given(v, t)
           n == Cardinality(I)
           key == FieldKeys(I, t)
           item == FieldItems(E, I, v, t)
<1>1. v.k = "object" /\ ~Missing(v, t) /\ EncodeBy(E, v, t) = SortedMap(key, item)
  BY StructIs
<1>2. ~EntriesInvalid(key, item)
  BY <1>1 DEF SortedMap
<1>3. DOMAIN key = I /\ \A i \in I : key[i] = Word("scvSymbol", t.names[i])
  BY DEF FieldKeys
<1>4. t.names \in Seq(Symbols) /\ I \subseteq DOMAIN t.names
  BY TypeIs DEF Given
<1>5. IsFiniteSet(I)
  <2>1. DOMAIN t.names = 1 .. Len(t.names) /\ Len(t.names) \in Nat
    BY <1>4, OfSeq
  <2>2. IsFiniteSet(DOMAIN t.names)
    BY <2>1, FS_Interval
  <2> QED
    BY <1>4, <2>2, FS_Subset
<1> HIDE DEF I, key, item
<1>6. \A i \in I : key[i] \in KeysAs(t)
  <2>1. \A i \in I : t.names[i] \in Symbols
    BY <1>4, OfSeq
  <2>2. KeysAs(t) = {Word("scvSymbol", w) : w \in Symbols}
    BY DEF KeysAs
  <2> QED
    BY <1>3, <2>1, <2>2
<1>7. n \in Nat /\ \E at : Sorts(at, n, key, item)
  <2>1. (\A i \in I : Rank(key[i]) \in Nat) /\ \A i, j \in I : Rank(key[i]) = Rank(key[j]) => key[i] = key[j]
    BY <1>6, Ranks
  <2> QED
    BY <1>2, <1>3, <1>5, <2>1, Sorting
<1>8. \A i \in I : item[i] # Invalid
  BY <1>2, <1>3 DEF EntriesInvalid
<1> QED
  BY <1>1, <1>7, <1>8 DEF I, key, item

\* A struct is kept: its fields come back under their names, in the order of the map.
LEMMA StructKept ==
  ASSUME NEW E, NEW D, NEW A, NEW P, NEW B, NEW V, Parts(E, D, A, P, B, V),
         NEW t \in TypesOf(P), t.k = "struct", NEW v \in V
  PROVE  WholeKept(E, D, A, DatumsOf(B), t, v)
<1>1. CASE EncodeBy(E, v, t) = Invalid
  BY <1>1 DEF WholeKept
<1>2. CASE EncodeBy(E, v, t) # Invalid
  <2> DEFINE I == Given(v, t)
             n == Cardinality(I)
             key == FieldKeys(I, t)
             item == FieldItems(E, I, v, t)
  <2>1. /\ n \in Nat /\ v.k = "object" /\ ~Missing(v, t) /\ EncodeBy(E, v, t) = SortedMap(key, item)
        /\ \A i \in I : item[i] # Invalid
    BY <1>2, StructSorts
  <2>2. PICK at : Sorts(at, n, key, item)
    BY <1>2, StructSorts
  <2>3. /\ t.names \in Seq(Symbols) /\ t.t \in Seq(P) /\ DOMAIN t.t = DOMAIN t.names
        /\ \A i \in DOMAIN t.t : t.t[i] \in P /\ t.t[i].k # "args"
        /\ \A i \in DOMAIN t.names : t.names[i] \in Symbols /\ t.names[i] \in Words
        /\ \A i, j \in DOMAIN t.names : t.names[i] = t.names[j] => i = j
    <3>1. /\ t.names \in Seq(Symbols) /\ t.t \in Seq(P) /\ Len(t.names) = Len(t.t)
          /\ \A i \in DOMAIN t.t : t.t[i].k # "args"
          /\ \A i, j \in DOMAIN t.names : t.names[i] = t.names[j] => i = j
      BY TypeIs DEF WellFormed
    <3>2. Symbols \subseteq Words
      BY CodecAssumption
    <3> QED
      BY <3>1, <3>2, OfSeq
  <2>4. /\ I \subseteq DOMAIN t.names /\ DOMAIN key = I /\ DOMAIN item = I
        /\ \A i \in I : key[i] = Word("scvSymbol", t.names[i]) /\ item[i] = E[t.t[i]][At(v, t.names[i])]
    BY DEF Given, FieldKeys, FieldItems
  <2> HIDE DEF I, n, key, item
  <2> DEFINE K == [m \in 1 .. n |-> key[at[m]]]
             X == [m \in 1 .. n |-> item[at[m]]]
             of == [m \in 1 .. n |-> t.t[at[m]]]
             w == [m \in 1 .. n |-> At(v, t.names[at[m]])]
             KY == [m \in 1 .. n |-> Word("string", t.names[at[m]])]
             XY == [m \in 1 .. n |-> D[of[m]][X[m]]]
             x == Table("scvMap", K, X)
             y == Table("object", KY, XY)
  <2>5. /\ \A m \in 1 .. n : at[m] \in I
        /\ \A i \in I : \E m \in 1 .. n : at[m] = i
        /\ SortedMap(key, item) = x
        /\ \A a, b \in 1 .. n : a < b => Rank(key[at[a]]) < Rank(key[at[b]])
    BY <2>2, <2>4 DEF Sorts
  <2>6. \A a, b \in 1 .. n : at[a] = at[b] => a = b
    <3> SUFFICES ASSUME NEW a \in 1 .. n, NEW b \in 1 .. n, at[a] = at[b], a # b PROVE FALSE
      OBVIOUS
    <3>1. a < b \/ b < a
      BY <2>1
    <3>2. Rank(key[at[a]]) < Rank(key[at[a]])
      BY <2>5, <3>1
    <3>3. Rank(key[at[a]]) \in Nat
      <4>1. t.names[at[a]] \in Symbols /\ key[at[a]] = Word("scvSymbol", t.names[at[a]])
        BY <2>3, <2>4, <2>5
      <4>2. key[at[a]] \in KeysAs(t)
        BY <4>1 DEF KeysAs
      <4> QED
        BY <4>2, Ranks
    <3> QED
      BY <3>2, <3>3
  <2>7. \A m \in 1 .. n : /\ at[m] \in DOMAIN t.names /\ at[m] \in I
                          /\ t.names[at[m]] \in Symbols /\ t.names[at[m]] \in Words
                          /\ t.t[at[m]] \in P /\ t.t[at[m]].k # "args"
                          /\ key[at[m]] = Word("scvSymbol", t.names[at[m]])
                          /\ item[at[m]] = E[t.t[at[m]]][At(v, t.names[at[m]])] /\ item[at[m]] # Invalid
    BY <2>1, <2>3, <2>4, <2>5
  <2>a. K = [m \in 1 .. n |-> K[m]] /\ X = [m \in 1 .. n |-> X[m]] /\ XY = [m \in 1 .. n |-> XY[m]]
    OBVIOUS
  <2>b. DOMAIN K = 1 .. n /\ DOMAIN X = 1 .. n /\ DOMAIN KY = 1 .. n /\ DOMAIN XY = 1 .. n
    OBVIOUS
  <2>c. \A m \in 1 .. n : K[m] = key[at[m]] /\ KY[m] = Word("string", t.names[at[m]])
    OBVIOUS
  <2>d. \A m \in 1 .. n : X[m] = item[at[m]] /\ of[m] = t.t[at[m]] /\ w[m] = At(v, t.names[at[m]])
    OBVIOUS
  <2>e. \A m \in 1 .. n : XY[m] = D[of[m]][X[m]]
    OBVIOUS
  <2>9. KY \in [1 .. n -> {Word("string", t.names[at[m]]) : m \in 1 .. n}]
    OBVIOUS
  <2> HIDE DEF K, X, of, w, KY, XY
  <2>10. Coded(E, D, P, V, n, w, X, XY, of)
    <3>1. \A m \in 1 .. n : w[m] \in V
      BY <2>d, AtIs
    <3>2. \A m \in 1 .. n : of[m] \in P /\ of[m].k # "args" /\ X[m] = E[of[m]][w[m]] /\ X[m] # Invalid
      BY <2>7, <2>d
    <3>3. \A m \in 1 .. n : E[of[m]][w[m]] # Invalid
      BY <3>2
    <3> QED
      BY <2>a, <2>e, <3>1, <3>2, <3>3 DEF Coded
  <2>11. EachKept(E, D, A, B, n, X, XY, of)
    BY <2>1, <2>10, Items
  <2>12. /\ X \in Seq(B) /\ XY \in Seq(B) /\ Len(X) = n /\ Len(XY) = n
         /\ \A m \in 1 .. n : /\ X[m] # Invalid /\ A[of[m]][X[m]] /\ XY[m] # Invalid
                              /\ XY[m].k # "undefined" /\ E[of[m]][XY[m]] = X[m]
    BY <2>11 DEF EachKept
  <2>13. K \in Seq(B) /\ KY \in Seq(B) /\ Len(K) = n /\ Len(KY) = n
    <3>1. "scvSymbol" \in AllKinds /\ "string" \in AllKinds
      BY DEF AllKinds, JsKinds, ScKinds
    <3>2. \A m \in 1 .. n : K[m] \in B /\ KY[m] \in B
      <4>1. \A k \in AllKinds, z \in Words : Word(k, z) \in B
        BY DEF Parts
      <4> QED
        <5> SUFFICES ASSUME NEW m \in 1 .. n PROVE K[m] \in B /\ KY[m] \in B
          OBVIOUS
        <5> DEFINE name == t.names[at[m]]
        <5>1. name \in Words /\ K[m] = Word("scvSymbol", name) /\ KY[m] = Word("string", name)
          BY <2>7, <2>c
        <5> HIDE DEF name
        <5> QED
          BY <3>1, <4>1, <5>1
    <3>3. K \in [1 .. n -> B] /\ KY \in [1 .. n -> B]
      BY <2>a, <2>9, <3>2
    <3> QED
      BY <2>1, <3>3, AsSeq
  <2>14. /\ x.k = "scvMap" /\ x.keys = K /\ x.items = X
         /\ y.k = "object" /\ y.keys = KY /\ y.items = XY
    BY DatumFields
  <2>15. x \in DatumsOf(B) /\ y \in DatumsOf(B)
    <3>1. "scvMap" \in AllKinds /\ "object" \in AllKinds
      BY DEF AllKinds, JsKinds, ScKinds
    <3> QED
      BY <2>12, <2>13, <3>1, InDatums
  <2> HIDE DEF x
  <2>16. AcceptsBy(A, x, t)
    <3>1. \A u : /\ u.k = "scvMap" /\ (\A i, j \in DOMAIN u.keys : i < j => Rank(u.keys[i]) < Rank(u.keys[j]))
                 /\ \A i \in DOMAIN u.keys : \E j \in DOMAIN t.names :
                      u.keys[i] = Word("scvSymbol", t.names[j]) /\ A[t.t[j]][u.items[i]]
                 /\ \A j \in DOMAIN t.names : t.t[j].k # "option" =>
                      \E i \in DOMAIN u.keys : u.keys[i] = Word("scvSymbol", t.names[j])
                 => AcceptsBy(A, u, t)
      BY DEF AcceptsBy, KeyBefore
    <3>2. \A i, j \in DOMAIN x.keys : i < j => Rank(x.keys[i]) < Rank(x.keys[j])
      BY <2>5, <2>b, <2>c, <2>14
    <3>3. \A i \in DOMAIN x.keys : \E j \in DOMAIN t.names :
            x.keys[i] = Word("scvSymbol", t.names[j]) /\ A[t.t[j]][x.items[i]]
      <4> SUFFICES ASSUME NEW m \in 1 .. n
                   PROVE  \E j \in DOMAIN t.names : x.keys[m] = Word("scvSymbol", t.names[j])
                            /\ A[t.t[j]][x.items[m]]
        BY <2>b, <2>14
      <4>1. at[m] \in DOMAIN t.names /\ x.keys[m] = Word("scvSymbol", t.names[at[m]])
        BY <2>7, <2>c, <2>14
      <4>2. A[t.t[at[m]]][x.items[m]]
        <5>1. x.items[m] = X[m] /\ of[m] = t.t[at[m]]
          BY <2>d, <2>14
        <5> QED
          BY <2>12, <5>1
      <4> QED
        BY <4>1, <4>2
    <3>4. ASSUME NEW j \in DOMAIN t.names, t.t[j].k # "option"
          PROVE  \E i \in DOMAIN x.keys : x.keys[i] = Word("scvSymbol", t.names[j])
      <4>1. j \in I
        BY <2>1, <3>4 DEF Missing, I, Given
      <4>2. PICK m \in 1 .. n : at[m] = j
        BY <2>5, <4>1
      <4> QED
        BY <2>7, <2>b, <2>c, <2>14, <4>2
    <3> QED
      BY <2>14, <3>1, <3>2, <3>3, <3>4
  <2>17. DecodeBy(D, x, t) = y
    <3> DEFINE field(u) == CHOOSE i \in DOMAIN t.names : t.names[i] = u
               keys(u) == [i \in DOMAIN u.keys |-> Word("string", u.keys[i].w)]
               items(u) == [i \in DOMAIN u.items |-> D[t.t[field(u.keys[i].w)]][u.items[i]]]
    <3>1. \A u : u.k = "scvMap" => DecodeBy(D, u, t) = TableOrInvalid("object", keys(u), items(u))
      BY DEF DecodeBy, DecodeStruct
    <3>2. \A i \in DOMAIN t.names : field(t.names[i]) = i
      BY <2>3
    <3>3. /\ keys(x) = [i \in DOMAIN K |-> Word("string", K[i].w)]
          /\ items(x) = [i \in DOMAIN X |-> D[t.t[field(K[i].w)]][X[i]]]
      BY <2>14
    <3> HIDE DEF field, keys, items
    <3>4. \A m \in 1 .. n : K[m].w = t.names[at[m]] /\ field(K[m].w) = at[m]
      <4> SUFFICES ASSUME NEW m \in 1 .. n PROVE K[m].w = t.names[at[m]] /\ field(K[m].w) = at[m]
        OBVIOUS
      <4>1. K[m] = Word("scvSymbol", t.names[at[m]]) /\ at[m] \in DOMAIN t.names
        BY <2>7, <2>c
      <4>2. K[m].w = t.names[at[m]]
        BY <4>1, DatumFields
      <4> QED
        BY <3>2, <4>1, <4>2
    <3>5. keys(x) = [m \in 1 .. n |-> KY[m]] /\ items(x) = [m \in 1 .. n |-> XY[m]]
      <4>1. [i \in DOMAIN K |-> Word("string", K[i].w)] = [m \in 1 .. n |-> KY[m]]
        BY <2>b, <2>c, <3>4
      <4>2. [i \in DOMAIN X |-> D[t.t[field(K[i].w)]][X[i]]] = [m \in 1 .. n |-> XY[m]]
        <5>1. \A m \in 1 .. n : t.t[field(K[m].w)] = of[m]
          BY <2>d, <3>4
        <5>2. \A m \in 1 .. n : D[t.t[field(K[m].w)]][X[m]] = XY[m]
          BY <2>e, <5>1
        <5> QED
          BY <2>b, <5>2
      <4> QED
        BY <3>3, <4>1, <4>2
    <3>6. keys(x) = KY /\ items(x) = XY
      BY <2>a, <2>9, <3>5
    <3>7. ~AnyInvalid(KY) /\ ~AnyInvalid(XY)
      <4>1. Invalid.k = "invalid" /\ \A m \in 1 .. n : KY[m].k = "string"
        BY <2>c, DatumFields DEF Invalid
      <4> QED
        BY <2>b, <2>12, <4>1 DEF AnyInvalid
    <3> QED
      BY <2>14, <3>1, <3>6, <3>7 DEF TableOrInvalid
  <2> HIDE DEF y
  <2>18. /\ \A m \in 1 .. n : At(y, t.names[at[m]]) = XY[m]
         /\ \A i \in DOMAIN t.names \ I : At(y, t.names[i]) = Plain("undefined")
    <3>1. ASSUME NEW m \in 1 .. n PROVE At(y, t.names[at[m]]) = XY[m]
      <4>1. \A j \in DOMAIN KY : KY[j] = Word("string", t.names[at[m]]) <=> j = m
        <5>1. \A j \in 1 .. n : Word("string", t.names[at[j]]) = Word("string", t.names[at[m]])
                           => t.names[at[j]] = t.names[at[m]]
          BY DatumFields
        <5>2. \A j \in 1 .. n : t.names[at[j]] = t.names[at[m]] => j = m
          <6>1. \A j \in 1 .. n : at[j] \in DOMAIN t.names
            BY <2>7
          <6>2. \A j \in 1 .. n : t.names[at[j]] = t.names[at[m]] => at[j] = at[m]
            BY <2>3, <6>1
          <6> QED
            BY <2>6, <6>2
        <5> QED
          BY <2>b, <2>c, <5>1, <5>2
      <4>2. m \in DOMAIN KY
        BY <2>b
      <4> QED
        BY <4>1, <4>2, AtEntry DEF y
    <3>2. ASSUME NEW i \in DOMAIN t.names \ I PROVE At(y, t.names[i]) = Plain("undefined")
      <4>1. \A j \in DOMAIN KY : KY[j] # Word("string", t.names[i])
        <5> SUFFICES ASSUME NEW j \in 1 .. n, KY[j] = Word("string", t.names[i]) PROVE FALSE
          BY <2>b
        <5>1. t.names[at[j]] = t.names[i]
          <6>1. Word("string", t.names[at[j]]) = Word("string", t.names[i])
            BY <2>c
          <6> QED
            BY <6>1, DatumFields
        <5>2. at[j] = i
          BY <2>3, <2>7, <3>2, <5>1
        <5> QED
          BY <2>7, <3>2, <5>2
      <4> QED
        BY <4>1, NoEntry DEF y
    <3> QED
      BY <3>1, <3>2
  <2>19. EncodeBy(E, y, t) = x
    <3>1. KnownKeys(y, t.names)
      BY <2>7, <2>b, <2>c, <2>14 DEF KnownKeys
    <3>2. Given(y, t) = I
      <4>1. ASSUME NEW i \in DOMAIN t.names PROVE At(y, t.names[i]).k # "undefined" <=> i \in I
        <5>1. CASE i \in I
          <6>1. PICK m \in 1 .. n : at[m] = i
            BY <2>5, <5>1
          <6> QED
            BY <2>12, <2>18, <5>1, <6>1
        <5>2. CASE i \notin I
          <6>1. At(y, t.names[i]).k = "undefined"
            BY <2>18, <5>2, DatumFields
          <6> QED
            BY <5>2, <6>1
        <5> QED
          BY <5>1, <5>2
      <4> QED
        BY <2>4, <4>1 DEF Given
    <3>3. ~Missing(y, t)
      <4>1. \A i \in DOMAIN t.names : At(y, t.names[i]).k = "undefined" => i \notin I
        BY <3>2 DEF Given
      <4>2. \A i \in DOMAIN t.names : i \notin I => t.t[i].k = "option"
        BY <2>1 DEF Missing, I, Given
      <4> QED
        BY <4>1, <4>2 DEF Missing
    <3>4. FieldItems(E, I, y, t) = item
      <4>1. ASSUME NEW i \in I PROVE E[t.t[i]][At(y, t.names[i])] = item[i]
        <5>1. PICK m \in 1 .. n : at[m] = i
          BY <2>5
        <5>2. At(y, t.names[i]) = XY[m] /\ t.t[i] = of[m] /\ X[m] = item[i]
          BY <2>d, <2>18, <5>1
        <5> QED
          BY <2>12, <5>2
      <4>2. FieldItems(E, I, y, t) = [i \in I |-> item[i]]
        BY <4>1 DEF FieldItems
      <4>3. item = [i \in I |-> item[i]]
        BY DEF item, FieldItems
      <4> QED
        BY <4>2, <4>3
    <3>5. EncodeBy(E, y, t) = SortedMap(key, item)
      <4>1. EncodeBy(E, y, t) = SortedMap(FieldKeys(I, t), FieldItems(E, I, y, t))
        BY <2>14, <3>1, <3>2, <3>3, StructIs
      <4> QED
        BY <3>4, <4>1 DEF key
    <3> QED
      BY <2>5, <3>5
  <2>20. /\ x.k \in ScKinds /\ y.k \in JsKinds /\ y.k # "null"
         /\ y.k # "undefined" /\ x.k # "scvVoid" /\ x.k # "scvError"
    BY <2>14 DEF ScKinds, JsKinds
  <2>21. EncodeBy(E, v, t) = x
    BY <2>1, <2>5
  <2> QED
    BY <2>15, <2>16, <2>17, <2>19, <2>20, <2>21, KeptByParts
<1> QED
  BY <1>1, <1>2

\* With all its fields an object is encoded to as many entries.
LEMMA StructWhole ==
  ASSUME NEW E, NEW P, NEW t \in TypesOf(P), t.k = "struct", NEW v, EncodeBy(E, v, t) # Invalid,
         \A i \in DOMAIN t.names : At(v, t.names[i]).k # "undefined"
  PROVE  Len(EncodeBy(E, v, t).keys) = Len(t.names)
<1> DEFINE I == Given(v, t)
           n == Cardinality(I)
           key == FieldKeys(I, t)
           item == FieldItems(E, I, v, t)
<1>1. n \in Nat /\ EncodeBy(E, v, t) = SortedMap(key, item)
  BY StructSorts
<1>2. PICK at : Sorts(at, n, key, item)
  BY StructSorts
<1>3. n = Len(t.names)
  <2>1. I = DOMAIN t.names
    BY DEF Given
  <2>2. t.names \in Seq(Symbols)
    BY TypeIs
  <2>3. I = 1 .. Len(t.names) /\ Len(t.names) \in Nat
    BY <2>1, <2>2, OfSeq
  <2> HIDE DEF I
  <2> QED
    BY <2>3, FS_Interval
<1> HIDE DEF I, n, key, item
<1> DEFINE K == [m \in 1 .. n |-> key[at[m]]]
           X == [m \in 1 .. n |-> item[at[m]]]
<1>4. EncodeBy(E, v, t) = Table("scvMap", K, X)
  BY <1>1, <1>2 DEF Sorts
<1>5. Len(K) = n
  BY <1>1
<1> HIDE DEF K, X
<1>6. EncodeBy(E, v, t).keys = K
  BY <1>4, DatumFields
<1> QED
  BY <1>3, <1>5, <1>6

\* A case and its values, in one list.
LEMMA Led == ASSUME NEW S, NEW a \in S, NEW X \in Seq(S)
             PROVE  /\ <<a>> \o X \in Seq(S) /\ Len(<<a>> \o X) = Len(X) + 1 /\ (<<a>> \o X)[1] = a
                    /\ \A j \in DOMAIN X : (<<a>> \o X)[j + 1] = X[j]
                    /\ Tail(<<a>> \o X) = X /\ <<a>> \o X # <<>>
                    /\ a # Invalid => (AnyInvalid(<<a>> \o X) <=> AnyInvalid(X))
<1> DEFINE s == <<a>> \o X
<1>1. /\ s \in Seq(S) /\ Len(s) = Len(X) + 1 /\ Len(X) \in Nat
      /\ DOMAIN s = 1 .. Len(s) /\ DOMAIN X = 1 .. Len(X) /\ s[1] = a
  OBVIOUS
<1>2. \A j \in 1 .. Len(X) : s[j + 1] = X[j]
  OBVIOUS
<1>3. s # <<>>
  <2>1. Len(<<>>) = 0
    OBVIOUS
  <2> HIDE DEF s
  <2> QED
    BY <1>1, <2>1
<1>4. Tail(s) = X
  OBVIOUS
<1> HIDE DEF s
<1>5. a # Invalid => (AnyInvalid(s) <=> AnyInvalid(X))
  <2>1. \A i \in 1 .. Len(s) : i = 1 \/ (i - 1 \in 1 .. Len(X) /\ (i - 1) + 1 = i)
    BY <1>1
  <2>2. \A j \in 1 .. Len(X) : j + 1 \in 1 .. Len(s)
    BY <1>1
  <2>3. \A i \in 1 .. Len(s) : i # 1 => s[i] = X[i - 1]
    BY <1>2, <2>1
  <2> SUFFICES ASSUME a # Invalid PROVE AnyInvalid(s) <=> AnyInvalid(X)
    OBVIOUS
  <2>4. ASSUME AnyInvalid(s) PROVE AnyInvalid(X)
    <3>1. PICK i \in 1 .. Len(s) : s[i] = Invalid
      BY <1>1, <2>4 DEF AnyInvalid
    <3>2. i # 1
      BY <1>1, <3>1
    <3> QED
      BY <1>1, <2>1, <2>3, <3>1, <3>2 DEF AnyInvalid
  <2>5. ASSUME AnyInvalid(X) PROVE AnyInvalid(s)
    BY <1>1, <1>2, <2>2, <2>5 DEF AnyInvalid
  <2> QED
    BY <2>4, <2>5
<1> QED
  BY <1>1, <1>2, <1>3, <1>4, <1>5 DEF s

\* An object of a case and its values.
LEMMA TwoEntries ==
  ASSUME NEW B, NEW a \in B, NEW b \in B, Word("string", "tag") \in B, Word("string", "values") \in B
  PROVE  LET y == Table("object", <<Word("string", "tag"), Word("string", "values")>>, <<a, b>>)
         IN  y \in DatumsOf(B) /\ y.k = "object" /\ At(y, "tag") = a /\ At(y, "values") = b
<1> DEFINE p == Word("string", "tag")
           q == Word("string", "values")
           keys == <<p, q>>
           items == <<a, b>>
<1>1. p # q
  <2>1. p.w = "tag" /\ q.w = "values"
    BY DatumFields
  <2> HIDE DEF p, q
  <2> QED
    BY <2>1
<1>2. p \in B /\ q \in B
  OBVIOUS
<1> HIDE DEF p, q
<1>3. /\ keys \in Seq(B) /\ items \in Seq(B) /\ Len(keys) = Len(items) /\ DOMAIN keys = {1, 2}
      /\ keys[1] = p /\ keys[2] = q /\ items[1] = a /\ items[2] = b
  BY <1>2
<1> HIDE DEF keys, items
<1> DEFINE y == Table("object", keys, items)
<1>4. "object" \in AllKinds
  BY DEF AllKinds, JsKinds
<1>5. y \in DatumsOf(B) /\ y.k = "object"
  BY <1>3, <1>4, InDatums, DatumFields
<1>6. At(y, "tag") = a
  <2>1. 1 \in DOMAIN keys /\ \A j \in DOMAIN keys : keys[j] = Word("string", "tag") <=> j = 1
    BY <1>1, <1>3 DEF p
  <2>2. At(y, "tag") = items[1]
    BY <2>1, AtEntry
  <2> QED
    BY <1>3, <2>2
<1>7. At(y, "values") = b
  <2>1. 2 \in DOMAIN keys /\ \A j \in DOMAIN keys : keys[j] = Word("string", "values") <=> j = 2
    BY <1>1, <1>3 DEF q
  <2>2. At(y, "values") = items[2]
    BY <2>1, AtEntry
  <2> QED
    BY <1>3, <2>2
<1> QED
  BY <1>5, <1>6, <1>7 DEF keys, items, p, q

\* A union is kept: its case comes back by its tag, and the values of the case with it.
LEMMA UnionKept ==
  ASSUME NEW E, NEW D, NEW A, NEW P, NEW B, NEW V, Parts(E, D, A, P, B, V), B \subseteq DatumsOf(B),
         NEW Q, NEW C, Parts(E, D, A, Q, C, V), P \subseteq TypesOf(Q), B = DatumsOf(C), C \subseteq B,
         NEW t \in TypesOf(P), t.k = "union", NEW v \in V
  PROVE  WholeKept(E, D, A, DatumsOf(B), t, v)
<1>1. CASE EncodeBy(E, v, t) = Invalid
  BY <1>1 DEF WholeKept
<1>2. CASE EncodeBy(E, v, t) # Invalid
  <2> DEFINE I(u) == {j \in DOMAIN t.names : At(u, "tag") = Word("string", t.names[j])}
  <2>1. \A u : u.k = "object" => EncodeBy(E, u, t) = EncodeUnion(E, u, t)
    BY DEF EncodeBy
  <2>2. v.k = "object" /\ I(v) # {} /\ EncodeBy(E, v, t) = EncodeUnion(E, v, t)
    <3>1. EncodeBy(E, v, t) = EncodeUnion(E, v, t)
      BY <1>2 DEF EncodeBy
    <3> QED
      BY <1>2, <3>1 DEF EncodeUnion
  <2> DEFINE i == CHOOSE j \in I(v) : TRUE
             name == t.names[i]
             sym == Word("scvSymbol", name)
             tag == Word("string", name)
             of == t.t[i].t
  <2>3. i \in DOMAIN t.names
    BY <2>2
  <2>4. /\ \A j \in DOMAIN t.names : t.names[j] = name => j = i
        /\ name \in Symbols /\ name \in Words
        /\ t.t[i].k = "tuple" /\ of \in Seq(Q) /\ \A j \in DOMAIN of : of[j] \in Q /\ of[j].k # "args"
    <3>1. /\ t.names \in Seq(Symbols) /\ t.t \in Seq(P) /\ Len(t.names) = Len(t.t)
          /\ \A j \in DOMAIN t.t : t.t[j].k = "tuple"
          /\ \A j, l \in DOMAIN t.names : t.names[j] = t.names[l] => j = l
      BY TypeIs DEF WellFormed
    <3>2. i \in DOMAIN t.t /\ name \in Symbols /\ t.t[i] \in TypesOf(Q)
      BY <2>3, <3>1, OfSeq
    <3>3. of \in Seq(Q) /\ \A j \in DOMAIN of : of[j].k # "args"
      BY <3>2, TypeIs DEF WellFormed
    <3>4. Symbols \subseteq Words
      BY CodecAssumption
    <3> QED
      BY <2>3, <3>1, <3>2, <3>3, <3>4, OfSeq
  <2>5. \A u : At(u, "tag") = tag => I(u) = {i}
    <3>1. \A j \in DOMAIN t.names : tag = Word("string", t.names[j]) <=> j = i
      <4>1. \A j \in DOMAIN t.names : Word("string", name) = Word("string", t.names[j]) => name = t.names[j]
        BY DatumFields
      <4> QED
        BY <2>4, <4>1
    <3> QED
      BY <2>3, <3>1
  \* What the encoding is, of an object of this case.
  <2>6. ASSUME NEW u, u.k = "object", At(u, "tag") = tag
        PROVE  EncodeUnion(E, u, t) =
                 IF of = <<>> THEN List("scvVec", <<sym>>)
                 ELSE IF At(u, "values").k # "array" \/ Len(At(u, "values").items) # Len(of) THEN Invalid
                 ELSE ListOrInvalid(<<sym>> \o [j \in DOMAIN At(u, "values").items
                                                            |-> E[of[j]][At(u, "values").items[j]]])
    <3>1. I(u) = {i}
      BY <2>5, <2>6
    <3>2. I(u) # {} /\ (CHOOSE j \in I(u) : TRUE) = i
      BY <3>1
    <3> QED
      BY <2>6, <3>2 DEF EncodeUnion, EncodeAll
  <2>7. At(v, "tag") = tag
    BY <2>2
  \* And the decoding.
  <2>8. ASSUME NEW x, x.k = "scvVec", x.items # <<>>, x.items[1] = sym,
               NEW Y, Y = [j \in DOMAIN of |-> D[of[j]][x.items[j + 1]]]
        PROVE  /\ of = <<>> => DecodeBy(D, x, t) = Table("object", <<Word("string", "tag")>>, <<tag>>)
               /\ of # <<>> /\ ~AnyInvalid(Y) =>
                    DecodeBy(D, x, t) = Table("object", <<Word("string", "tag"), Word("string", "values")>>,
                               <<tag, List("array", Y)>>)
    <3> DEFINE J == {j \in DOMAIN t.names : x.items[1].w = t.names[j]}
               c == CHOOSE j \in J : TRUE
               vals(l) == [j \in DOMAIN t.t[l].t |-> D[t.t[l].t[j]][x.items[j + 1]]]
    <3>1. x.items[1].w = name
      <4>1. Word("scvSymbol", name).w = name
        BY DatumFields
      <4>2. x.items[1] = Word("scvSymbol", name)
        BY <2>8
      <4> QED
        BY <4>1, <4>2
    <3>2. J = {i}
      BY <2>3, <2>4, <3>1
    <3>3. J # {} /\ c = i
      BY <3>2
    <3>4. DecodeBy(D, x, t) = DecodeUnion(D, x, t)
      BY DEF DecodeBy
    <3>5. DecodeUnion(D, x, t) =
            IF J = {} THEN Invalid
            ELSE IF t.t[c].t = <<>> THEN Table("object", <<Word("string", "tag")>>, <<Word("string", x.items[1].w)>>)
            ELSE IF AnyInvalid(vals(c)) THEN Invalid
            ELSE Table("object", <<Word("string", "tag"), Word("string", "values")>>,
                       <<Word("string", x.items[1].w), List("array", vals(c))>>)
      BY <2>8 DEF DecodeUnion
    <3>6. vals(i) = Y
      BY <2>8
    <3> HIDE DEF J, c, vals
    <3>7. vals(c) = Y /\ t.t[c].t = of /\ Word("string", x.items[1].w) = tag
      BY <3>1, <3>3, <3>6
    <3> HIDE DEF of, tag
    <3>8. DecodeBy(D, x, t) =
            IF of = <<>> THEN Table("object", <<Word("string", "tag")>>, <<tag>>)
            ELSE IF AnyInvalid(Y) THEN Invalid
            ELSE Table("object", <<Word("string", "tag"), Word("string", "values")>>, <<tag, List("array", Y)>>)
      BY <3>3, <3>4, <3>5, <3>7
    <3> QED
      BY <3>8
  <2>9. ASSUME NEW x, x.k = "scvVec", x.items # <<>>, x.items[1] = sym, Len(Tail(x.items)) = Len(of),
               \A j \in DOMAIN Tail(x.items) : A[of[j]][Tail(x.items)[j]]
        PROVE  AcceptsBy(A, x, t)
    <3>1. \E j \in DOMAIN t.names : /\ x.items[1] = Word("scvSymbol", t.names[j])
                                    /\ Len(Tail(x.items)) = Len(t.t[j].t)
                                    /\ \A l \in DOMAIN Tail(x.items) : A[t.t[j].t[l]][Tail(x.items)[l]]
      BY <2>3, <2>9
    <3> QED
      BY <2>9, <3>1 DEF AcceptsBy
  <2>10. /\ sym \in B /\ tag \in B /\ sym # Invalid /\ tag.k = "string" /\ sym.k = "scvSymbol"
         /\ Word("string", "tag") \in B /\ Word("string", "values") \in B
         /\ "tag" \in Words /\ "values" \in Words
    <3>1. "tag" \in Words /\ "values" \in Words
      BY CodecAssumption
    <3>2. "scvSymbol" \in AllKinds /\ "string" \in AllKinds
      BY DEF AllKinds, JsKinds, ScKinds
    <3>3. \A k \in AllKinds, z \in Words : Word(k, z) \in B
      BY DEF Parts
    <3>4. Invalid.k = "invalid"
      BY DatumFields DEF Invalid
    <3> QED
      BY <2>4, <3>1, <3>2, <3>3, <3>4, DatumFields
  <2>11. EncodeBy(E, v, t) = EncodeUnion(E, v, t) /\ EncodeUnion(E, v, t) # Invalid
    BY <1>2, <2>2
  <2> HIDE DEF I, i, name, sym, tag, of
  <2>12. CASE of = <<>>
    <3> DEFINE X == <<sym>>
               x == List("scvVec", X)
               y == Table("object", <<Word("string", "tag")>>, <<tag>>)
    <3>1. X \in Seq(B) /\ X # <<>> /\ X[1] = sym /\ Tail(X) = <<>> /\ DOMAIN Tail(X) = {}
      BY <2>10
    <3> HIDE DEF X
    <3>2. x.k = "scvVec" /\ x.items = X
      BY DatumFields
    <3>3. x \in DatumsOf(B)
      <4>1. "scvVec" \in AllKinds
        BY DEF AllKinds, ScKinds
      <4> QED
        BY <3>1, <4>1, InDatums
    <3>4. EncodeBy(E, v, t) = x
      BY <2>2, <2>6, <2>7, <2>11, <2>12 DEF X
    <3> HIDE DEF x
    <3>5. DecodeBy(D, x, t) = y
      <4> DEFINE Y == [j \in DOMAIN of |-> D[of[j]][x.items[j + 1]]]
      <4>1. Y = [j \in DOMAIN of |-> D[of[j]][x.items[j + 1]]]
        OBVIOUS
      <4> HIDE DEF Y
      <4> QED
        BY <2>8, <2>12, <3>1, <3>2, <4>1
    <3>6. y \in DatumsOf(B) /\ y.k = "object" /\ At(y, "tag") = tag
      BY <2>10, OneEntry
    <3> HIDE DEF y
    <3>7. EncodeBy(E, y, t) = x
      BY <2>1, <2>6, <2>12, <3>6 DEF x, X
    <3>8. AcceptsBy(A, x, t)
      BY <2>9, <2>12, <3>1, <3>2
    <3>9. /\ x.k \in ScKinds /\ y.k \in JsKinds /\ y.k # "null"
          /\ y.k # "undefined" /\ x.k # "scvVoid" /\ x.k # "scvError"
      BY <3>2, <3>6 DEF ScKinds, JsKinds
    <3> QED
      BY <3>3, <3>4, <3>5, <3>6, <3>7, <3>8, <3>9, KeptByParts
  <2>13. CASE of # <<>>
    <3> DEFINE n == Len(of)
               w == At(v, "values").items
               X == [j \in 1 .. n |-> E[of[j]][w[j]]]
               Y == [j \in 1 .. n |-> D[of[j]][X[j]]]
               Z == <<sym>> \o X
               val == List("array", Y)
               x == List("scvVec", Z)
               y == Table("object", <<Word("string", "tag"), Word("string", "values")>>, <<tag, val>>)
    <3>1. Len(w) = n /\ EncodeUnion(E, v, t) = ListOrInvalid(<<sym>> \o [j \in DOMAIN w |-> E[of[j]][w[j]]])
      BY <2>2, <2>6, <2>7, <2>11, <2>13
    <3>2. n \in Nat /\ DOMAIN of = 1 .. n /\ DOMAIN w = 1 .. n /\ \A j \in 1 .. n : w[j] \in V
      <4>1. At(v, "values") \in V
        BY AtIs
      <4>2. w \in Seq(V)
        BY <4>1 DEF Parts
      <4> QED
        BY <2>4, <3>1, <4>2, OfSeq
    <3>3. EncodeUnion(E, v, t) = ListOrInvalid(Z)
      BY <3>1, <3>2
    <3>a. /\ \A j \in 1 .. n : X[j] = E[of[j]][w[j]] /\ Y[j] = D[of[j]][X[j]]
          /\ X = [j \in 1 .. n |-> X[j]] /\ Y = [j \in 1 .. n |-> Y[j]] /\ DOMAIN X = 1 .. n /\ DOMAIN Y = 1 .. n
      OBVIOUS
    <3> HIDE DEF X, Y, n, w
    <3>4. \A j \in 1 .. n : E[of[j]][w[j]] # Invalid
      <4> SUFFICES ASSUME NEW j \in 1 .. n, E[of[j]][w[j]] = Invalid PROVE FALSE
        OBVIOUS
      <4> DEFINE S == {X[l] : l \in 1 .. n} \cup {sym}
      <4>1. X \in [1 .. n -> S]
        BY <3>a
      <4> HIDE DEF S
      <4>2. X \in Seq(S)
        BY <3>2, <4>1, AsSeq
      <4>3. AnyInvalid(X)
        BY <3>a DEF AnyInvalid
      <4>4. sym \in S
        BY DEF S
      <4>5. AnyInvalid(Z)
        BY <2>10, <4>2, <4>3, <4>4, Led
      <4> QED
        BY <2>11, <3>3, <4>5 DEF ListOrInvalid
    <3>5. Coded(E, D, Q, V, n, w, X, Y, of)
      BY <2>4, <3>2, <3>4, <3>a DEF Coded
    <3>6. EachKept(E, D, A, C, n, X, Y, of)
      BY <3>2, <3>5, Items
    <3>7. /\ X \in Seq(C) /\ Y \in Seq(C) /\ Len(X) = n /\ Len(Y) = n
          /\ \A j \in 1 .. n : /\ X[j] # Invalid /\ A[of[j]][X[j]] /\ Y[j] # Invalid /\ E[of[j]][Y[j]] = X[j]
      BY <3>6 DEF EachKept
    <3>8. X \in Seq(B) /\ ~AnyInvalid(X) /\ ~AnyInvalid(Y)
      <4>1. ~AnyInvalid(X) /\ ~AnyInvalid(Y)
        BY <3>7, <3>a DEF AnyInvalid
      <4>2. Seq(C) \subseteq Seq(B)
        OBVIOUS
      <4> QED
        BY <3>7, <4>1, <4>2
    <3>9. /\ Z \in Seq(B) /\ Z[1] = sym /\ (\A j \in 1 .. n : Z[j + 1] = X[j])
          /\ Tail(Z) = X /\ Z # <<>> /\ ~AnyInvalid(Z)
      <4>1. sym \in B /\ sym # Invalid /\ X \in Seq(B) /\ ~AnyInvalid(X) /\ DOMAIN X = 1 .. n
        BY <2>10, <3>8, <3>a
      <4>2. /\ <<sym>> \o X \in Seq(B) /\ (<<sym>> \o X)[1] = sym /\ (\A j \in DOMAIN X : (<<sym>> \o X)[j + 1] = X[j])
            /\ Tail(<<sym>> \o X) = X /\ <<sym>> \o X # <<>> /\ ~AnyInvalid(<<sym>> \o X)
        <5> DEFINE a == sym
        <5>1. a \in B /\ a # Invalid
          BY <4>1
        <5> HIDE DEF a
        <5>2. X \in Seq(B)
          BY <4>1
        <5>3. /\ <<a>> \o X \in Seq(B) /\ Len(<<a>> \o X) = Len(X) + 1 /\ (<<a>> \o X)[1] = a
              /\ \A j \in DOMAIN X : (<<a>> \o X)[j + 1] = X[j]
              /\ Tail(<<a>> \o X) = X /\ <<a>> \o X # <<>>
              /\ a # Invalid => (AnyInvalid(<<a>> \o X) <=> AnyInvalid(X))
          BY ONLY <5>1, <5>2, Led, Zenon
        <5> QED
          BY <4>1, <5>1, <5>3 DEF a
      <4> QED
        BY <4>1, <4>2
    <3> HIDE DEF Z
    <3>10. x.k = "scvVec" /\ x.items = Z /\ val.k = "array" /\ val.items = Y
      BY DatumFields
    <3>11. x \in DatumsOf(B) /\ val \in B
      <4>1. "scvVec" \in AllKinds /\ "array" \in AllKinds
        BY DEF AllKinds, ScKinds, JsKinds
      <4> QED
        BY <3>7, <3>9, <4>1, InDatums
    <3>12. EncodeBy(E, v, t) = x
      BY <2>11, <3>3, <3>9 DEF ListOrInvalid
    <3>d. val = List("array", Y)
      OBVIOUS
    <3> HIDE DEF x, val
    <3>13. DecodeBy(D, x, t) = y
      <4>1. [j \in DOMAIN of |-> D[of[j]][x.items[j + 1]]] = [j \in 1 .. n |-> Y[j]]
        BY <3>2, <3>9, <3>10, <3>a
      <4>2. [j \in DOMAIN of |-> D[of[j]][x.items[j + 1]]] = Y
        BY <3>a, <4>1
      <4> QED
        <5>1. x.k = "scvVec" /\ x.items # <<>> /\ x.items[1] = sym
          BY <3>9, <3>10
        <5>2. DecodeBy(D, x, t) = Table("object", <<Word("string", "tag"), Word("string", "values")>>,
                               <<tag, List("array", Y)>>)
          BY <2>8, <2>13, <3>8, <4>2, <5>1
        <5> QED
          BY <3>d, <5>2
    <3>14. y \in DatumsOf(B) /\ y.k = "object" /\ At(y, "tag") = tag /\ At(y, "values") = val
      BY <2>10, <3>11, TwoEntries
    <3> HIDE DEF y
    <3>15. EncodeBy(E, y, t) = x
      <4>1. EncodeUnion(E, y, t) = ListOrInvalid(<<sym>> \o [j \in DOMAIN Y |-> E[of[j]][Y[j]]])
        <5>1. EncodeUnion(E, y, t) = ListOrInvalid(<<sym>> \o [j \in DOMAIN val.items |-> E[of[j]][val.items[j]]])
          <6> DEFINE z == At(y, "values")
                     F == [j \in DOMAIN z.items |-> E[of[j]][z.items[j]]]
          <6>1. EncodeUnion(E, y, t) = IF of = <<>> THEN List("scvVec", <<sym>>)
                                       ELSE IF z.k # "array" \/ Len(z.items) # Len(of) THEN Invalid
                                       ELSE ListOrInvalid(<<sym>> \o F)
            BY <2>6, <3>14
          <6>2. F = [j \in DOMAIN val.items |-> E[of[j]][val.items[j]]]
            BY <3>14
          <6>3. z = val /\ val.k = "array" /\ Len(val.items) = Len(of)
            BY <3>7, <3>10, <3>14 DEF n
          <6> HIDE DEF z, F
          <6> QED
            BY <2>13, <6>1, <6>2, <6>3
        <5>2. [j \in DOMAIN val.items |-> E[of[j]][val.items[j]]] = [j \in DOMAIN Y |-> E[of[j]][Y[j]]]
          BY <3>10
        <5> QED
          BY <5>1, <5>2
      <4>2. [j \in DOMAIN Y |-> E[of[j]][Y[j]]] = [j \in 1 .. n |-> X[j]]
        BY <3>7, <3>a
      <4>3. [j \in DOMAIN Y |-> E[of[j]][Y[j]]] = X
        BY <3>a, <4>2
      <4>4. EncodeUnion(E, y, t) = ListOrInvalid(Z)
        BY <4>1, <4>3 DEF Z
      <4> QED
        BY <2>1, <3>9, <3>14, <4>4 DEF ListOrInvalid, x
    <3>16. AcceptsBy(A, x, t)
      BY <2>9, <3>7, <3>9, <3>10, <3>a DEF n
    <3>17. /\ x.k \in ScKinds /\ y.k \in JsKinds /\ y.k # "null"
           /\ y.k # "undefined" /\ x.k # "scvVoid" /\ x.k # "scvError"
      BY <3>10, <3>14 DEF ScKinds, JsKinds
    <3> QED
      BY <3>11, <3>12, <3>13, <3>14, <3>15, <3>16, <3>17, KeptByParts
  <2> QED
    BY <2>12, <2>13
<1> QED
  BY <1>1, <1>2

-----------------------------------------------------------------------------
(* The codec, one level of the types after the other.                      *)

\* Whatever the kind of the type.
LEMMA EachKindKept ==
  ASSUME NEW E, NEW D, NEW A, NEW P, NEW B, NEW V, Parts(E, D, A, P, B, V), B \subseteq DatumsOf(B),
         NEW t \in TypesOf(P), NEW v \in V,
         t.k = "union" => WholeKept(E, D, A, DatumsOf(B), t, v)
  PROVE  WholeKept(E, D, A, DatumsOf(B), t, v)
<1>1. t.k \in {"void", "int", "symbol", "option", "vec", "tuple", "map", "result",
               "enum", "union", "struct", "args"}
  BY TypeIs DEF Kinds, Leaves
<1>2. t.k \in {"void", "int", "symbol", "enum"} => WholeKept(E, D, A, DatumsOf(B), t, v)
  BY VoidKept, IntKept, SymbolKept, EnumKept
<1>3. t.k \in {"option", "vec", "tuple", "args"} => WholeKept(E, D, A, DatumsOf(B), t, v)
  BY OptionKept, VecKept, TupleKept, ArgsKept
<1>4. t.k \in {"map", "result", "struct"} => WholeKept(E, D, A, DatumsOf(B), t, v)
  BY MapKept, ResultKept, StructKept
<1> QED
  BY <1>1, <1>2, <1>3, <1>4

\* The codec, one level up.
LEMMA CodecStep ==
  ASSUME NEW d \in Nat, d # 0, NEW t \in TypesTo(d), NEW v \in Datums(MaxNesting)
  PROVE  /\ Codec[d].encode[t][v] = EncodeBy(Codec[d - 1].encode, v, t)
         /\ Codec[d].decode[t][v] = DecodeBy(Codec[d - 1].decode, v, t)
         /\ Codec[d].accepts[t][v] = AcceptsBy(Codec[d - 1].accepts, v, t)
<1> DEFINE C == Codec[d - 1]
           V == Datums(MaxNesting)
           T == TypesTo(d)
           E == [s \in T |-> [u \in V |-> EncodeBy(C.encode, u, s)]]
           D == [s \in T |-> [u \in V |-> DecodeBy(C.decode, u, s)]]
           A == [s \in T |-> [u \in V |-> AcceptsBy(C.accepts, u, s)]]
<1>1. Codec[d] = CodecOf(C, d)
  BY CodecIs
<1>2. CodecOf(C, d) = [encode |-> E, decode |-> D, accepts |-> A]
  BY DEF CodecOf
<1>3. /\ E[t][v] = EncodeBy(C.encode, v, t) /\ D[t][v] = DecodeBy(C.decode, v, t)
      /\ A[t][v] = AcceptsBy(C.accepts, v, t)
  <2> HIDE DEF C, V, T
  <2>1. t \in T /\ v \in V
    BY DEF T, V
  <2> QED
    BY <2>1
<1> HIDE DEF E, D, A
<1>4. Codec[d].encode = E /\ Codec[d].decode = D /\ Codec[d].accepts = A
  BY <1>1, <1>2
<1> QED
  BY <1>3, <1>4

\* What the codec of the types up to d deep does, to those up to c deep.
CodecKeeps(d, c) == PartsKept(Codec[d].encode, Codec[d].decode, Codec[d].accepts,
                              TypesTo(c), Datums(c), Datums(MaxNesting))

\* Then they are parts of which more can be made.
LEMMA PartsAre == ASSUME NEW d \in Nat, NEW c \in Nat, c <= MaxNesting, CodecKeeps(d, c)
                  PROVE  Parts(Codec[d].encode, Codec[d].decode, Codec[d].accepts,
                               TypesTo(c), Datums(c), Datums(MaxNesting))
<1>1. MaxNesting \in Nat
  BY CodecAssumption
<1>2. Datums(c) \subseteq Datums(MaxNesting)
  BY <1>1, Deeper
<1>3. /\ \A k \in AllKinds : Plain(k) \in Datums(c)
      /\ \A k \in AllKinds, n \in Int : Number(k, n) \in Datums(c)
      /\ \A k \in AllKinds, w \in Words : Word(k, w) \in Datums(c)
  BY InEvery
<1>4. \A v \in Datums(MaxNesting) : /\ v.k \in AllKinds /\ v.n \in Int /\ v.w \in Words
                                    /\ v.keys \in Seq(Datums(MaxNesting)) /\ v.items \in Seq(Datums(MaxNesting))
                                    /\ DOMAIN v.keys \subseteq DOMAIN v.items
  BY <1>1, InEvery
<1> QED
  BY <1>2, <1>3, <1>4 DEF Parts, CodecKeeps

\* What the codec keeps one level down it keeps.
LEMMA CodecKept ==
  ASSUME NEW d \in Nat, d # 0, d <= MaxNesting, \A c \in 0 .. (d - 1) : CodecKeeps(d - 1, c),
         NEW c \in 0 .. d
  PROVE  CodecKeeps(d, c)
<1> DEFINE E == Codec[d - 1].encode
           D == Codec[d - 1].decode
           A == Codec[d - 1].accepts
           V == Datums(MaxNesting)
<1>1. MaxNesting \in Nat /\ d - 1 \in Nat
  <2>1. MaxNesting \in Nat
    BY CodecAssumption
  <2>2. d - 1 \in Nat
    OBVIOUS
  <2> QED
    BY <2>1, <2>2
<1>2. CASE c = 0
  BY <1>2, NestedSteps DEF CodecKeeps, PartsKept
<1>3. CASE c # 0
  <2> DEFINE P == TypesTo(c - 1)
             B == Datums(c - 1)
  <2>1. c - 1 \in 0 .. (d - 1) /\ c - 1 \in Nat /\ (c - 1) + 1 = c /\ c - 1 <= MaxNesting /\ c - 1 <= c
    BY <1>1, <1>3
  <2>2. Datums(c) = DatumsOf(B) /\ TypesTo(c) = TypesOf(P) /\ B \subseteq DatumsOf(B)
    <3>1. Datums((c - 1) + 1) = DatumsOf(B) /\ TypesTo((c - 1) + 1) = TypesOf(P)
      BY <2>1, NestedSteps
    <3>2. Datums(c - 1) \subseteq Datums(c)
      BY <2>1, Deeper
    <3> QED
      BY <2>1, <3>1, <3>2
  <2>3. Parts(E, D, A, P, B, V)
    BY <1>1, <2>1, PartsAre
  <2>4. ASSUME NEW t \in TypesOf(P), NEW v \in V, t.k = "union" PROVE WholeKept(E, D, A, DatumsOf(B), t, v)
    <3>1. CASE c - 1 = 0
      <4>1. P = {}
        BY <3>1, NestedSteps
      <4>2. t.t \in Seq({}) /\ Len(t.names) = Len(t.t) /\ t.names \in Seq(Symbols)
        BY <2>4, <4>1, TypeIs DEF WellFormed
      <4>3. Len(t.t) = 0
        <5>1. \A s \in Seq({}) : Len(s) = 0
          <6> SUFFICES ASSUME NEW s \in Seq({}), Len(s) # 0 PROVE FALSE
            OBVIOUS
          <6>1. Len(s) \in Nat /\ DOMAIN s = 1 .. Len(s) /\ \A i \in DOMAIN s : s[i] \in {}
            BY OfSeq
          <6>2. 1 \in DOMAIN s
            BY <6>1
          <6> QED
            BY <6>1, <6>2
        <5> QED
          BY <4>2, <5>1
      <4>4. DOMAIN t.names = {}
        BY <4>2, <4>3, OfSeq
      <4>5. EncodeUnion(E, v, t) = Invalid
        BY <4>4 DEF EncodeUnion
      <4>6. EncodeBy(E, v, t) = Invalid
        BY <2>4, <4>5 DEF EncodeBy
      <4> QED
        BY <4>6 DEF WholeKept
    <3>2. CASE c - 1 # 0
      <4> DEFINE Q == TypesTo(c - 2)
                 C == Datums(c - 2)
      <4>1. /\ c - 2 \in 0 .. (d - 1) /\ c - 2 \in Nat /\ (c - 2) + 1 = c - 1
            /\ c - 2 <= MaxNesting /\ c - 2 <= c - 1
        BY <1>1, <2>1, <3>2
      <4>2. B = DatumsOf(C) /\ P = TypesOf(Q) /\ C \subseteq B
        <5>1. Datums((c - 2) + 1) = DatumsOf(C) /\ TypesTo((c - 2) + 1) = TypesOf(Q)
          BY <4>1, NestedSteps
        <5>2. Datums(c - 2) \subseteq Datums(c - 1)
          BY <2>1, <4>1, Deeper
        <5> QED
          BY <4>1, <5>1, <5>2
      <4>3. Parts(E, D, A, Q, C, V)
        BY <1>1, <4>1, PartsAre
      <4> HIDE DEF E, D, A, P, B, V, Q, C
      <4>4. P \subseteq TypesOf(Q)
        BY <4>2
      <4> QED
        BY <2>2, <2>3, <2>4, <4>2, <4>3, <4>4, UnionKept
    <3> QED
      BY <3>1, <3>2
  <2>5. ASSUME NEW s \in TypesTo(c), NEW v \in V
        PROVE  LET x == Codec[d].encode[s][v]
                   y == Codec[d].decode[s][x]
               IN  x = Invalid \/ Kept(x, Datums(c), s, Codec[d].accepts[s][x], y, Codec[d].encode[s][y])
    <3> DEFINE x == EncodeBy(E, v, s)
               y == DecodeBy(D, x, s)
               S == Datums(c)
    <3>1. WholeKept(E, D, A, S, s, v)
      <4> HIDE DEF E, D, A, P, B, V
      <4>1. s \in TypesOf(P)
        BY <2>2
      <4>2. s.k = "union" => WholeKept(E, D, A, DatumsOf(B), s, v)
        BY <2>4, <4>1
      <4>3. WholeKept(E, D, A, DatumsOf(B), s, v)
        BY <2>2, <2>3, <4>1, <4>2, EachKindKept
      <4> QED
        BY <2>2, <4>3
    <3>2. c \in Nat /\ c <= d /\ c <= MaxNesting
      BY <1>1
    <3>3. s \in TypesTo(d) /\ S \subseteq V
      <4>1. TypesTo(c) \subseteq TypesTo(d) /\ Datums(c) \subseteq Datums(MaxNesting)
        BY <1>1, <3>2, Deeper
      <4> QED
        BY <4>1
    <3>4. \A u \in V : /\ Codec[d].encode[s][u] = EncodeBy(E, u, s)
                       /\ Codec[d].decode[s][u] = DecodeBy(D, u, s)
                       /\ Codec[d].accepts[s][u] = AcceptsBy(A, u, s)
      BY <3>3, CodecStep
    <3>5. x = Invalid \/ Kept(x, S, s, AcceptsBy(A, x, s), y, EncodeBy(E, y, s))
      BY <3>1 DEF WholeKept
    <3>6. Codec[d].encode[s][v] = x
      BY <3>4
    <3> HIDE DEF E, D, A, V, S, x
    <3>y. y = DecodeBy(D, x, s)
      OBVIOUS
    <3> HIDE DEF y
    <3>7. CASE x = Invalid
      BY <3>6, <3>7
    <3>8. CASE x # Invalid
      <4>1. Kept(x, S, s, AcceptsBy(A, x, s), y, EncodeBy(E, y, s))
        BY <3>5, <3>8
      <4>2. x \in V
        BY <3>3, <4>1 DEF Kept
      <4>3. Codec[d].accepts[s][x] = AcceptsBy(A, x, s) /\ Codec[d].decode[s][x] = y
        BY <3>4, <3>y, <4>2
      <4>4. Kept(x, S, s, AcceptsBy(A, x, s), y, Codec[d].encode[s][y])
        <5>1. CASE s.k = "args"
          BY <4>1, <5>1 DEF Kept
        <5>2. CASE s.k # "args"
          <6>1. y \in V
            BY <3>3, <4>1, <5>2 DEF Kept
          <6> QED
            BY <3>4, <4>1, <6>1
        <5> QED
          BY <5>1, <5>2
      <4>5. Kept(x, S, s, Codec[d].accepts[s][x], y, Codec[d].encode[s][y])
        BY <4>3, <4>4
      <4> QED
        BY <3>6, <4>3, <4>5 DEF S
    <3> QED
      BY <3>7, <3>8
  <2> QED
    BY <2>5 DEF CodecKeeps, PartsKept
<1> QED
  BY <1>2, <1>3

\* By the depth of the types.
LEMMA CodecKeepsAll == CodecKeeps(MaxNesting, MaxNesting)
<1> DEFINE Bad == {d \in 0 .. MaxNesting : ~\A c \in 0 .. d : CodecKeeps(d, c)}
<1>1. MaxNesting \in Nat
  BY CodecAssumption
<1>2. Bad = {}
  <2> SUFFICES ASSUME Bad # {} PROVE FALSE
    OBVIOUS
  <2>1. Bad \in SUBSET Nat
    BY <1>1
  <2>2. PICK d \in Bad : \A e \in Bad : d <= e
    BY <2>1, MinIs
  <2>3. d \in Nat /\ d <= MaxNesting
    BY <1>1, <2>2
  <2>4. CASE d = 0
    <3>1. CodecKeeps(d, 0)
      BY NestedSteps DEF CodecKeeps, PartsKept
    <3>2. 0 .. d = {0}
      BY <2>4
    <3> QED
      BY <2>2, <3>1, <3>2
  <2>5. CASE d # 0
    <3>1. d - 1 \in 0 .. MaxNesting /\ ~(d <= d - 1)
      BY <1>1, <2>3, <2>5
    <3>2. d - 1 \notin Bad
      BY <2>2, <3>1
    <3>3. \A c \in 0 .. (d - 1) : CodecKeeps(d - 1, c)
      BY <3>1, <3>2
    <3>4. \A c \in 0 .. d : CodecKeeps(d, c)
      BY <2>3, <2>5, <3>3, CodecKept
    <3> QED
      BY <2>2, <3>4
  <2> QED
    BY <2>4, <2>5
<1>3. MaxNesting \in 0 .. MaxNesting
  BY <1>1
<1>4. MaxNesting \notin Bad
  BY <1>2
<1>5. \A c \in 0 .. MaxNesting : CodecKeeps(MaxNesting, c)
  BY <1>3, <1>4
<1> QED
  BY <1>3, <1>5

\* What the codec does to the types and the values that are tried.
LEMMA EncodedIsKept ==
  ASSUME NEW t \in Types, NEW v \in Values
  PROVE  \/ Encode(v, t) = Invalid
         \/ /\ Kept(Encode(v, t), Datums(MaxNesting), t, Accepts(Encode(v, t), t),
                    Decode(Encode(v, t), t), Encode(Decode(Encode(v, t), t), t))
            /\ (t.k = "struct" /\ (\A i \in DOMAIN t.names : At(v, t.names[i]).k # "undefined")
                  => Len(Encode(v, t).keys) = Len(t.names))
<1> DEFINE V == Datums(MaxNesting)
           T == TypesTo(MaxNesting)
<1>1. v \in V /\ t \in T /\ MaxNesting \in Nat
  BY CodecAssumption
<1>2. /\ Encode(v, t) = Codec[MaxNesting].encode[t][v]
      /\ \A x : Accepts(x, t) = Codec[MaxNesting].accepts[t][x]
      /\ \A x : Decode(x, t) = Codec[MaxNesting].decode[t][x]
      /\ \A y : Encode(y, t) = Codec[MaxNesting].encode[t][y]
  BY DEF Encode, Accepts, Decode
<1>3. Encode(v, t) = Invalid \/ Kept(Encode(v, t), V, t, Accepts(Encode(v, t), t),
                                    Decode(Encode(v, t), t), Encode(Decode(Encode(v, t), t), t))
  BY <1>1, <1>2, CodecKeepsAll DEF CodecKeeps, PartsKept
<1>4. ASSUME Encode(v, t) # Invalid, t.k = "struct", \A i \in DOMAIN t.names : At(v, t.names[i]).k # "undefined"
      PROVE  Len(Encode(v, t).keys) = Len(t.names)
  <2>1. MaxNesting # 0
    BY <1>1, NestedSteps
  <2>2. MaxNesting - 1 \in Nat /\ (MaxNesting - 1) + 1 = MaxNesting
    BY <1>1, <2>1
  <2>3. t \in TypesOf(TypesTo(MaxNesting - 1))
    <3>1. TypesTo((MaxNesting - 1) + 1) = TypesOf(TypesTo(MaxNesting - 1))
      BY <2>2, NestedSteps
    <3> QED
      BY <1>1, <2>2, <3>1
  <2>4. Encode(v, t) = EncodeBy(Codec[MaxNesting - 1].encode, v, t)
    BY <1>1, <1>2, <2>1, CodecStep
  <2> QED
    BY <1>4, <2>3, <2>4, StructWhole
<1> QED
  BY <1>3, <1>4

\* What has been encoded and decoded so far.
CodecInv ==
  /\ type \in Types /\ value \in Values
  /\ wire \in {Unset, Encode(value, type)}
  /\ back # Unset => /\ wire \notin {Unset, Invalid} /\ type.k # "args"
                     /\ back = Decode(wire, type)

LEMMA CodecBegins == CodecInit => CodecInv
BY DEF CodecInit, CodecInv

LEMMA CodecSteps == ASSUME CodecInv, [CodecNext]_codecVars PROVE CodecInv'
<1>1. CASE EncodeStep
  BY <1>1 DEF EncodeStep, CodecInv
<1>2. CASE DecodeStep
  BY <1>2 DEF DecodeStep, CodecInv
<1>3. CASE UNCHANGED codecVars
  BY <1>3 DEF codecVars, CodecInv
<1> QED
  BY <1>1, <1>2, <1>3 DEF CodecNext

LEMMA CodecImplies == CodecInv => CodecHolds
<1> SUFFICES ASSUME CodecInv PROVE CodecHolds
  OBVIOUS
<1>1. type \in Types /\ value \in Values /\ value.k \in JsKinds
  BY CodecAssumption DEF CodecInv
<1>2. Unset.k = "unset" /\ Invalid.k = "invalid"
  BY DatumFields DEF Unset, Invalid
<1>3. CASE wire \in {Unset, Invalid}
  <2>1. back = Unset
    BY <1>3 DEF CodecInv
  <2> QED
    BY <1>1, <1>3, <2>1 DEF CodecHolds, CodecTypeOK
<1>4. CASE wire \notin {Unset, Invalid}
  <2> DEFINE x == Encode(value, type)
             y == Decode(x, type)
  <2>1. wire = x
    BY <1>4 DEF CodecInv
  <2>2. /\ Kept(x, Datums(MaxNesting), type, Accepts(x, type), y, Encode(y, type))
        /\ type.k = "struct" /\ (\A i \in DOMAIN type.names : At(value, type.names[i]).k # "undefined")
             => Len(x.keys) = Len(type.names)
    BY <1>1, <1>4, <2>1, EncodedIsKept
  <2>3. /\ wire.k \in ScKinds /\ Accepts(wire, type)
        /\ (type.k = "struct" /\ ~OmitsField => Len(wire.keys) = Len(type.names))
    <3>1. x.k \in ScKinds /\ Accepts(x, type)
      BY <2>2 DEF Kept
    <3> QED
      BY <2>1, <2>2, <3>1 DEF OmitsField
  <2>4. CASE back = Unset
    BY <1>1, <2>3, <2>4 DEF CodecHolds, CodecTypeOK
  <2>5. CASE back # Unset
    <3>1. back = y /\ type.k # "args"
      BY <2>1, <2>5 DEF CodecInv
    <3>2. y.k \in JsKinds /\ Encode(y, type) = x
      BY <2>2, <3>1 DEF Kept
    <3>3. y # Invalid
      BY <1>2, <3>2 DEF JsKinds
    <3> QED
      BY <1>1, <2>1, <2>3, <3>1, <3>2, <3>3 DEF CodecHolds, CodecTypeOK
  <2> QED
    BY <2>4, <2>5
<1> QED
  BY <1>3, <1>4

\* For any types and values, however deep: a value that is not rejected is encoded as a value of
\* its type, a struct with all its fields if all are given, can be decoded, and what it is decoded
\* to is encoded in the same way.
THEOREM CodecStaysTrue == CodecSpec => []CodecHolds
<1>1. CodecInit => CodecInv
  BY CodecBegins
<1>2. CodecInv /\ [CodecNext]_codecVars => CodecInv'
  BY CodecSteps
<1>3. CodecInv => CodecHolds
  BY CodecImplies
<1> QED
  BY <1>1, <1>2, <1>3, PTL DEF CodecSpec

-----------------------------------------------------------------------------
(* The services and the codec together.                                    *)

\* A step of the toolkit is a step of the services, or of the codec, and leaves the other alone.
LEMMA StepsOfToolkit ==
  ASSUME [ToolkitNext]_<<part, services, codecVars>>
  PROVE  [ServicesNext]_<<part, services>> /\ [CodecNext]_codecVars
BY DEF ToolkitNext, Serving, Coding

\* What the services promise they promise in the toolkit: no state has other than its type, the
\* callers of each part are served, what must not be repeated is not, nobody is told of the
\* network that was left, and the circuit breaker moves for a reason.
THEOREM ToolkitServes == ToolkitSpec => /\ []ServicesTypeOK /\ []CallersAreServed /\ []RetriesAreSafe
                                        /\ []HooksAgree /\ []SwitchIsClean /\ BreakerMoves
<1>1. ToolkitInit => ServicesInv
  BY ServicesBegin DEF ToolkitInit
<1>2. ServicesInv /\ [ToolkitNext]_<<part, services, codecVars>> => ServicesInv'
  BY StepsOfToolkit, ServicesSteps
<1>3. ServicesInv => ServicesTypeOK /\ CallersAreServed /\ RetriesAreSafe /\ HooksAgree /\ SwitchIsClean
  BY ServicesImply
<1>4. ServicesInv /\ [ToolkitNext]_<<part, services, codecVars>>
        => [OpensForFailures /\ RecoversInTime /\ ClosesForSuccesses]_breakerVars
  BY StepsOfToolkit, ServicesMoveBreaker
<1> QED
  BY <1>1, <1>2, <1>3, <1>4, PTL DEF ToolkitSpec, BreakerMoves

\* Whatever the services do, the codec of the toolkit is that of CodecStaysTrue.
THEOREM ToolkitCodes == ToolkitSpec => []CodecHolds
<1>1. ToolkitInit => CodecInv
  BY CodecBegins DEF ToolkitInit
<1>2. CodecInv /\ [ToolkitNext]_<<part, services, codecVars>> => CodecInv'
  BY StepsOfToolkit, CodecSteps
<1>3. CodecInv => CodecHolds
  BY CodecImplies
<1> QED
  BY <1>1, <1>2, <1>3, PTL DEF ToolkitSpec

=============================================================================
