------------------------------ MODULE SpecCodec ------------------------------
(***************************************************************************)
(* contract/spec.ts: SorobanSpec, which turns an application's JavaScript  *)
(* values into ScVals by the types of a contract, and what the contract    *)
(* returns back into JavaScript values.                                    *)
(*                                                                         *)
(* A type holds the user-defined type it names. One integer type stands    *)
(* for the ten, whose ranges differ, and a symbol for the other leaves: a  *)
(* string, bytes and an address are checked and converted likewise; a      *)
(* tuple stands for a struct whose fields are numbered, or that has none.  *)
(* Of an error only that there is one matters, not its path. Types that    *)
(* lead to the untyped nativeToScVal of the Stellar SDK are left out.      *)
(***************************************************************************)
EXTENDS Positions, Integers, Sequences

CONSTANTS
  MaxNesting,   \* bound: how deep a type or a value is nested
  Words,        \* bound: the strings, symbols or not
  Types, Values \* bound: the types and the values that are tried

VARIABLES
  type, value, \* what is encoded
  wire,        \* the ScVal, Unset before
  back         \* and what that is decoded to

codecVars == <<type, value, wire, back>>

\* A JavaScript value or an ScVal: its kind, a number or a word, and for a collection the
\* keys and the items.
Datum(k, n, w, keys, items) == [k |-> k, n |-> n, w |-> w, keys |-> keys, items |-> items]

JsKinds == {"undefined", "null", "number", "bigint", "string", "array", "object", "map"}
ScKinds == {"scvVoid", "scvInt", "scvSymbol", "scvVec", "scvMap", "scvError"}

DatumsOf(parts) ==
  {v \in [k : JsKinds \cup ScKinds, n : Int, w : Words, keys : Seq(parts), items : Seq(parts)] :
     v.keys # <<>> => Len(v.keys) = Len(v.items)}

Plain(k)       == Datum(k, 0, "", <<>>, <<>>)
Number(k, n)   == Datum(k, n, "", <<>>, <<>>)
Word(k, w)     == Datum(k, 0, w, <<>>, <<>>)
List(k, items) == Datum(k, 0, "", <<>>, items)
Table(k, keys, items) == Datum(k, 0, "", keys, items)

Unset   == Plain("unset")
Invalid == Plain("invalid") \* INVALID_CONTRACT_CALL was thrown

\* u8: the range stands for that of each type.
MaxInteger == 2

\* The words that are base-10 integers.
Numerals == [w \in {"0", "1", "01", "3"} |-> CASE w = "0" -> 0 [] w = "3" -> 3 [] OTHER -> 1]

\* The words, bytewise in order. Each of them is a symbol.
WordOrder == <<"0", "01", "1", "3", "a", "b", "c">>

Symbols == {WordOrder[i] : i \in DOMAIN WordOrder}

Place(w) == CHOOSE i \in DOMAIN WordOrder : WordOrder[i] = w

\* A type: of its kind k, with the types it is made of, and the names of fields or cases.
Type(k, names, t) == [k |-> k, names |-> names, t |-> t]

Leaves == {"void", "int", "symbol"}

Kinds == Leaves \cup {"option", "vec", "tuple", "map", "result", "enum", "union", "struct", "args"}

\* Each has the parts of its kind, and a union those of each case. No two names are the same.
WellFormed(t) ==
  /\ t.k \in Leaves \cup {"enum"} => t.t = <<>>
  /\ t.k \in {"option", "vec", "result"} => Len(t.t) = 1
  /\ t.k = "map" => Len(t.t) = 2 /\ t.t[1].k \in {"int", "symbol"}
  /\ t.k \in {"union", "struct", "args"} => Len(t.names) = Len(t.t)
  /\ \A i \in DOMAIN t.t : t.t[i].k # "args" /\ (t.k = "union" => t.t[i].k = "tuple")
  /\ \A i, j \in DOMAIN t.names : t.names[i] = t.names[j] => i = j

TypesOf(parts) == {t \in [k : Kinds, names : Seq(Symbols), t : Seq(parts)] : WellFormed(t)}

\* What is nested up to d deep: collections in each other, and types, of which a leaf is one deep.
Nested[d \in Nat] ==
  IF d = 0 THEN [datums |-> DatumsOf({}), types |-> {}]
  ELSE [datums |-> DatumsOf(Nested[d - 1].datums), types |-> TypesOf(Nested[d - 1].types)]

Datums(d)  == Nested[d].datums
TypesTo(d) == Nested[d].types

ASSUME CodecAssumption ==
  /\ Symbols \cup {"", "ok", "error", "tag", "values"} \subseteq Words
  /\ MaxNesting \in Nat /\ Types \subseteq TypesTo(MaxNesting)
  /\ Values \subseteq Datums(MaxNesting) /\ \A v \in Values : v.k \in JsKinds

At(obj, name) == LET I == {i \in DOMAIN obj.keys : obj.keys[i] = Word("string", name)}
                 IN  IF I = {} THEN Plain("undefined") ELSE obj.items[CHOOSE i \in I : TRUE]

Has(obj, name) == \E i \in DOMAIN obj.keys : obj.keys[i] = Word("string", name)

KnownKeys(obj, names) ==
  \A i \in DOMAIN obj.keys : \E j \in DOMAIN names : obj.keys[i] = Word("string", names[j])

AnyInvalid(s) == \E i \in DOMAIN s : s[i] = Invalid

ListOrInvalid(items) == IF AnyInvalid(items) THEN Invalid ELSE List("scvVec", items)

-----------------------------------------------------------------------------
(* Encoding. An operator is given what encodes the parts, E.               *)

\* parseInteger: no coercion, and the range is checked.
ParseInteger(v) ==
  LET n == IF v.k = "string" THEN Numerals[v.w] ELSE v.n IN
  IF v.k \in {"number", "bigint"} \/ (v.k = "string" /\ v.w \in DOMAIN Numerals)
  THEN IF n \in 0 .. MaxInteger THEN Number("scvInt", n) ELSE Invalid
  ELSE Invalid

\* compareScMapKeys: by type, then as numbers or bytewise.
Rank(x) == IF x.k = "scvInt" THEN x.n ELSE MaxInteger + Place(x.w)

KeyBefore(x, y) == Rank(x) < Rank(y)

\* The entries may be numbered by any numbers.
EntriesInvalid(key, item) == \E i \in DOMAIN key : \/ key[i] = Invalid \/ item[i] = Invalid
                                                  \/ \E j \in DOMAIN key : i # j /\ key[i] = key[j]

\* Faulty: the entries are left in the order they were given.
UnsortedMap(key, item) ==
  LET at(n) == Nth(DOMAIN key, n)
  IN  IF EntriesInvalid(key, item) THEN Invalid
      ELSE Table("scvMap", [n \in 1 .. Cardinality(DOMAIN key) |-> key[at(n)]],
                           [n \in 1 .. Cardinality(DOMAIN key) |-> item[at(n)]])

\* sortedScvMap: a key that is there twice is an error.
SortedMap(key, item) ==
  LET at(n) == CHOOSE i \in DOMAIN key : Rank(key[i]) = Nth({Rank(key[j]) : j \in DOMAIN key}, n)
  IN  IF EntriesInvalid(key, item) THEN Invalid
      ELSE Table("scvMap", [n \in 1 .. Cardinality(DOMAIN key) |-> key[at(n)]],
                           [n \in 1 .. Cardinality(DOMAIN key) |-> item[at(n)]])

\* An argument or a field may be left out if its type is an Option.
Missing(obj, t) == \E i \in DOMAIN t.names :
                     At(obj, t.names[i]).k = "undefined" /\ t.t[i].k # "option"

EncodeAll(E, items, types) == [i \in DOMAIN items |-> E[types[i]][items[i]]]

EncodeEnum(v, t) ==
  LET I == {i \in DOMAIN t.names : v \in {Word("string", t.names[i]), Number("number", i)}}
  IN  IF I = {} THEN Invalid ELSE Number("scvInt", CHOOSE i \in I : TRUE)

EncodeUnion(E, v, t) ==
  LET I == {i \in DOMAIN t.names : At(v, "tag") = Word("string", t.names[i])}
      i == CHOOSE j \in I : TRUE
      of == At(v, "values")
  IN IF v.k # "object" \/ I = {} THEN Invalid
     ELSE IF t.t[i].t = <<>> THEN List("scvVec", <<Word("scvSymbol", t.names[i])>>)
     ELSE IF of.k # "array" \/ Len(of.items) # Len(t.t[i].t) THEN Invalid
     ELSE ListOrInvalid(<<Word("scvSymbol", t.names[i])>> \o EncodeAll(E, of.items, t.t[i].t))

\* Fields that are left out have no entry in the map.
EncodeStruct(E, v, t) ==
  LET given == {i \in DOMAIN t.names : At(v, t.names[i]).k # "undefined"}
  IN IF v.k # "object" \/ ~KnownKeys(v, t.names) \/ Missing(v, t) THEN Invalid
     ELSE SortedMap([i \in given |-> Word("scvSymbol", t.names[i])],
                    [i \in given |-> E[t.t[i]][At(v, t.names[i])]])

\* An error is given by the name of its case or by its code, any code.
EncodeResult(E, v, t) ==
  LET err == At(v, "error")
      I == {i \in DOMAIN t.names : err = Word("string", t.names[i])}
  IN IF v.k # "object" THEN Invalid
     ELSE IF Has(v, "error")
     THEN IF I # {} THEN Number("scvError", CHOOSE i \in I : TRUE)
          ELSE IF err.k = "number" THEN Number("scvError", err.n) ELSE Invalid
     ELSE IF Has(v, "ok") THEN E[t.t[1]][At(v, "ok")] ELSE Invalid

\* encodeArgs: positional or named arguments. An Option that is left out is a void.
EncodeArgs(E, v, t) ==
  IF v.k = "array" THEN IF Len(v.items) # Len(t.t) THEN Invalid ELSE ListOrInvalid(EncodeAll(E, v.items, t.t))
  ELSE IF v.k # "object" \/ ~KnownKeys(v, t.names) \/ Missing(v, t) THEN Invalid
  ELSE ListOrInvalid([i \in DOMAIN t.names |-> E[t.t[i]][At(v, t.names[i])]])

\* encodeValue, and encodeArgs for args. A void accepts any value.
EncodeBy(E, v, t) ==
  IF v.k = "undefined" /\ t.k \notin {"option", "void"} THEN Invalid ELSE
  CASE t.k = "void"   -> Plain("scvVoid")
    [] t.k = "int"    -> ParseInteger(v)
    [] t.k = "symbol" -> IF v.k = "string" /\ \E i \in DOMAIN WordOrder : v.w = WordOrder[i]
                         THEN Word("scvSymbol", v.w) ELSE Invalid
    [] t.k = "option" -> IF v.k \in {"null", "undefined"} THEN Plain("scvVoid") ELSE E[t.t[1]][v]
    [] t.k = "vec"    -> IF v.k # "array" THEN Invalid
                         ELSE ListOrInvalid([i \in DOMAIN v.items |-> E[t.t[1]][v.items[i]]])
    [] t.k = "tuple"  -> IF v.k # "array" \/ Len(v.items) # Len(t.t) THEN Invalid
                         ELSE ListOrInvalid(EncodeAll(E, v.items, t.t))
    [] t.k = "map"    -> IF v.k \notin {"object", "map"} THEN Invalid
                         ELSE SortedMap([i \in DOMAIN v.keys |-> E[t.t[1]][v.keys[i]]],
                                        [i \in DOMAIN v.items |-> E[t.t[2]][v.items[i]]])
    [] t.k = "result" -> EncodeResult(E, v, t)
    [] t.k = "args"   -> EncodeArgs(E, v, t)
    [] t.k = "enum"   -> EncodeEnum(v, t)
    [] t.k = "union"  -> EncodeUnion(E, v, t)
    [] t.k = "struct" -> EncodeStruct(E, v, t)

-----------------------------------------------------------------------------
(* Decoding. D is what decodes the parts.                                  *)

\* scValToNativeTyped, the leaves.
DecodeLeaf(x, t) ==
  CASE t.k = "void"   -> IF x.k = "scvVoid" THEN Plain("null") ELSE Invalid
    [] t.k = "int"    -> IF x.k = "scvInt" THEN Number("number", x.n) ELSE Invalid
    [] t.k = "symbol" -> IF x.k = "scvSymbol" THEN Word("string", x.w) ELSE Invalid

ArrayOrInvalid(items) == IF AnyInvalid(items) THEN Invalid ELSE List("array", items)

TableOrInvalid(k, keys, items) ==
  IF AnyInvalid(keys) \/ AnyInvalid(items) THEN Invalid ELSE Table(k, keys, items)

\* The generic types.
DecodeGeneric(D, x, t) ==
  CASE t.k = "option" -> IF x.k = "scvVoid" THEN Plain("null") ELSE D[t.t[1]][x]
    [] t.k = "vec"    -> IF x.k # "scvVec" THEN Invalid
                         ELSE ArrayOrInvalid([i \in DOMAIN x.items |-> D[t.t[1]][x.items[i]]])
    [] t.k = "tuple"  -> IF x.k # "scvVec" \/ Len(x.items) # Len(t.t) THEN Invalid
                         ELSE ArrayOrInvalid([i \in DOMAIN x.items |-> D[t.t[i]][x.items[i]]])
    [] t.k = "map"    -> IF x.k # "scvMap" THEN Invalid
                         ELSE TableOrInvalid("map", [i \in DOMAIN x.keys |-> D[t.t[1]][x.keys[i]]],
                                             [i \in DOMAIN x.items |-> D[t.t[2]][x.items[i]]])
    [] t.k = "result" -> IF x.k = "scvError"
                         THEN Table("object", <<Word("string", "error")>>,
                                    <<IF x.n \in DOMAIN t.names THEN Word("string", t.names[x.n])
                                      ELSE Number("number", x.n)>>)
                         ELSE TableOrInvalid("object", <<Word("string", "ok")>>, <<D[t.t[1]][x]>>)

DecodeUnion(D, x, t) ==
  LET I == {i \in DOMAIN t.names : x.items[1].w = t.names[i]}
      i == CHOOSE j \in I : TRUE
      tag == Word("string", x.items[1].w)
      values == [j \in DOMAIN t.t[i].t |-> D[t.t[i].t[j]][x.items[j + 1]]]
  IN IF x.k # "scvVec" \/ x.items = <<>> \/ I = {} THEN Invalid
     ELSE IF t.t[i].t = <<>> THEN Table("object", <<Word("string", "tag")>>, <<tag>>)
     ELSE IF AnyInvalid(values) THEN Invalid
     ELSE Table("object", <<Word("string", "tag"), Word("string", "values")>>,
                <<tag, List("array", values)>>)

DecodeStruct(D, x, t) ==
  LET field(w) == CHOOSE i \in DOMAIN t.names : t.names[i] = w
  IN IF x.k # "scvMap" THEN Invalid
     ELSE TableOrInvalid("object", [i \in DOMAIN x.keys |-> Word("string", x.keys[i].w)],
                         [i \in DOMAIN x.items |-> D[t.t[field(x.keys[i].w)]][x.items[i]]])

\* scValToNativeTyped, by the kind of the type.
DecodeBy(D, x, t) ==
  CASE t.k \in {"void", "int", "symbol"} -> DecodeLeaf(x, t)
    [] t.k \in {"option", "vec", "tuple", "map", "result"} -> DecodeGeneric(D, x, t)
    [] t.k = "enum"   -> IF x.k = "scvInt" THEN Number("number", x.n) ELSE Invalid
    [] t.k = "union"  -> DecodeUnion(D, x, t)
    [] t.k = "struct" -> DecodeStruct(D, x, t)

-----------------------------------------------------------------------------
(* The types in each other.                                                *)

\* What the Soroban host accepts as a value of a type, A as values of its parts. It wants maps
\* in strict key order; that it wants every field of a struct too is not asked here.
AcceptsBy(A, x, t) ==
  LET each(items, types) == /\ Len(items) = Len(types)
                            /\ \A i \in DOMAIN items : A[types[i]][items[i]]
      ordered(keys) == \A i, j \in DOMAIN keys : i < j => KeyBefore(keys[i], keys[j])
  IN
  CASE t.k = "void"   -> x.k = "scvVoid"
    [] t.k = "int"    -> x.k = "scvInt" /\ x.n \in 0 .. MaxInteger
    [] t.k = "symbol" -> x.k = "scvSymbol" /\ x.w \in Symbols
    [] t.k = "option" -> x.k = "scvVoid" \/ A[t.t[1]][x]
    [] t.k = "vec"    -> x.k = "scvVec" /\ \A i \in DOMAIN x.items : A[t.t[1]][x.items[i]]
    [] t.k \in {"tuple", "args"} -> x.k = "scvVec" /\ each(x.items, t.t)
    [] t.k = "map"    -> /\ x.k = "scvMap" /\ ordered(x.keys)
                         /\ \A i \in DOMAIN x.keys : A[t.t[1]][x.keys[i]] /\ A[t.t[2]][x.items[i]]
    [] t.k = "result" -> x.k = "scvError" \/ A[t.t[1]][x]
    [] t.k = "enum"   -> x.k = "scvInt" /\ x.n \in DOMAIN t.names
    [] t.k = "union"  -> /\ x.k = "scvVec" /\ x.items # <<>>
                         /\ \E i \in DOMAIN t.names : /\ x.items[1] = Word("scvSymbol", t.names[i])
                                                      /\ each(Tail(x.items), t.t[i].t)
    [] t.k = "struct" -> /\ x.k = "scvMap" /\ ordered(x.keys)
                         /\ \A i \in DOMAIN x.keys : \E j \in DOMAIN t.names :
                              x.keys[i] = Word("scvSymbol", t.names[j]) /\ A[t.t[j]][x.items[i]]
                         /\ \A j \in DOMAIN t.names : t.t[j].k # "option" =>
                              \E i \in DOMAIN x.keys : x.keys[i] = Word("scvSymbol", t.names[j])

\* The codec of the types up to d deep, by that of the types they are made of.
CodecOf(parts, d) ==
  [encode  |-> [t \in TypesTo(d) |-> [v \in Datums(MaxNesting) |-> EncodeBy(parts.encode, v, t)]],
   decode  |-> [t \in TypesTo(d) |-> [x \in Datums(MaxNesting) |-> DecodeBy(parts.decode, x, t)]],
   accepts |-> [t \in TypesTo(d) |-> [x \in Datums(MaxNesting) |-> AcceptsBy(parts.accepts, x, t)]]]

Codec[d \in Nat] == IF d = 0 THEN <<>> ELSE CodecOf(Codec[d - 1], d)

Encode(v, t)  == Codec[MaxNesting].encode[t][v]  \* valToScVal
Decode(x, t)  == Codec[MaxNesting].decode[t][x]  \* scValToNativeTyped
Accepts(x, t) == Codec[MaxNesting].accepts[t][x]

-----------------------------------------------------------------------------
CodecTypeOK ==
  /\ type \in Types
  /\ value \in Values /\ value.k \in JsKinds
  /\ wire \in {Unset, Invalid} \/ wire.k \in ScKinds
  /\ back \in {Unset, Invalid} \/ back.k \in JsKinds

CodecInit == type \in Types /\ value \in Values /\ wire = Unset /\ back = Unset

EncodeStep == /\ wire = Unset /\ wire' = Encode(value, type)
              /\ UNCHANGED <<type, value, back>>

\* The contract returns the value.
DecodeStep == /\ wire \notin {Unset, Invalid} /\ back = Unset /\ type.k # "args"
              /\ back' = Decode(wire, type) /\ UNCHANGED <<type, value, wire>>

CodecNext == EncodeStep \/ DecodeStep

CodecSpec == CodecInit /\ [][CodecNext]_codecVars

-----------------------------------------------------------------------------
\* A struct one of whose optional fields the application left out, instead of giving null.
OmitsField == \E i \in DOMAIN type.names : At(value, type.names[i]).k = "undefined"

\* A value that is not rejected is encoded as a value of the type, a struct with all its fields
\* when all are given. It can be decoded, and what it is decoded to is encoded in the same way.
CodecHolds ==
  /\ CodecTypeOK
  /\ wire \notin {Unset, Invalid} =>
       /\ Accepts(wire, type)
       /\ type.k = "struct" /\ ~OmitsField => Len(wire.keys) = Len(type.names)
  /\ back # Unset => back # Invalid /\ Encode(back, type) = wire

=============================================================================
