----------------------------- MODULE MCToolkit -----------------------------
(* Toolkit with contract types and JavaScript values to check it on. *)
EXTENDS Toolkit

Leaf(k)  == Type(k, <<>>, <<>>)
Of(k, t) == Type(k, <<>>, t)

IntType    == Leaf("int")
SymbolType == Leaf("symbol")
CaseOf(t)  == Of("tuple", t)
PairType   == Type("struct", <<"b", "a">>, <<Of("option", <<IntType>>), IntType>>)

SampleWords == Symbols \cup {"", "ok", "error", "tag", "values"}

SampleTypes ==
  {IntType, SymbolType, Leaf("void")}
    \cup {Of("option", <<t>>) : t \in {IntType, SymbolType, Leaf("void")}}
    \cup {Of("vec", <<t>>) : t \in {IntType, Of("option", <<SymbolType>>)}}
    \cup {Of("map", <<t, IntType>>) : t \in {IntType, SymbolType}}
    \cup {Of("tuple", <<IntType, Of("option", <<IntType>>)>>), Type("enum", <<"a", "b">>, <<>>),
          Type("result", <<"a", "b">>, <<IntType>>),
          Type("union", <<"a", "b">>, <<CaseOf(<<>>), CaseOf(<<IntType, SymbolType>>)>>)}
    \cup {Type(k, <<"b", "a">>, <<IntType, Of("option", <<SymbolType>>)>>) : k \in {"struct", "args"}}
    \cup {Of("vec", <<PairType>>)}

Str(w) == Word("string", w)

UpTo2(S) == UNION {[1 .. n -> S] : n \in 0 .. 2}

Different(S) == {s \in UpTo2(S) : \A i, j \in DOMAIN s : s[i] = s[j] => i = j}

Items  == {Plain("undefined"), Plain("null"), Number("number", 1), Number("number", 3), Str("a")}
Prims  == Items \cup {Number("bigint", 2), Str("01")}
Arrays == {List("array", s) : s \in UpTo2(Items)}

Objects == {o \in {Table("object", s, v) : s \in Different({Str("a"), Str("b"), Str("1"), Str("01")}),
                                           v \in UpTo2(Items)} : Len(o.keys) = Len(o.items)}

Maps == {Table("map", s, v) : s \in Different({Str("a"), Str("b"), Str("01"), Number("number", 1),
                                               Number("number", 2)}),
                              v \in UpTo2({Str("1"), Str("a"), Number("number", 1)})}

Results == {Table("object", <<Str(w)>>, <<v>>) : w \in {"ok", "error", "tag"}, v \in Prims \cup {Str("b")}}
             \cup {Table("object", <<Str("error"), Str("ok")>>, <<v, Str("1")>>) : v \in Prims}

Unions == {Table("object", <<Str("tag"), Str("values")>>, <<Str(w), v>>) : w \in {"a", "b", "c"}, v \in Arrays}

Pairs == {List("array", <<v>>) : v \in {o \in Objects : KnownKeys(o, PairType.names)}}

Candidates == Prims \cup Arrays \cup Objects \cup Maps \cup Results \cup Unions \cup Pairs

SampleValues == {v \in Candidates : v.k \in {"object", "map"} => Len(v.keys) = Len(v.items)}

Raw(topics, v) == [topics |-> topics, value |-> v, ours |-> TRUE]

Topics == {<<>>, <<"x">>, <<"x", "y">>, <<"x", "">>, <<"x", "y", "x">>, <<"x", "x", "y">>,
           <<"x", "y", "">>, <<"", "y", "x">>}

SampleEvents ==
  {Raw(<<t>> \o rest, v) : t \in {"escrow_created", "escrow_released", "dispute_raised",
                                  "dispute_resolved", "escrow_funded", "upgraded"},
                          rest \in Topics, v \in {"number", "text"}}
    \cup {[Raw(<<"escrow_created", "x", "y", "x">>, "number") EXCEPT !.ours = FALSE]}

LayerOf(m, s, c, p, h) == [marked |-> m, status |-> s, code |-> c, message |-> p, retryAfter |-> h]

Layers == {LayerOf(m, s, c, p, h) : m \in {"no", "transient", "final"}, s \in {0, 403, 408, 503},
                                  c \in {"none", "transport", "deterministic", "passing", "other"},
                                  p \in {"plain", "passing"}, h \in {Absent, Unreadable, 3, 9}}

Causes == {e \in Layers : e.message = "plain" /\ e.retryAfter \in {Absent, 3} /\ e.code \in {"none", "deterministic"}}

SampleFailures ==
  {<<e>> : e \in {e \in Layers : e.retryAfter # Absent => e.marked = "no" /\ e.code = "none"}}
    \cup {<<e, f>> : e \in {e \in Layers : e.marked = "no" /\ e.status \in {0, 503} /\ e.message = "plain"
                                            /\ e.retryAfter \in {Absent, Unreadable} /\ e.code \in {"none", "other"}},
                     f \in Causes}
    \cup {[i \in 1 .. Depth + 1 |-> IF i = 1 THEN e ELSE IF i <= Depth THEN Wrapper ELSE f] :
            e \in {LayerOf("no", 0, c, "plain", Absent) : c \in {"none", "other"}}, f \in Causes}

RetryPolicyOf(retries, jitter, judged) == [retries |-> retries, jitter |-> jitter, judged |-> judged]

SamplePolicies == {RetryPolicyOf(-1, 50, TRUE), RetryPolicyOf(1, 100, TRUE), RetryPolicyOf(1, 0, FALSE)}

\* Nothing is dropped, or one event or a whole page of them after the first.
SamplePlaces == {[e \in Position |-> IF e < 2 THEN e ELSE e + dropped] : dropped \in 0 .. 2}

-----------------------------------------------------------------------------
\* TLC evaluates a definition once, but what replaces a constant at each use.
MCWords       == SampleWords
MCTypes       == SampleTypes
MCValues      == SampleValues
MCRawEvents   == SampleEvents
MCFailures    == SampleFailures
MCRetryPolicy == SamplePolicies
MCPlaces      == SamplePlaces

=============================================================================
