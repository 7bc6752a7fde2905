-------------------------------- MODULE MCAbi --------------------------------
(* Types chosen so that every kind, join, padding, nesting and both spills occur;
   for each parameter list, every combination of a few values of its types.     *)
EXTENDS AbiCall

D(k, ts, n) == [k |-> k, ts |-> ts, n |-> n]
Composites ==
  "pair"   :> D("record", <<"u8", "s16">>, 0) @@
  "wide"   :> D("record", <<"u8", "s64", "pair">>, 0) @@
  "small"  :> D("variant", <<"f32", "u16", "-">>, 0) @@
  "big"    :> D("variant", <<"f32", "s64", "string">>, 0) @@
  "nest"   :> D("variant", <<"small", "f64", "oshort">>, 0) @@
  "oshort" :> D("option", <<"s16">>, 0) @@
  "opair"  :> D("option", <<"pair">>, 0) @@
  "deep"   :> D("result", <<"pair", "big">>, 0) @@
  "unit"   :> D("result", <<"-", "char">>, 0) @@
  "tint"   :> D("enum", <<>>, 3) @@
  "perms"  :> D("flags", <<>>, 9) @@
  "own"    :> D("handle", <<>>, 0) @@
  "bytes"  :> D("list", <<"u8">>, 0) @@
  "signed" :> D("list", <<"s8">>, 0) @@
  "texts"  :> D("list", <<"string">>, 0) @@
  "rows"   :> D("list", <<"opair">>, 0)
\* A parameter list is a tuple type: of one type t, named "(t", or of several.
One(t) == ("(" \o t) :> D("tuple", <<t>>, 0)
Tuples ==
  One("bool") @@ One("u8") @@ One("s8") @@ One("u16") @@ One("s16") @@ One("u32") @@
  One("s64") @@ One("f32") @@ One("f64") @@ One("char") @@ One("string") @@ One("pair") @@
  One("wide") @@ One("small") @@ One("big") @@ One("nest") @@ One("oshort") @@ One("opair") @@
  One("deep") @@ One("unit") @@ One("tint") @@ One("perms") @@ One("own") @@ One("bytes") @@
  One("signed") @@ One("texts") @@ One("rows") @@
  ("(u8,string" :> D("tuple", <<"u8", "string">>, 0)) @@
  ("(string,bytes" :> D("tuple", <<"string", "bytes">>, 0)) @@
  ("(big,u8" :> D("tuple", <<"big", "u8">>, 0)) @@
  ("(deep,tint" :> D("tuple", <<"deep", "tint">>, 0)) @@
  ("(wide,bool" :> D("tuple", <<"wide", "bool">>, 0)) @@
  ("(signed,perms" :> D("tuple", <<"signed", "perms", "own", "f32">>, 0)) @@
  ("(s8,wide" :> D("tuple", <<"s8", "wide">>, 0))
Prim(p) == p :> D("prim", <<>>, 0)
MCTypes ==
  Prim("bool") @@ Prim("u8") @@ Prim("s8") @@ Prim("u16") @@ Prim("s16") @@ Prim("u32") @@
  Prim("s64") @@ Prim("f32") @@ Prim("f64") @@ Prim("char") @@ Prim("string") @@
  Composites @@ Tuples

Scalars(p) ==
  CASE p = "bool"   -> {Value("bool", <<x>>, <<>>, 0) : x \in {0, 1}}
    [] p = "u8"     -> {U32(<<200, 0, 0, 0>>)}
    [] p = "s8"     -> {Value("i32", <<5, 0, 0, 0>>, <<>>, 0), Value("i32", <<251>> \o Signs(3), <<>>, 0)}
    [] p = "u16"    -> {U32(<<1, 255, 0, 0>>)}
    [] p = "s16"    -> {Value("i32", <<7, 1, 0, 0>>, <<>>, 0), Value("i32", <<9, 200>> \o Signs(2), <<>>, 0)}
    [] p = "u32"    -> {U32(<<1, 2, 3, 255>>)}
    [] p = "s64"    -> {Value("s64", <<1, 2, 3, 4, 5, 6, 7, 8>>, <<>>, 0)}
    [] p = "f32"    -> {Value("f32", <<11, 12, 13, 14>>, <<>>, 0)}
    [] p = "f64"    -> {Value("f64", <<21, 22, 23, 24, 25, 26, 27, 28>>, <<>>, 0)}
    [] p = "char"   -> {Value("rune", <<65, 0, 0, 0>>, <<>>, 0), Value("rune", <<0, 224, 16, 0>>, <<>>, 0)}
    [] p = "string" -> {Value("string", b, <<>>, 0) : b \in {<<>>, <<104, 105, 33>>}}

RECURSIVE Vals(_), Rows(_)
\* Every sequence of values of the types of a sequence.
Rows(ts) == IF ts = <<>> THEN {<<>>}
            ELSE {<<v>> \o r : v \in Vals(Head(ts)), r \in Rows(Tail(ts))}
Vals(t) ==
  CASE MCTypes[t].k = "prim" -> Scalars(t)
    [] MCTypes[t].k = "list" ->
         {ListOf(<<>>)} \cup {ListOf(<<v, w>>) : v, w \in Vals(MCTypes[t].ts[1])}
         \cup (IF t = "bytes" THEN {Value("bytes", <<3, 4, 5>>, <<>>, 0)} ELSE {})
    [] MCTypes[t].k = "record"  -> {ListOf(r) : r \in Rows(MCTypes[t].ts)}
    [] MCTypes[t].k = "option"  -> {Nil} \cup Vals(MCTypes[t].ts[1])
    [] MCTypes[t].k \in {"variant", "result"} ->
         UNION {{[g |-> MCTypes[t].k, b |-> <<>>, c |-> <<v>>, d |-> i - 1] :
                   v \in IF MCTypes[t].ts[i] = "-" THEN {Nil} ELSE Vals(MCTypes[t].ts[i])} :
                i \in DOMAIN MCTypes[t].ts}
    [] MCTypes[t].k = "enum"    -> {U32(Word(i)) : i \in 0..(MCTypes[t].n - 1)}
    [] MCTypes[t].k = "flags"   -> {U32(<<5, 1, 0, 0>>)}
    [] MCTypes[t].k = "handle"  -> {U32(<<7, 0, 0, 0>>)}

MCCalls == UNION {{<<p, r>> : r \in Rows(Tuples[p].ts)} : p \in DOMAIN Tuples}
SignedCalls == {c \in MCCalls : c[1] = "(signed"}
TextCalls == {c \in MCCalls : c[1] = "(string,bytes"}
===============================================================================
