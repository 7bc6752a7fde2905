------------------------------- MODULE AbiFlat -------------------------------
(* Values as core WebAssembly values (internal/abi/flat.go, coreval.go, plan.go).

   A core value is a kind and its little endian bytes.  Lowering threads the store
   of AbiMemory through the strings, lists and spilled values it writes and
   returns [st, ws]; lifting returns the value and how many core values it
   consumed, [v, n].                                                           *)
EXTENDS AbiMemory

Core(kind, b) == [kind |-> kind, b |-> b]
I32(b)        == Core("i32", b)
KindSize(kind) == IF kind \in {"i32", "f32"} THEN 4 ELSE 8
ZeroCore(kind) == Core(kind, Zeros(KindSize(kind)))

\* Reading a core value as a kind it does not have panics.
As(w, kind, v) == IF w.kind = kind THEN v ELSE Panicked

-------------------------------------------------------------------------------
(* Coercion between a case's own core types and the joined ones *)

CoerceValue(w, have, want) ==
  CASE have = want                                        -> w
    [] have = "f32" /\ want = "i32"                       -> Core("i32", w.b)
    [] have \in {"i32", "f32"} /\ want = "i64"            -> Core("i64", w.b \o Zeros(4))
    [] have = "f64" /\ want = "i64"                       -> Core("i64", w.b)
    [] OTHER                                              -> w

\* mutant: the iterator hands the two kinds over in the lowering's order.
DeCoerceBackwards(w, have, want) ==
  CASE have = "f32" /\ want = "i32"            -> Core("f32", w.b)
    [] have \in {"i32", "f32"} /\ want = "i64" -> Core(have, SubSeq(w.b, 1, 4))
    [] OTHER                                   -> w

DeCoerceValue(w, have, want) ==
  CASE have = want                                        -> w
    [] have = "i32" /\ want = "f32"                       -> Core("f32", w.b)
    [] have = "i64" /\ want \in {"i32", "f32"}            -> Core(want, SubSeq(w.b, 1, 4))
    [] have = "i64" /\ want = "f64"                       -> Core("f64", w.b)
    [] OTHER                                              -> w

-------------------------------------------------------------------------------
(* Lower *)

Lowered(st, ws)   == [st |-> st, ws |-> ws]
CannotLower(st, why) == Lowered(Refuse(st, why), <<>>)

LowerPrimitiveCore(st, v, p) ==
  IF v.g # GoType(p) THEN CannotLower(st, "type")
  ELSE IF p = "char" /\ ~ValidChar(v.b) THEN CannotLower(st, "value")
  ELSE Lowered(st, <<Core(FlattenPrimitive(p)[1],
                          IF p = "bool" THEN v.b \o Zeros(3) ELSE v.b)>>)

\* The address and the length of what was allocated.
Placed(a, length) == Lowered(a.st, <<I32(Word(a.p)), I32(Word(length))>>)

LowerFlatString(st, v) ==
  IF v.g # "string" THEN CannotLower(st, "type")
  ELSE Placed(AllocStoreBytes(st, v.b), Len(v.b))

LowerFlatPrimitive(st, v, p) ==
  IF p = "string" THEN LowerFlatString(st, v) ELSE LowerPrimitiveCore(st, v, p)

LowerFlatList(st, v, elem) == Placed(AllocStoreAnyList(st, v, elem), ListLength(v))

LowerHandle(st, v) == IF v.g = "u32" THEN Lowered(st, <<I32(v.b)>>) ELSE CannotLower(st, "type")

RECURSIVE LowerFlatImpl(_, _, _)

LowerFlatRecord(st, v, t) ==
  LET Field(acc, i) == LET f == LowerFlatImpl(acc.st, v.c[i], Parts(t)[i])
                       IN  Lowered(f.st, acc.ws \o f.ws)
  IN  IF v.g # "list" \/ Len(v.c) # Len(Parts(t)) THEN CannotLower(st, "type")
      ELSE FoldLeft(Field, Lowered(st, <<>>), [i \in DOMAIN Parts(t) |-> i])

LowerFlatTuple(st, v, t) ==
  LET Elem(acc, i) == LET e == LowerFlatImpl(acc.st, v.c[i], Parts(t)[i])
                      IN  Lowered(e.st, acc.ws \o e.ws)
  IN  IF v.g # "list" \/ Len(v.c) # Len(Parts(t)) THEN CannotLower(st, "type")
      ELSE FoldLeft(Elem, Lowered(st, <<>>), [i \in DOMAIN Parts(t) |-> i])

\* The payload words of the active case in the joined types, padded with zeros.
Fill(ws, have, want) ==
  [i \in DOMAIN want |-> IF i <= Len(ws) THEN CoerceValue(ws[i], have[i], want[i])
                         ELSE ZeroCore(want[i])]

LowerFlatVariant(st, v, t) ==
  LET u      == Parts(t)[v.d + 1]
      joined == Tail(Flatten(t))
      p      == IF u = NoType THEN Lowered(st, <<>>) ELSE LowerFlatImpl(st, v.c[1], u)
      have   == IF u = NoType THEN <<>> ELSE Flatten(u)
  IN  IF v.g # "variant" THEN CannotLower(st, "type")
      ELSE IF v.d >= Len(Parts(t)) THEN CannotLower(st, "value")
      ELSE Lowered(p.st, <<I32(Word(v.d))>> \o Fill(p.ws, have, joined))

LowerFlatResult(st, v, t) ==
  LET u      == Parts(t)[v.d + 1]
      joined == Tail(Flatten(t))
      p      == IF u = NoType THEN Lowered(st, <<>>) ELSE LowerFlatImpl(st, v.c[1], u)
      have   == IF u = NoType THEN <<>> ELSE Flatten(u)
  IN  IF v.g # "result" THEN CannotLower(st, "type")
      ELSE Lowered(p.st, <<I32(Word(v.d))>> \o Fill(p.ws, have, joined))

LowerFlatOption(st, v, elem) ==
  LET kinds == Flatten(elem)
      some  == LowerFlatImpl(st, v, elem)
  IN  IF v = Nil THEN Lowered(st, <<I32(Word(0))>> \o [i \in DOMAIN kinds |-> ZeroCore(kinds[i])])
      ELSE Lowered(some.st, <<I32(Word(1))>> \o some.ws)

LowerFlatFlags(st, v) == LowerHandle(st, v)

LowerFlatEnum(st, v, t) ==
  IF v.g # "u32" THEN CannotLower(st, "type")
  ELSE IF Number(v.b) >= Count(t) THEN CannotLower(st, "value")
  ELSE Lowered(st, <<I32(v.b)>>)

LowerFlatImpl(st, v, t) ==
  IF st.err # "" THEN Lowered(st, <<>>)
  ELSE CASE Kind(t) = "prim"    -> LowerFlatPrimitive(st, v, t)
         [] Kind(t) = "list"    -> LowerFlatList(st, v, Parts(t)[1])
         [] Kind(t) = "record"  -> LowerFlatRecord(st, v, t)
         [] Kind(t) = "tuple"   -> LowerFlatTuple(st, v, t)
         [] Kind(t) = "variant" -> LowerFlatVariant(st, v, t)
         [] Kind(t) = "option"  -> LowerFlatOption(st, v, Parts(t)[1])
         [] Kind(t) = "result"  -> LowerFlatResult(st, v, t)
         [] Kind(t) = "flags"   -> LowerFlatFlags(st, v)
         [] Kind(t) = "enum"    -> LowerFlatEnum(st, v, t)
         [] Kind(t) = "handle"  -> LowerHandle(st, v)

\* A value that flattens too wide goes to memory, and its address is passed.
SpillValue(st, v, t) ==
  LET a == Grow(st, Alignment(t), Size(t))
  IN  IF ~HasLayout(t) THEN CannotLower(st, "layout")
      ELSE Lowered(IF a.st.err # "" THEN a.st ELSE Store(a.st, a.p, t, v), <<I32(Word(a.p))>>)

LowerFlat(st, v, t) ==
  IF Kind(t) = "prim" /\ t # "string" THEN LowerPrimitiveCore(st, v, t)
  ELSE IF ParamsSpill(t) THEN SpillValue(st, v, t) ELSE LowerFlatImpl(st, v, t)

\* The plan compiled for one parameter, which must lower as LowerFlat does.
LowerStep(st, v, t) ==
  CASE Kind(t) = "prim"   -> LowerFlatPrimitive(st, v, t)
    [] Kind(t) = "handle" -> LowerHandle(st, v)
    [] OTHER              -> IF ParamsSpill(t) THEN SpillValue(st, v, t) ELSE LowerFlatImpl(st, v, t)

-------------------------------------------------------------------------------
(* Lift *)

Lifted(v, n) == [v |-> v, n |-> n]
CannotLift   == Lifted(Refused, 0)

Extend(b, n, signed) ==
  SubSeq(b, 1, n) \o (IF signed /\ b[n] >= 128 THEN Signs(4 - n) ELSE Zeros(4 - n))

LiftScalarPrimitive(w, p) ==
  LET bool == Value("bool", IF w.b = Zeros(4) THEN <<0>> ELSE <<1>>, <<>>, 0)
      narrow == Value(GoType(p), Extend(w.b, PrimSize(p), p \in {"s8", "s16"}), <<>>, 0)
      char == IF ValidChar(w.b) THEN Value("rune", w.b, <<>>, 0) ELSE Refused
      same == Value(GoType(p), w.b, <<>>, 0)
  IN  CASE p = "bool"                       -> As(w, "i32", bool)
        [] p \in {"u8", "s8", "u16", "s16"} -> As(w, "i32", narrow)
        [] p = "char"                       -> As(w, "i32", char)
        [] OTHER                            -> As(w, FlattenPrimitive(p)[1], same)

LiftI32(w) == As(w, "i32", U32(w.b))

\* A discriminant, an address or a length: no number of the model reaches 65536,
\* so a core value of another kind is out of every range.
AsNumber(w) == IF w.kind = "i32" THEN Number(w.b) ELSE 65536

LiftFlatString(m, ws) ==
  IF Len(ws) < 2 THEN CannotLift
  ELSE Lifted(LoadStringFromRange(m, AsNumber(ws[1]), AsNumber(ws[2])), 2)

LiftFlatList(m, ws, elem) ==
  IF Len(ws) < 2 THEN CannotLift
  ELSE Lifted(LoadListFromRange(m, AsNumber(ws[1]), AsNumber(ws[2]), elem), 2)

LiftFlatPrimitive(m, ws, p) ==
  IF p = "string" THEN LiftFlatString(m, ws)
  ELSE IF ws = <<>> THEN CannotLift ELSE Lifted(LiftScalarPrimitive(ws[1], p), 1)

From(ws, n) == SubSeq(ws, n + 1, Len(ws))

RECURSIVE LiftFlatImpl(_, _, _)

LiftFlatRecord(m, ws, t) ==
  LET Field(acc, u) == LET f == LiftFlatImpl(m, From(ws, acc.n), u)
                       IN  [vs |-> Append(acc.vs, f.v), n |-> acc.n + f.n]
      all == FoldLeft(Field, [vs |-> <<>>, n |-> 0], Parts(t))
  IN  Lifted(AllOr(all.vs, ListOf(all.vs)), all.n)

LiftFlatTuple(m, ws, t) ==
  LET Elem(acc, u) == LET e == LiftFlatImpl(m, From(ws, acc.n), u)
                      IN  [vs |-> Append(acc.vs, e.v), n |-> acc.n + e.n]
      all == FoldLeft(Elem, [vs |-> <<>>, n |-> 0], Parts(t))
  IN  Lifted(AllOr(all.vs, ListOf(all.vs)), all.n)

\* coercingValueIter: the words of the active case seen in the case's own types.
Coercing(ws, joined, own) ==
  [i \in 1..Min({Len(own), Len(joined), Len(ws)}) |-> DeCoerceValue(ws[i], joined[i], own[i])]

LiftArm(m, ws, joined, u) ==
  IF u = NoType THEN Lifted(Nil, 0)
  ELSE LiftFlatImpl(m, Coercing(ws, joined, Flatten(u)), u)

LiftFlatVariant(m, ws, t) ==
  LET case   == AsNumber(ws[1]) + 1
      joined == Tail(Flatten(t))
      p      == LiftArm(m, Tail(ws), joined, Parts(t)[case])
  IN  IF ws = <<>> \/ case > Len(Parts(t)) THEN CannotLift
      ELSE IF Bad(p.v) \/ Len(ws) < 1 + Len(joined) THEN CannotLift
      ELSE Lifted(CaseOf(case - 1, p.v), 1 + p.n + (Len(joined) - p.n))

LiftFlatResult(m, ws, t) ==
  LET arm    == AsNumber(ws[1])
      joined == Tail(Flatten(t))
      p      == LiftArm(m, Tail(ws), joined, Parts(t)[arm + 1])
  IN  IF ws = <<>> \/ arm > 1 THEN CannotLift
      ELSE IF Bad(p.v) \/ Len(ws) < 1 + Len(joined) THEN CannotLift
      ELSE Lifted(ArmOf(arm, p.v), 1 + p.n + (Len(joined) - p.n))

LiftFlatOption(m, ws, elem) ==
  LET disc  == AsNumber(ws[1])
      width == Len(Flatten(elem))
      some  == LiftFlatImpl(m, Tail(ws), elem)
  IN  IF ws = <<>> \/ disc > 1 THEN CannotLift
      ELSE IF disc = 1 THEN Lifted(some.v, 1 + some.n)
      ELSE IF Len(ws) < 1 + width THEN CannotLift ELSE Lifted(Nil, 1 + width)

LiftFlatFlags(ws) == IF ws = <<>> THEN CannotLift ELSE Lifted(LiftI32(ws[1]), 1)

LiftFlatEnum(ws, t) ==
  LET v == LiftI32(ws[1])
  IN  IF ws = <<>> \/ Number(v.b) >= Count(t) THEN CannotLift ELSE Lifted(v, 1)

LiftFlatImpl(m, ws, t) ==
  CASE Kind(t) = "prim"    -> LiftFlatPrimitive(m, ws, t)
    [] Kind(t) = "list"    -> LiftFlatList(m, ws, Parts(t)[1])
    [] Kind(t) = "record"  -> LiftFlatRecord(m, ws, t)
    [] Kind(t) = "tuple"   -> LiftFlatTuple(m, ws, t)
    [] Kind(t) = "variant" -> LiftFlatVariant(m, ws, t)
    [] Kind(t) = "option"  -> LiftFlatOption(m, ws, Parts(t)[1])
    [] Kind(t) = "result"  -> LiftFlatResult(m, ws, t)
    [] Kind(t) = "flags"   -> LiftFlatFlags(ws)
    [] Kind(t) = "enum"    -> LiftFlatEnum(ws, t)
    [] Kind(t) = "handle"  -> LiftFlatFlags(ws)

LiftFlat(m, ws, t) ==
  IF ~ParamsSpill(t) THEN LiftFlatImpl(m, ws, t).v
  ELSE IF Len(ws) # 1 THEN Refused ELSE Load(m, AsNumber(ws[1]), t)

\* The plan compiled for a result.
LiftStep(m, ws, t) ==
  CASE Kind(t) = "prim" /\ t # "string" -> LiftScalarPrimitive(ws[1], t)
    [] Kind(t) = "handle"               -> LiftI32(ws[1])
    [] OTHER -> IF ResultSpills(t) THEN Load(m, AsNumber(ws[1]), t)
                                   ELSE LiftFlatImpl(m, ws, t).v
===============================================================================
