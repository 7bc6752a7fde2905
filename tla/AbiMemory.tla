------------------------------ MODULE AbiMemory ------------------------------
(* Values in linear memory (internal/abi/memory.go): Store writes a value through
   the layout of its type and a guest allocator, Load reads one back.

   A value is a record: g is the Go type of the interface value, b the little
   endian bytes of a scalar, of a string or of a handle, c the values inside it
   and d the index of a case.  A refusal of Load is the value Refused; a refusal of
   Store is the field err of the state it returns.

   A store st is the guest's memory m (offset -> byte), the length view of the
   slice the host took before it started, the next free offset brk, the blocks
   the allocator handed out, how the allocator behaves, and err, the reason of
   the first refusal ("" while there is none).                                *)
EXTENDS AbiLayout

CONSTANTS PageSize \* the unit in which the guest's memory grows

Value(g, b, c, d) == [g |-> g, b |-> b, c |-> c, d |-> d]
Nil        == Value("nil", <<>>, <<>>, 0)
Refused    == Value("refused", <<>>, <<>>, 0)
Panicked   == Value("panic", <<>>, <<>>, 0)
Bad(v)     == v.g \in {"refused", "panic"}
ListOf(vs) == Value("list", <<>>, vs, 0)
CaseOf(d, payload)  == Value("variant", <<>>, <<payload>>, d)
ArmOf(isErr, payload) == Value("result", <<>>, <<payload>>, isErr)
U32(b)     == Value("u32", b, <<>>, 0)

\* The Go type that value.go gives each primitive.
GoType(p) ==
  CASE p \in {"u8", "u16", "u32", "error-context"} -> "u32"
    [] p \in {"s8", "s16", "s32"}                  -> "i32"
    [] p = "char"                                  -> "rune"
    [] OTHER                                       -> p

Zeros(n)  == [i \in 1..n |-> 0]
Signs(n)  == [i \in 1..n |-> 255]
\* Small numbers as four bytes and back: every number of the model is below 2^16.
Word(n)   == <<n % 256, n \div 256>> \o Zeros(2)
Number(b) == FoldRight(LAMBDA x, acc : IF acc >= 65536 THEN 65536 ELSE x + 256 * acc, b, 0)

\* A Unicode scalar value: below 0x110000 and no surrogate.
ValidChar(b) == /\ b[4] = 0 /\ b[3] < 17
                /\ ~(b[3] = 0 /\ b[2] \in 216..223)
\* Strings of the model are ASCII, or hold a byte that starts nothing.
ValidUtf8(b) == \A i \in DOMAIN b : b[i] < 128

Bytes(m, ptr, n) == [i \in 1..n |-> m[ptr + i - 1]]
CheckedRange(len, ptr, size) == ptr + size <= len
Len0(m) == Cardinality(DOMAIN m)

-------------------------------------------------------------------------------
(* Load *)

\* An integer read from n bytes, with the Go type the function returns it in.
LoadInt(m, ptr, n, signed) ==
  LET b == Bytes(m, ptr, n) neg == signed /\ b[n] >= 128
  IN  IF ~CheckedRange(Len0(m), ptr, n) THEN Refused
      ELSE CASE n = 1 -> IF neg THEN Value("i32", b \o Signs(3), <<>>, 0) ELSE U32(b \o Zeros(3))
             [] n = 2 -> Value(IF signed THEN "i32" ELSE "u32",
                               b \o (IF neg THEN Signs(2) ELSE Zeros(2)), <<>>, 0)
             [] n = 4 -> Value(IF signed THEN "i32" ELSE "u32", b, <<>>, 0)
             [] n = 8 -> Value(IF signed THEN "s64" ELSE "u64", b, <<>>, 0)

LoadStringFromRange(m, ptr, len) ==
  IF CheckedRange(Len0(m), ptr, len) /\ ValidUtf8(Bytes(m, ptr, len))
  THEN Value("string", Bytes(m, ptr, len), <<>>, 0) ELSE Refused

LoadString(m, ptr) ==
  LET p == LoadInt(m, ptr, 4, FALSE) n == LoadInt(m, ptr + 4, 4, FALSE)
  IN  IF Bad(p) \/ Bad(n) THEN Refused ELSE LoadStringFromRange(m, Number(p.b), Number(n.b))

LoadPrimitive(m, ptr, p) ==
  LET raw == LoadInt(m, ptr, PrimSize(p), p \in {"s8", "s16", "s32", "s64"})
  IN  CASE p = "string" -> LoadString(m, ptr)
        [] p # "string" /\ Bad(raw) -> Refused
        [] p = "bool" /\ ~Bad(raw)  ->
             Value("bool", IF raw.b = Zeros(4) THEN <<0>> ELSE <<1>>, <<>>, 0)
        [] p = "char" /\ ~Bad(raw)  ->
             IF ValidChar(raw.b) THEN [raw EXCEPT !.g = "rune"] ELSE Refused
        [] p \in {"f32", "f64"} /\ ~Bad(raw) -> [raw EXCEPT !.g = p]
        [] OTHER -> raw

RECURSIVE LoadValue(_, _, _)

AllOr(vs, v) == IF \E i \in DOMAIN vs : Bad(vs[i]) THEN Refused ELSE v

\* Where the parts of a record that starts at ptr begin.
FieldOffsets(ptr, ts) ==
  LET Place(acc, u) == LET at == AlignTo(acc.next, Alignment(u))
                       IN  [next |-> at + Size(u), offs |-> Append(acc.offs, at)]
  IN  FoldLeft(Place, [next |-> ptr, offs |-> <<>>], ts).offs

LoadRecord(m, ptr, t) ==
  LET at == FieldOffsets(ptr, Parts(t))
      vs == [i \in DOMAIN Parts(t) |-> LoadValue(m, at[i], Parts(t)[i])]
  IN  AllOr(vs, ListOf(vs))

LoadTuple(m, ptr, t) ==
  LET at == FieldOffsets(ptr, Parts(t))
      vs == [i \in DOMAIN Parts(t) |-> LoadValue(m, at[i], Parts(t)[i])]
  IN  AllOr(vs, ListOf(vs))

LoadListFromRange(m, ptr, length, elem) ==
  LET vs == [i \in 1..length |-> LoadValue(m, ptr + (i - 1) * Size(elem), elem)]
  IN  IF /\ length * Size(elem) <= AddrMax
         /\ CheckedRange(Len0(m), ptr, length * Size(elem))
         /\ ptr % Alignment(elem) = 0
      THEN AllOr(vs, ListOf(vs)) ELSE Refused

LoadList(m, ptr, elem) ==
  LET p == LoadInt(m, ptr, 4, FALSE) n == LoadInt(m, ptr + 4, 4, FALSE)
  IN  IF Bad(p) \/ Bad(n) THEN Refused ELSE LoadListFromRange(m, Number(p.b), Number(n.b), elem)

PayloadOffset(ptr, disc, align) == AlignTo(ptr + disc, align)

LoadPayload(m, ptr, u) == IF u = NoType THEN Nil ELSE LoadValue(m, ptr, u)

LoadVariant(m, ptr, t) ==
  LET disc == LoadInt(m, ptr, DiscSize(Len(Parts(t))), FALSE)
      at   == PayloadOffset(ptr, DiscSize(Len(Parts(t))), CaseAlignment(t))
      case == Number(disc.b) + 1
  IN  IF Bad(disc) \/ case > Len(Parts(t)) THEN Refused
      ELSE LET v == LoadPayload(m, at, Parts(t)[case])
           IN  AllOr(<<v>>, CaseOf(case - 1, v))

LoadOption(m, ptr, elem) ==
  LET disc == LoadInt(m, ptr, 1, FALSE)
  IN  IF Bad(disc) \/ Number(disc.b) > 1 THEN Refused
      ELSE IF Number(disc.b) = 0 THEN Nil
      ELSE LoadValue(m, PayloadOffset(ptr, 1, Alignment(elem)), elem)

LoadResult(m, ptr, t) ==
  LET disc == LoadInt(m, ptr, 1, FALSE)
      arm  == Number(disc.b)
  IN  IF Bad(disc) \/ arm > 1 THEN Refused
      ELSE LET v == LoadPayload(m, PayloadOffset(ptr, 1, CaseAlignment(t)), Parts(t)[arm + 1])
           IN  AllOr(<<v>>, ArmOf(arm, v))

LoadFlags(m, ptr, t) == LoadInt(m, ptr, SizeFlags(Count(t)), FALSE)

LoadEnum(m, ptr, t) ==
  LET v == LoadInt(m, ptr, SizeEnum(Count(t)), FALSE)
  IN  IF Bad(v) \/ Number(v.b) >= Count(t) THEN Refused ELSE v

LoadValue(m, ptr, t) ==
  CASE Kind(t) = "prim"    -> LoadPrimitive(m, ptr, t)
    [] Kind(t) = "list"    -> LoadList(m, ptr, Parts(t)[1])
    [] Kind(t) = "record"  -> LoadRecord(m, ptr, t)
    [] Kind(t) = "tuple"   -> LoadTuple(m, ptr, t)
    [] Kind(t) = "variant" -> LoadVariant(m, ptr, t)
    [] Kind(t) = "option"  -> LoadOption(m, ptr, Parts(t)[1])
    [] Kind(t) = "result"  -> LoadResult(m, ptr, t)
    [] Kind(t) = "flags"   -> LoadFlags(m, ptr, t)
    [] Kind(t) = "enum"    -> LoadEnum(m, ptr, t)
    [] Kind(t) = "handle"  -> LoadInt(m, ptr, 4, FALSE)

Load(m, ptr, t) ==
  IF HasLayout(t) /\ ptr % Alignment(t) = 0 /\ CheckedRange(Len0(m), ptr, Size(t))
  THEN LoadValue(m, ptr, t) ELSE Refused

-------------------------------------------------------------------------------
(* Store *)

Refuse(st, why) == IF st.err = "" THEN [st EXCEPT !.err = why] ELSE st

Write(st, ptr, b) ==
  [st EXCEPT !.m = [i \in DOMAIN @ |-> IF i \in ptr..(ptr + Len(b) - 1) THEN b[i - ptr + 1] ELSE @[i]]]

StoreInt(st, ptr, b, n) ==
  IF st.err # "" THEN st
  ELSE IF ~CheckedRange(st.view, ptr, n) THEN Refuse(st, "range")
  ELSE Write(st, ptr, SubSeq(b, 1, n))

\* The guest's allocator: fixed or growing memory, an address it should not have
\* returned, or no cabi_realloc export.
Grow(st, align, size) ==
  LET p == AlignTo(st.brk, align) + (IF st.alloc = "astray" THEN 1 ELSE 0)
      need == p + size
      pages == ((need + PageSize - 1) \div PageSize) * PageSize
      fits == need <= Len0(st.m)
      grown == [i \in 0..(pages - 1) |-> IF i \in DOMAIN st.m THEN st.m[i] ELSE 0]
  IN  IF st.err # "" THEN [st |-> st, p |-> 0]
      ELSE IF st.alloc = "absent" \/ (~fits /\ st.alloc # "grows")
      THEN [st |-> Refuse(st, "realloc"), p |-> 0]
      ELSE [st |-> [st EXCEPT !.brk = need,
                              !.m = IF fits THEN @ ELSE grown,
                              !.blocks = @ \cup {<<p, size>>}],
            p  |-> p]

\* One allocation and one copy, for strings and raw bytes.
AllocStoreBytes(st, b) ==
  LET a == Grow(st, 1, Len(b))
  IN  IF a.st.err # "" THEN a
      ELSE IF ~CheckedRange(a.st.view, a.p, Len(b)) THEN [a EXCEPT !.st = Refuse(@, "range")]
      ELSE [a EXCEPT !.st = Write(@, a.p, b)]

RECURSIVE StoreValue(_, _, _, _)

AllocStoreList(st, vs, elem) ==
  LET size == Len(vs) * Size(elem)
      a == Grow(st, Alignment(elem), size)
      StoreElem(s, i) == StoreValue(s, a.p + (i - 1) * Size(elem), elem, vs[i])
  IN  IF ~HasLayout(elem) \/ size > AddrMax THEN [st |-> Refuse(st, "layout"), p |-> 0]
      ELSE IF a.st.err # "" THEN a
      ELSE IF a.p % Alignment(elem) # 0 THEN [a EXCEPT !.st = Refuse(@, "unaligned")]
      ELSE IF ~CheckedRange(a.st.view, a.p, size) THEN [a EXCEPT !.st = Refuse(@, "range")]
      ELSE [a EXCEPT !.st = FoldLeft(StoreElem, @, [i \in DOMAIN vs |-> i])]

AllocStoreAnyList(st, v, elem) ==
  IF v.g = "bytes" /\ elem = "u8" THEN AllocStoreBytes(st, v.b)
  ELSE IF v.g # "list" THEN [st |-> Refuse(st, "type"), p |-> 0]
  ELSE AllocStoreList(st, v.c, elem)

ListLength(v) == IF v.g = "bytes" THEN Len(v.b) ELSE Len(v.c)

StoreString(st, ptr, v) ==
  LET a == AllocStoreBytes(st, v.b)
  IN  StoreInt(StoreInt(a.st, ptr, Word(a.p), 4), ptr + 4, Word(Len(v.b)), 4)

StoreList(st, ptr, v, elem) ==
  LET a == AllocStoreAnyList(st, v, elem)
  IN  StoreInt(StoreInt(a.st, ptr, Word(a.p), 4), ptr + 4, Word(ListLength(v)), 4)

StorePrimitive(st, ptr, p, v) ==
  IF v.g # GoType(p) THEN Refuse(st, "type")
  ELSE IF p = "string" THEN StoreString(st, ptr, v)
  ELSE IF p = "char" /\ ~ValidChar(v.b) THEN Refuse(st, "value")
  ELSE StoreInt(st, ptr, v.b, PrimSize(p))

StoreRecord(st, ptr, v, t) ==
  LET at == FieldOffsets(ptr, Parts(t))
      StoreField(s, i) == StoreValue(s, at[i], Parts(t)[i], v.c[i])
  IN  IF v.g # "list" \/ Len(v.c) # Len(Parts(t)) THEN Refuse(st, "type")
      ELSE FoldLeft(StoreField, st, [i \in DOMAIN Parts(t) |-> i])

StoreTuple(st, ptr, v, t) ==
  LET at == FieldOffsets(ptr, Parts(t))
      StoreField(s, i) == StoreValue(s, at[i], Parts(t)[i], v.c[i])
  IN  IF v.g # "list" \/ Len(v.c) # Len(Parts(t)) THEN Refuse(st, "type")
      ELSE FoldLeft(StoreField, st, [i \in DOMAIN Parts(t) |-> i])

\* A case with a payload type refuses the nil value, whatever its type.
StoreVariant(st, ptr, v, t) ==
  LET n  == DiscSize(Len(Parts(t)))
      at == PayloadOffset(ptr, n, CaseAlignment(t))
      u  == Parts(t)[v.d + 1]
      tagged == StoreInt(st, ptr, Word(v.d), n)
  IN  IF v.g # "variant" THEN Refuse(st, "type")
      ELSE IF v.d >= Len(Parts(t)) THEN Refuse(st, "value")
      ELSE IF u = NoType THEN tagged
      ELSE IF v.c[1] = Nil THEN Refuse(tagged, "nil payload")
      ELSE StoreValue(tagged, at, u, v.c[1])

StoreOption(st, ptr, v, elem) ==
  IF v = Nil THEN StoreInt(st, ptr, <<0>>, 1)
  ELSE StoreValue(StoreInt(st, ptr, <<1>>, 1), PayloadOffset(ptr, 1, Alignment(elem)), elem, v)

StoreResult(st, ptr, v, t) ==
  LET u == Parts(t)[v.d + 1]
      tagged == StoreInt(st, ptr, <<v.d>>, 1)
  IN  IF v.g # "result" THEN Refuse(st, "type")
      ELSE IF u = NoType THEN tagged
      ELSE StoreValue(tagged, PayloadOffset(ptr, 1, CaseAlignment(t)), u, v.c[1])

StoreFlags(st, ptr, v, t) ==
  IF v.g # "u32" THEN Refuse(st, "type") ELSE StoreInt(st, ptr, v.b, SizeFlags(Count(t)))

StoreEnum(st, ptr, v, t) ==
  IF v.g # "u32" THEN Refuse(st, "type")
  ELSE IF Number(v.b) >= Count(t) THEN Refuse(st, "value")
  ELSE StoreInt(st, ptr, v.b, SizeEnum(Count(t)))

StoreValue(st, ptr, t, v) ==
  IF st.err # "" THEN st
  ELSE CASE Kind(t) = "prim"    -> StorePrimitive(st, ptr, t, v)
         [] Kind(t) = "list"    -> StoreList(st, ptr, v, Parts(t)[1])
         [] Kind(t) = "record"  -> StoreRecord(st, ptr, v, t)
         [] Kind(t) = "tuple"   -> StoreTuple(st, ptr, v, t)
         [] Kind(t) = "variant" -> StoreVariant(st, ptr, v, t)
         [] Kind(t) = "option"  -> StoreOption(st, ptr, v, Parts(t)[1])
         [] Kind(t) = "result"  -> StoreResult(st, ptr, v, t)
         [] Kind(t) = "flags"   -> StoreFlags(st, ptr, v, t)
         [] Kind(t) = "enum"    -> StoreEnum(st, ptr, v, t)
         [] Kind(t) = "handle"  -> IF v.g = "u32" THEN StoreInt(st, ptr, v.b, 4)
                                                  ELSE Refuse(st, "type")

Store(st, ptr, t, v) ==
  IF ~HasLayout(t) THEN Refuse(st, "layout")
  ELSE IF ptr % Alignment(t) # 0 THEN Refuse(st, "unaligned")
  ELSE IF ~CheckedRange(st.view, ptr, Size(t)) THEN Refuse(st, "range")
  ELSE StoreValue(st, ptr, t, v)
===============================================================================
