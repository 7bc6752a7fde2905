------------------------------ MODULE AbiLayout ------------------------------
(* The canonical ABI's view of types (internal/abi/layout.go, flatten.go): how
   many bytes a type takes in linear memory and at which alignment, and which
   core values it becomes when it is passed flat.

   A type is a name of the table Types, the counterpart of a type index and the
   resolver that follows it; the name of a primitive is its descriptor.  Types[t]
   has a kind k, the component types ts (fields, elements, case payloads, with
   NoType for a case without one; an option has one part, a result its ok and err
   parts) and a number n of labels (flags) or cases (enum).                     *)
EXTENDS Integers, SequencesExt

CONSTANTS
  Types,          \* the table the resolver reads
  NoType,         \* a case without payload
  MaxFlatParams,  \* core values a parameter list or value may take before it spills
  MaxFlatResults, \* the same limit for a result
  MaxTypeDepth,   \* maxLayoutTypeDepth
  AddrMax         \* the largest memory32 offset

VARIABLE types  \* Types with what the type functions below say of each type

\* The types a descriptor d refers to.
Payloads(d) == Range(d.ts) \ {NoType}

-------------------------------------------------------------------------------
(* Which types have a layout *)

RECURSIVE ValidLayoutDesc(_, _, _, _)
\* References are followed through every composite but list, to a bounded depth,
\* and a reference back to a type being visited is a cycle.
ValidLayoutDesc(t, d, depth, visiting) ==
  /\ depth <= MaxTypeDepth
  /\ d.k \in {"record", "variant", "tuple", "option", "result"} =>
       \A u \in Payloads(d) :
         Types[u].k # "prim" => /\ u \notin visiting
                             /\ ValidLayoutDesc(u, Types[u], depth + 1, visiting \cup {u})

ValidLayoutType(t) == ValidLayoutDesc(t, Types[t], 0, {})

-------------------------------------------------------------------------------
(* Alignment and size.  The operator of a kind takes the descriptor d and part,
   which gives the layout of each type d refers to.                             *)

AlignTo(offset, alignment) == ((offset + alignment - 1) \div alignment) * alignment

PrimSize(p) ==
  CASE p \in {"bool", "s8", "u8"}                          -> 1
    [] p \in {"s16", "u16"}                                -> 2
    [] p \in {"s32", "u32", "f32", "char", "error-context"} -> 4
    [] p \in {"s64", "u64", "f64", "string"}               -> 8

PrimAlign(p) == IF p = "string" THEN 4 ELSE PrimSize(p)

\* The primitive that encodes the discriminant of numCases cases.
DiscriminantType(numCases) ==
  IF numCases <= 256 THEN "u8" ELSE IF numCases <= 65536 THEN "u16" ELSE "u32"

DiscSize(numCases) == PrimSize(DiscriminantType(numCases))

SizeFlags(numLabels) == IF numLabels <= 8 THEN 1 ELSE IF numLabels <= 16 THEN 2 ELSE 4

MaxCaseAlignment(d, part) == Max({1} \cup {part[u].align : u \in Payloads(d)})

AlignRecord(d, part)  == MaxCaseAlignment(d, part)
AlignTuple(d, part)   == MaxCaseAlignment(d, part)
AlignVariant(d, part) == Max({MaxCaseAlignment(d, part), DiscSize(Len(d.ts))})
AlignEnum(d)          == DiscSize(d.n)
AlignFlags(d)         == SizeFlags(d.n)
AlignOption(d, part)  == part[d.ts[1]].align
AlignResult(d, part)  == MaxCaseAlignment(d, part)

AlignmentUnchecked(t, d, part) ==
  CASE d.k = "prim"                -> PrimAlign(t)
    [] d.k \in {"list", "handle"}  -> 4
    [] d.k = "record"              -> AlignRecord(d, part)
    [] d.k = "tuple"               -> AlignTuple(d, part)
    [] d.k = "variant"             -> AlignVariant(d, part)
    [] d.k = "enum"                -> AlignEnum(d)
    [] d.k = "flags"               -> AlignFlags(d)
    [] d.k = "option"              -> AlignOption(d, part)
    [] d.k = "result"              -> AlignResult(d, part)

MaxCaseSize(d, part) == Max({0} \cup {part[u].size : u \in Payloads(d)})

\* mutant: fields are summed up without the padding between them.
SizeRecordPacked(d, part) ==
  LET Place(offset, u) == offset + part[u].size
  IN  AlignTo(FoldLeft(Place, 0, d.ts), AlignRecord(d, part))

SizeRecord(d, part) ==
  LET Place(offset, u) == AlignTo(offset, part[u].align) + part[u].size
  IN  AlignTo(FoldLeft(Place, 0, d.ts), AlignRecord(d, part))

SizeTuple(d, part) ==
  LET Place(offset, u) == AlignTo(offset, part[u].align) + part[u].size
  IN  AlignTo(FoldLeft(Place, 0, d.ts), AlignTuple(d, part))

SizeVariant(d, part) ==
  AlignTo(AlignTo(DiscSize(Len(d.ts)), MaxCaseAlignment(d, part)) + MaxCaseSize(d, part),
          AlignVariant(d, part))

SizeEnum(n) == DiscSize(n)

SizeOption(d, part) ==
  LET elem == part[d.ts[1]]
  IN  AlignTo(AlignTo(1, elem.align) + elem.size, AlignOption(d, part))

SizeResult(d, part) ==
  AlignTo(AlignTo(1, MaxCaseAlignment(d, part)) + MaxCaseSize(d, part), AlignResult(d, part))

SizeUnchecked(t, d, part) ==
  CASE d.k = "prim"    -> PrimSize(t)
    [] d.k = "list"    -> 8
    [] d.k = "handle"  -> 4
    [] d.k = "record"  -> SizeRecord(d, part)
    [] d.k = "tuple"   -> SizeTuple(d, part)
    [] d.k = "variant" -> SizeVariant(d, part)
    [] d.k = "enum"    -> SizeEnum(d.n)
    [] d.k = "flags"   -> SizeFlags(d.n)
    [] d.k = "option"  -> SizeOption(d, part)
    [] d.k = "result"  -> SizeResult(d, part)

LayoutOf(t, d, part) ==
  [align |-> AlignmentUnchecked(t, d, part),
   size  |-> SizeUnchecked(t, d, part),
   cases |-> MaxCaseAlignment(d, part)]

Layouts[t \in DOMAIN Types] ==
  LayoutOf(t, Types[t], [u \in Payloads(Types[t]) |-> Layouts[u]])

\* A layout the 32-bit sums can represent (checkedAlign, checkedAdd).
Representable(t) == ValidLayoutType(t) /\ Layouts[t].size <= AddrMax

-------------------------------------------------------------------------------
(* Flattening.  flat[u] is what a type u the descriptor refers to flattens to. *)

FlattenPrimitive(p) ==
  CASE p = "string"           -> <<"i32", "i32">>
    [] p \in {"s64", "u64"}   -> <<"i64">>
    [] p = "f32"              -> <<"f32">>
    [] p = "f64"              -> <<"f64">>
    [] OTHER                  -> <<"i32">>

\* The core type that can carry any of the candidates at one position.
JoinCoreTypes(kinds) ==
  IF Cardinality(kinds) = 1 THEN CHOOSE k \in kinds : TRUE
  ELSE IF kinds \subseteq {"i32", "f32"} THEN "i32" ELSE "i64"

\* flats is the set of the cases' flat sequences: joined position by position.
Joined(flats) ==
  [i \in 1..Max({0} \cup {Len(f) : f \in flats}) |->
     JoinCoreTypes({f[i] : f \in {g \in flats : i <= Len(g)}})]

FlattenRecord(d, flat) == FlattenSeq([i \in DOMAIN d.ts |-> flat[d.ts[i]]])
FlattenTuple(d, flat)  == FlattenSeq([i \in DOMAIN d.ts |-> flat[d.ts[i]]])
FlattenVariant(d, flat) ==
  FlattenPrimitive(DiscriminantType(Len(d.ts))) \o Joined({flat[u] : u \in Payloads(d)})
FlattenOption(d, flat) == <<"i32">> \o flat[d.ts[1]]
FlattenResult(d, flat) == <<"i32">> \o Joined({flat[u] : u \in Payloads(d)})

FlatOf(t, d, flat) ==
  CASE d.k = "prim"    -> FlattenPrimitive(t)
    [] d.k = "list"    -> <<"i32", "i32">>
    [] d.k = "record"  -> FlattenRecord(d, flat)
    [] d.k = "tuple"   -> FlattenTuple(d, flat)
    [] d.k = "variant" -> FlattenVariant(d, flat)
    [] d.k = "option"  -> FlattenOption(d, flat)
    [] d.k = "result"  -> FlattenResult(d, flat)
    [] OTHER           -> <<"i32">>

Flats[t \in DOMAIN Types] == FlatOf(t, Types[t], [u \in Payloads(Types[t]) |-> Flats[u]])

-------------------------------------------------------------------------------
(* The code asks these functions for a type each time it lowers or lifts a value of
   it, and its descriptors never change: Described asks them once, for the variable
   types, which no step changes either.                                         *)

Described ==
  [t \in DOMAIN Types |->
     [k |-> Types[t].k, ts |-> Types[t].ts, n |-> Types[t].n,
      align |-> Layouts[t].align, cases |-> Layouts[t].cases, size |-> Layouts[t].size,
      laidOut |-> Representable(t), flat |-> Flats[t]]]

Kind(t)  == types[t].k
Parts(t) == types[t].ts
Count(t) == types[t].n
Alignment(t)     == types[t].align
CaseAlignment(t) == types[t].cases
Size(t)          == types[t].size
HasLayout(t)     == types[t].laidOut
Flatten(t)       == types[t].flat

\* Do the parameters, stored as the tuple t, or the result spill to memory?
ParamsSpill(t)  == Len(Flatten(t)) > MaxFlatParams
ResultSpills(t) == Len(Flatten(t)) > MaxFlatResults
===============================================================================
