------------------------------- MODULE AbiCall -------------------------------
(* One call of an export whose guest calls an import and returns what the import
   returned: the four crossings of the canonical ABI in instance.go and
   host_import.go.  The host lowers the arguments into the guest (lowerParams), the
   host function behind the import lifts them (liftHostArgs), its result is lowered
   (lowerHostResults) and the host lifts it from the export (liftResult).

   The import takes the parameters of the export and returns its first argument.
   The guest moves words, addresses and its own result area, and its allocator may
   behave in the four ways of AbiMemory!Grow.                                   *)
EXTENDS AbiFlat

CONSTANTS
  Calls,      \* <<tuple type of the parameters, sequence of arguments>>
  Allocators, \* how the guest's cabi_realloc behaves
  MemSize,    \* bytes of memory the guest starts with
  Mark        \* what the guest's memory holds before the call

VARIABLES
  call,   \* the call that is made
  phase,  \* how far it is
  st,     \* the guest's memory, the host's view of it and its allocator
  words,  \* the core values in the guest's hands
  ret,    \* the guest's result area, when the result spills
  args,   \* what the host function behind the import received
  out     \* what the caller of the export received

vars == <<types, call, phase, st, words, ret, args, out>>

Params == call[1]
Given  == call[2]
Result == Parts(Params)[1]

Init ==
  /\ types = Described
  /\ call \in Calls
  /\ phase = "called"
  /\ \E a \in Allocators :
       st = [m |-> [i \in 0..(MemSize - 1) |-> Mark], view |-> 0, brk |-> 0, blocks |-> {},
             alloc |-> a, err |-> ""]
  /\ words = <<>> /\ ret = 0 /\ args = Nil /\ out = Nil

\* The slice over the memory is taken once, when a crossing starts.
Viewed(s) == [s EXCEPT !.view = Len0(s.m)]

Enter(r, next) ==
  /\ st' = r.st
  /\ IF r.st.err # "" THEN phase' = "refused" /\ words' = words
     ELSE phase' = next /\ words' = r.ws

\* lowerParams: the whole list as a tuple when it spills, else one value after the other.
LowerParams ==
  LET One(acc, i) ==
        LET p == IF acc.st.err # "" THEN acc ELSE LowerStep(acc.st, Given[i], Parts(Params)[i])
        IN  Lowered(p.st, IF acc.st.err # "" THEN acc.ws ELSE acc.ws \o p.ws)
      s == Viewed(st)
  IN  /\ phase = "called"
      /\ Enter(IF ParamsSpill(Params) THEN SpillValue(s, ListOf(Given), Params)
               ELSE FoldLeft(One, Lowered(s, <<>>), [i \in DOMAIN Given |-> i]),
               "in guest")
      /\ UNCHANGED <<types, call, ret, args, out>>

\* The guest hands its words on; a result too wide for one word gets an area first.
GuestCallsImport ==
  /\ phase = "in guest"
  /\ IF ResultSpills(Result)
     THEN LET a == Grow([st EXCEPT !.alloc = "grows"], Alignment(Result), Size(Result))
          IN  st' = [a.st EXCEPT !.alloc = st.alloc] /\ ret' = a.p
     ELSE UNCHANGED <<st, ret>>
  /\ phase' = "in import"
  /\ UNCHANGED <<types, call, words, args, out>>

\* liftHostArgs, liftHostArgsSpilled
LiftHostArgs ==
  LET Take(acc, u) == LET n == Len(Flatten(u))
                      IN  [vs |-> Append(acc.vs, LiftFlat(st.m, SubSeq(words, acc.n + 1, acc.n + n), u)),
                           n  |-> acc.n + n]
      vs  == FoldLeft(Take, [vs |-> <<>>, n |-> 0], Parts(Params)).vs
      got == IF ParamsSpill(Params) THEN Load(st.m, AsNumber(words[1]), Params)
             ELSE AllOr(vs, ListOf(vs))
  IN  /\ phase = "in import"
      /\ args' = got
      /\ phase' = IF Bad(got) THEN "refused" ELSE "in host"
      /\ st' = IF Bad(got) THEN Refuse(st, "lift") ELSE st
      /\ UNCHANGED <<types, call, words, ret, out>>

\* lowerHostResults: through the result area, or as the one word it flattens to.
LowerHostResults ==
  LET s == Viewed(st)
      v == args.c[1]
  IN  /\ phase = "in host"
      /\ Enter(IF ResultSpills(Result)
               THEN Lowered(Store(s, ret, Result, v), <<I32(Word(ret))>>)
               ELSE LowerFlat(s, v, Result),
               "returned")
      /\ UNCHANGED <<types, call, ret, args, out>>

\* liftResult, over the memory as it is after the call.
LiftResult ==
  LET got == IF ResultSpills(Result) THEN Load(st.m, AsNumber(words[1]), Result)
             ELSE LiftStep(st.m, words, Result)
  IN  /\ phase = "returned"
      /\ out' = got
      /\ phase' = IF Bad(got) THEN "refused" ELSE "done"
      /\ st' = IF Bad(got) THEN Refuse(st, "lift") ELSE st
      /\ UNCHANGED <<types, call, words, ret, args>>

Next == LowerParams \/ GuestCallsImport \/ LiftHostArgs \/ LowerHostResults \/ LiftResult

Spec == Init /\ [][Next]_vars

-------------------------------------------------------------------------------
(* Properties *)

RECURSIVE Canon(_)
\* Raw bytes are accepted for a list of u8 and come back as the list.
Canon(v) ==
  IF v.g = "bytes" THEN ListOf([i \in DOMAIN v.b |-> U32(<<v.b[i]>> \o Zeros(3))])
  ELSE [v EXCEPT !.c = [i \in DOMAIN @ |-> Canon(@[i])]]

RECURSIVE Untyped(_)
Untyped(v) == [g |-> IF v.g \in {"i32", "u32"} THEN "32" ELSE v.g, b |-> v.b, d |-> v.d,
               c |-> [i \in DOMAIN v.c |-> Untyped(v.c[i])]]

RECURSIVE HasSmallSigned(_)
HasSmallSigned(t) == t = "s8" \/ (Kind(t) # "prim" /\ \E u \in Payloads(types[t]) : HasSmallSigned(u))

RECURSIVE HasNilPayload(_)
HasNilPayload(v) == \/ v.g = "variant" /\ v.c[1] = Nil
                    \/ \E i \in DOMAIN v.c : HasNilPayload(v.c[i])

(* What the host function receives is what the caller gave, and what the caller
   receives is what the host function returned, whichever way each of the four
   crossings takes: flat, coerced to a joined type, or through memory.  A call is
   refused only because the allocator is absent, out of room, astray or outgrew the
   host's view, or for one of two values the code does not carry: a case whose
   payload is the none of an option, and a signed byte read from memory
   (flat.go, memory.go, plan.go).                                               *)
CarriedExactly ==
  /\ phase \in {"in host", "returned", "done"} =>
       Untyped(args) = Untyped(Canon(ListOf(Given)))
  /\ phase = "done" => Untyped(out) = Untyped(Canon(Given[1]))
  /\ phase = "refused" =>
       \/ st.alloc \in {"absent", "fixed"} /\ st.err = "realloc"
       \/ st.alloc = "astray" /\ st.err \in {"range", "unaligned", "realloc"}
       \/ st.alloc = "grows" /\ st.err = "range"
       \/ st.err = "nil payload" /\ \E i \in DOMAIN Given : HasNilPayload(Given[i])
       \/ st.err = "type" /\ HasSmallSigned(Result)

(* The host writes the guest's memory only inside the blocks the guest's allocator
   handed out and the result area: the size that layout.go computes and the
   offsets that memory.go writes at agree, for every type.                      *)
WritesStayInBlocks ==
  \A i \in 0..(MemSize - 1) :
    (\A blk \in st.blocks : i \notin blk[1]..(blk[1] + blk[2] - 1)) => st.m[i] = Mark

(* value.go:8-13: an s8 is an int32, whichever way it was lifted. *)
RECURSIVE HasGoTypesOf(_, _)
HasGoTypesOf(v, t) ==
  CASE Kind(t) = "prim" -> v.g = GoType(t)
    [] Kind(t) \in {"record", "tuple"} -> \A i \in DOMAIN v.c : HasGoTypesOf(v.c[i], Parts(t)[i])
    [] Kind(t) = "list" -> \A i \in DOMAIN v.c : HasGoTypesOf(v.c[i], Parts(t)[1])
    [] Kind(t) = "option" -> v = Nil \/ HasGoTypesOf(v, Parts(t)[1])
    [] Kind(t) \in {"variant", "result"} ->
         Parts(t)[v.d + 1] = NoType \/ HasGoTypesOf(v.c[1], Parts(t)[v.d + 1])
    [] OTHER -> v.g = "u32"

(* The values the host function receives have the Go types that value.go documents
   for their types (liftHostArgs).                                              *)
LiftedAsDocumented == phase = "in host" => HasGoTypesOf(args, Params)

(* An allocation that the guest's cabi_realloc granted, in memory the guest has, is
   usable: the lowering that asked for it is not refused (memory.go:14-17,
   instance.go:444).                                                            *)
GrantedMemoryIsUsable ==
  phase = "refused" /\ st.err = "range" =>
    \E blk \in st.blocks : blk[1] + blk[2] > Len0(st.m)
===============================================================================
