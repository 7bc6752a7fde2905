----------------------------- MODULE MCInstantiation -----------------------------
(* Two goroutines instantiate one of many small compositions. *)
EXTENDS Instantiation, TLC

Partial(S, T) == UNION {[D -> T] : D \in SUBSET S}

Name(n) == <<"name", n>>
Common == {Name(0), Name(1)}
MCNames == Common \cup {GroupKey(3)}

\* A module's bytes spell its imports; a shim's depend on its place.
Bytes(args) == CASE DOMAIN args = {} -> 1 [] DOMAIN args = {NoName} -> 2
                 [] DOMAIN args = {Name(1)} -> 3 [] OTHER -> 4

Module(args) == [bytes |-> Bytes(args), args |-> args, aliases |-> {}, canons |-> {}, starts |-> args = <<>>]
Group(aliases, canons) == [bytes |-> 5, args |-> <<>>, aliases |-> aliases, canons |-> canons, starts |-> FALSE]
Lower(needs, from) == [needs |-> needs, from |-> from]

Plain == Module(<<>>)
Leaf == [core |-> <<Plain>>, nested |-> <<>>, dtors |-> {}, exports |-> {<<"alias", 1>>}]
Shim == [core |-> <<>>, nested |-> <<>>, dtors |-> {}, exports |-> {}]

\* Linking: four core instances.  The second and the third take earlier ones
\* under the same or different names, the fourth takes the first.
Linked ==
  {[core |-> <<Plain, second, Module(third), Module([n \in {Name(1)} |-> 1])>>, nested |-> <<>>,
    dtors |-> {}, exports |-> {}] :
     second \in {Module(a) : a \in Partial(Common, {1}) \ {<<>>}} \cup {Group({1}, {Lower({1}, NoComp)})},
     third \in [Common -> 1..2] \cup [{Name(1)} -> {2}]}
  \cup
  {[core |-> <<Plain, Module([n \in {GroupKey(3)} |-> 1]), Group({2}, {Lower({1}, NoComp)}),
               Module([n \in {NoName} |-> 3])>>,
    nested |-> <<>>, dtors |-> {}, exports |-> {}],
   [core |-> <<Module([n \in {NoName} |-> 2]), Plain>>, nested |-> <<>>, dtors |-> {}, exports |-> {}]}

\* Nesting: "a" and "b" inside Root, "b" given "a", and one canon lower of "b"
\* that Root's own core instances are bound to before it exists.
Instance(c, e, insts) == [comp |-> c, exported |-> e, insts |-> insts]
Nests ==
  {[core |-> <<Plain, Group({}, {Lower({1}, from)})>>, nested |-> nested,
    dtors |-> dtors, exports |-> exports] :
     from \in {NoComp, "b"},
     nested \in {<<Instance("a", e, {}), Instance("b", FALSE, {"a"})>> : e \in BOOLEAN}
                 \cup {<<Instance("a", TRUE, {}), Instance("b", FALSE, {})>>},
     dtors \in {{<<"canon", 1>>}},
     exports \in {{<<"canon", 1>>, <<"alias", 1>>}}}

MCGraphs ==
  {[c \in Comps |-> IF c = Root THEN g ELSE Leaf] : g \in Linked}
  \cup {[c \in Comps |-> CASE c = Root -> g [] c = "a" -> a [] OTHER -> Leaf] :
          g \in Nests, a \in {Leaf, Shim}}

Symmetry == Permutations(Callers)
=============================================================================
