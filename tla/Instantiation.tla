------------------------------ MODULE Instantiation ------------------------------
(***************************************************************************)
(* Instantiate (instance.go), instantiateGraph and                         *)
(* instantiateNestedInstances (graph.go), and the Close of what they make. *)
(* Each caller builds its own tree of component instances from one         *)
(* component, sharing a CompileCache; any step may fail.                   *)
(*                                                                         *)
(* A component is a record: core, its core instances in order; nested, its *)
(* component instances in order; dtors and exports, the core functions     *)
(* they name.  A core instance is a "module", whose args give each "with"  *)
(* name an earlier core instance, or a "group" of inline exports: aliases, *)
(* the core instances its items come from, and canons, the functions it    *)
(* takes from canon definitions -- each with the core instances its memory *)
(* and realloc options need, and the component instance it lowers from, 0  *)
(* if none.  Core instances with the same bytes share what is compiled.    *)
(* A component names its only instantiation.                               *)
(***************************************************************************)
EXTENDS CompileCache, Sequences, FiniteSets

CONSTANTS
  Comps,      \* the component definitions
  Root,       \* the component handed to Instantiate
  Graphs,     \* the compositions: functions from Comps to components
  Names,      \* the "with" names
  NoComp,     \* no component
  NoModule    \* no module

\* A slice: its elements are numbered from 1.
IsSlice(s) == Len(s) \in Nat /\ DOMAIN s = 1..Len(s)

\* A core instance has arguments or inline exports; no argument is named like
\* the key of a core instance, and each component instance has one place.
ASSUME InstantiationAssumption ==
  /\ Root \in Comps
  /\ Names \subseteq {"name", "group"} \X Nat
  /\ \A g \in Graphs : \A c \in Comps :
       /\ IsSlice(g[c].core) /\ IsSlice(g[c].nested)
       /\ \A k \in DOMAIN g[c].core :
            LET core == g[c].core[k] IN
            /\ DOMAIN core.args \subseteq Names
            /\ core.aliases # {} \/ core.canons # {} => DOMAIN core.args = {}
       /\ \A i \in DOMAIN g[c].nested : g[c].nested[i].comp \in Comps \ {Root}
       /\ \A i \in DOMAIN g[c].nested : \A d \in Comps : \A j \in DOMAIN g[d].nested :
            g[c].nested[i].comp = g[d].nested[j].comp => c = d /\ i = j

VARIABLES
  graph,      \* the composition that is being instantiated
  phase,      \* caller -> "decode", "building", "ready" or "released"
  frames,     \* caller -> the instantiateGraph calls under way, innermost last
  ptr,        \* caller -> the decoded component it got, named by its decoder
  got,        \* caller -> the compiled module it got for the next core instance
  keyToInst,  \* caller -> component -> key -> the core instance it resolves to
  links,      \* caller -> what each import was resolved to
  mods,       \* caller -> the modules that are open in the Runtime
  closers,    \* caller -> component -> the modules its Close will close
  subs,       \* caller -> component -> subInstances
  held        \* caller -> the components whose handle table owns a host resource

treeVars == <<phase, frames, ptr, got, keyToInst, links, mods, closers, subs, held>>
vars == <<cacheVars, graph, treeVars>>

Init ==
  /\ CacheInit
  /\ graph \in Graphs
  /\ phase = [p \in Callers |-> "decode"]
  /\ frames = [p \in Callers |-> <<>>]
  /\ ptr = [p \in Callers |-> NoOne]
  /\ got = [p \in Callers |-> NoOne]
  /\ keyToInst = [p \in Callers |-> [c \in Comps |-> <<>>]]
  /\ links = [p \in Callers |-> {}]
  /\ mods = [p \in Callers |-> {}]
  /\ closers = [p \in Callers |-> [c \in Comps |-> {}]]
  /\ subs = [p \in Callers |-> [c \in Comps |-> {}]]
  /\ held = [p \in Callers |-> {}]

-----------------------------------------------------------------------------
(* Resolver keys: a "with" name stands for itself; the keys of core          *)
(* instances and canon groups have a prefix each, but a "with" name may be   *)
(* spelled like a group's.                                                   *)

NoName == <<"name", 0>>               \* the "with" name ""
EmptyKey == <<"empty", 0>>            \* graphEmptyImportKey, what "" is rewritten to
CoreKey(k) == <<"core", k>>           \* coreInstanceKey
GroupKey(k) == <<"group", k>>         \* canonGroupKey
UnreferencedKey(k) == <<"unreferenced", k>>
ImportName(n) == IF n = NoName THEN EmptyKey ELSE n

Top(p) == frames[p][Len(frames[p])]
Comp(p) == graph[Top(p).comp]
Core(p) == Comp(p).core[Top(p).k]
At(p, pc) == phase[p] = "building" /\ Top(p).pc = pc
CoreMod(p, k) == <<Top(p).comp, "core", k>>
HostMod(p) == <<Top(p).comp, "host", Top(p).k>>
Instantiated(p, k) == CoreMod(p, k) \in mods[p]

\* The names core instance k is passed under, each with its consumer.
Consumers(c, k) ==
  {u \in {<<j, n>> : j \in DOMAIN graph[c].core, n \in Names} :
     /\ u[2] \in DOMAIN graph[c].core[u[1]].args
     /\ graph[c].core[u[1]].args[u[2]] = k}

Earlier(u, v) == u[1] < v[1] \/ (u[1] = v[1] /\ u[2][2] <= v[2][2])

\* moduleKeyForGraph: the first of these names, which is no identity.
FallbackKey(c, k) ==
  IF Consumers(c, k) = {} THEN UnreferencedKey(k)
  ELSE ImportName((CHOOSE u \in Consumers(c, k) : \A v \in Consumers(c, k) : Earlier(u, v))[2])

Keys(p) == keyToInst[p][Top(p).comp]
GraphResolver(p, key) == IF key \in DOMAIN Keys(p) THEN Keys(p)[key] ELSE NoModule

NeverLocal(p) == FALSE

\* Some argument is not what the graph-wide resolver would give for its name.
NeedLocal(p) ==
  \E n \in DOMAIN Core(p).args :
    GraphResolver(p, ImportName(n)) # CoreMod(p, Core(p).args[n])

Resolved(p, n) ==
  IF NeedLocal(p) THEN CoreMod(p, Core(p).args[n]) ELSE GraphResolver(p, ImportName(n))

-----------------------------------------------------------------------------
(* Release: fail, failClose and closeSubs on the way out of an error, and    *)
(* Instance.Close.  Modules are closed in two passes over closers, each in   *)
(* reverse; a module that fails to close does not stop the others.           *)

\* A component and its sub-instances, to any depth.
Tree(p, c) ==
  {d \in Comps : \A S \in SUBSET Comps :
     c \in S /\ (\A e \in S : subs[p][e] \subseteq S) => d \in S}

LateNoSubs(f) == f.pc \in {"plan", "core", "exports"}

\* The instances an error in a frame closes: its own, and those nested in it
\* so far -- by failClose while they are being made, by closeSubs after.
NoSubs(f) == f.pc \in {"plan", "core"}

Unwound(p, f) == IF NoSubs(f) THEN {f.comp} ELSE Tree(p, f.comp)

\* The handle table's close destroys what it owns; then the modules go.
Release(p, cs, extra) ==
  /\ mods' = [mods EXCEPT ![p] = (@ \cup extra) \ UNION {closers[p][c] : c \in cs}]
  /\ held' = [held EXCEPT ![p] = @ \ cs]
  /\ phase' = [phase EXCEPT ![p] = "released"]
  /\ frames' = [frames EXCEPT ![p] = <<>>]
  /\ got' = [got EXCEPT ![p] = NoOne]
  /\ UNCHANGED <<ptr, keyToInst, links, closers, subs>>

Leaves(p, extra) ==
  Release(p, UNION {Unwound(p, frames[p][i]) : i \in DOMAIN frames[p]}, extra)
Fail(p) == Leaves(p, {})

-----------------------------------------------------------------------------
(* The loop over core instances. *)

Goto(p, pc, k) == [frames EXCEPT ![p][Len(frames[p])] = [@ EXCEPT !.pc = pc, !.k = k]]

Opens(p, new) ==
  /\ mods' = [mods EXCEPT ![p] = @ \cup new]
  /\ closers' = [closers EXCEPT ![p][Top(p).comp] = @ \cup new]

MoreCore(p) == At(p, "core") /\ Top(p).k <= Len(Comp(p).core)

HostBuilt(p) == Core(p).canons = {} \/ HostMod(p) \in mods[p]

\* An argument, the source of an alias, or the memory or realloc of a canon.
Needs(p) ==
  {Core(p).args[n] : n \in DOMAIN Core(p).args} \cup Core(p).aliases
    \cup UNION {d.needs : d \in Core(p).canons}
Missing(p) == \E k \in Needs(p) : ~Instantiated(p, k)

\* One private host module for all the canon functions of a group, under a key
\* that keeps the shim's bytes the same each time, unless a name took it.  A
\* lower of a component instance that is not there yet is only queued.
BuildHost(p) ==
  /\ MoreCore(p) /\ ~Missing(p) /\ ~HostBuilt(p)
  /\ Opens(p, {HostMod(p)})
  /\ keyToInst' = [keyToInst EXCEPT ![p][Top(p).comp] =
       IF GroupKey(Top(p).k) \in DOMAIN @ THEN @ ELSE Put(@, GroupKey(Top(p).k), HostMod(p))]
  /\ UNCHANGED <<phase, frames, ptr, got, links, subs, held>>

Collides(p) == Core(p).canons # {} /\ GraphResolver(p, GroupKey(Top(p).k)) # HostMod(p)
Cacheable(p) == ~Collides(p)

BytesOf(p) == <<"compile", NoOne, "bytes", Core(p).bytes>>

\* What each import of the module, or of the shim, resolves to.
Link(p, name, to) == [comp |-> Top(p).comp, core |-> Top(p).k, name |-> name, to |-> to]
LinksOf(p) ==
  {Link(p, n, Resolved(p, n)) : n \in DOMAIN Core(p).args}
  \cup {Link(p, CoreKey(k), GraphResolver(p, CoreKey(k))) : k \in Core(p).aliases}
  \cup {Link(p, GroupKey(Top(p).k), IF Cacheable(p) THEN GraphResolver(p, GroupKey(Top(p).k))
                                                    ELSE HostMod(p)) : d \in Core(p).canons}

\* InstantiateModule, whose start function leaves a host resource in the table
\* if the module has one; a module whose code the cache has closed is refused.
CoreInstance(p) ==
  /\ MoreCore(p) /\ ~Missing(p) /\ HostBuilt(p)
  /\ Cacheable(p) => <<BytesOf(p), got[p]>> \in opened
  /\ Opens(p, {CoreMod(p, Top(p).k)})
  /\ keyToInst' = [keyToInst EXCEPT ![p][Top(p).comp] =
       Put(Put(@, CoreKey(Top(p).k), CoreMod(p, Top(p).k)),
           FallbackKey(Top(p).comp, Top(p).k), CoreMod(p, Top(p).k))]
  /\ links' = [links EXCEPT ![p] = @ \cup LinksOf(p)]
  /\ held' = [held EXCEPT ![p] = @ \cup (IF Core(p).starts THEN {Top(p).comp} ELSE {})]
  /\ got' = [got EXCEPT ![p] = NoOne]
  /\ frames' = Goto(p, "core", Top(p).k + 1)
  /\ UNCHANGED <<phase, ptr, subs>>

CoreDone(p) ==
  /\ At(p, "core") /\ Top(p).k > Len(Comp(p).core)
  /\ frames' = Goto(p, "nest", 1)
  /\ UNCHANGED <<phase, ptr, got, keyToInst, links, mods, closers, subs, held>>

-----------------------------------------------------------------------------
(* Nested component instances. *)

\* Those not exported as instances, and what they are given.
Needed(p) ==
  LET n == Comp(p).nested
      need[i \in DOMAIN n] ==
        ~n[i].exported \/ \E j \in i+1..Len(n) : n[i].comp \in n[j].insts /\ need[j]
  IN  {i \in DOMAIN n : need[i]}

IsShim(c) == graph[c].core = <<>> /\ graph[c].nested = <<>>

MoreNested(p) == At(p, "nest") /\ Top(p).k <= Len(Comp(p).nested)
Nested(p) == Comp(p).nested[Top(p).k]
Skipped(p) == Top(p).k \notin Needed(p) \/ IsShim(Nested(p).comp)

SkipNested(p) ==
  /\ MoreNested(p) /\ Skipped(p)
  /\ frames' = Goto(p, "nest", Top(p).k + 1)
  /\ UNCHANGED <<phase, ptr, got, keyToInst, links, mods, closers, subs, held>>

\* Every instance it is given is a prior nested instantiation, and the call
\* begins; its config is made here, and its import resolver starts afresh.
ArgsThere(p) == Nested(p).insts \subseteq subs[p][Top(p).comp]

Frame(c) == [comp |-> c, pc |-> "plan", k |-> 1]

Nest(p) ==
  /\ MoreNested(p) /\ ~Skipped(p) /\ ArgsThere(p)
  /\ frames' = [frames EXCEPT ![p] = Append(@, Frame(Nested(p).comp))]
  /\ UNCHANGED <<phase, ptr, got, keyToInst, links, mods, closers, subs, held>>

NestDone(p) ==
  /\ At(p, "nest") /\ Top(p).k > Len(Comp(p).nested)
  /\ frames' = Goto(p, "delegates", 1)
  /\ UNCHANGED <<phase, ptr, got, keyToInst, links, mods, closers, subs, held>>

\* The component instances that canon lowers were bound to before they existed.
Pending(p) ==
  {d.from : d \in UNION {Comp(p).core[k].canons : k \in DOMAIN Comp(p).core}} \ {NoComp}

Delegates(p) ==
  /\ At(p, "delegates") /\ Pending(p) \subseteq subs[p][Top(p).comp]
  /\ frames' = Goto(p, "dtors", 1)
  /\ UNCHANGED <<phase, ptr, got, keyToInst, links, mods, closers, subs, held>>

-----------------------------------------------------------------------------
(* Destructors and exports: core functions, through coreFuncTarget.  A       *)
(* target is <<"alias", core instance>> or <<"canon", number>>; the first    *)
(* use of a canon makes a private host module and a shim, both kept.         *)

PrivMod(p, n) == <<Top(p).comp, "private", n>>
ShimMod(p, n) == <<Top(p).comp, "shim", n>>

TargetReady(p, t) ==
  IF t[1] = "alias" THEN Instantiated(p, t[2]) ELSE ShimMod(p, t[2]) \in mods[p]

Targets(p) == IF Top(p).pc = "dtors" THEN Comp(p).dtors ELSE Comp(p).exports
Unready(p) == {t \in Targets(p) : ~TargetReady(p, t)}
Binding(p) == At(p, "dtors") \/ At(p, "exports")

BuildTarget(p) ==
  /\ Binding(p)
  /\ \E t \in Unready(p) :
       /\ t[1] = "canon"
       /\ Opens(p, {PrivMod(p, t[2]), ShimMod(p, t[2])})
  /\ UNCHANGED <<phase, frames, ptr, got, keyToInst, links, subs, held>>

\* The private host module is there, its shim fails, and closers has neither.
TargetFails(p) ==
  /\ Binding(p)
  /\ \E t \in Unready(p) : t[1] = "canon" /\ Leaves(p, {PrivMod(p, t[2])})

DtorsChecked(p) ==
  /\ At(p, "dtors") /\ Unready(p) = {}
  /\ frames' = Goto(p, "exports", 1)
  /\ UNCHANGED <<phase, ptr, got, keyToInst, links, mods, closers, subs, held>>

\* The Instance is complete: Instantiate returns it, or the outer component
\* takes it as one of its sub-instances.
Bound(p) ==
  IF Len(frames[p]) = 1
  THEN /\ phase' = [phase EXCEPT ![p] = "ready"]
       /\ frames' = [frames EXCEPT ![p] = <<>>]
       /\ UNCHANGED subs
  ELSE LET outer == frames[p][Len(frames[p]) - 1] IN
       /\ subs' = [subs EXCEPT ![p][outer.comp] = @ \cup {Top(p).comp}]
       /\ frames' = [frames EXCEPT ![p] = Append(SubSeq(@, 1, Len(@) - 2), [outer EXCEPT !.k = @ + 1])]
       /\ UNCHANGED phase

\* An instance that is exported as such must be a shim.
ExportsFit(p) ==
  \A i \in DOMAIN Comp(p).nested : Comp(p).nested[i].exported => IsShim(Comp(p).nested[i].comp)

-----------------------------------------------------------------------------
(* What the cache is asked for, and what is done with the answer. *)

AtFetch(p) ==
  /\ reading[p] = NoKey
  /\ \/ phase[p] = "decode"
     \/ At(p, "plan")
     \/ MoreCore(p) /\ ~Missing(p) /\ HostBuilt(p) /\ Cacheable(p) /\ got[p] = NoOne
     \/ At(p, "exports") /\ Unready(p) = {} /\ ExportsFit(p)

Wanted(p) ==
  CASE phase[p] = "decode" -> <<"decode", NoOne, Root, 0>>
    [] At(p, "plan")       -> <<"plan", ptr[p], Top(p).comp, 0>>
    [] At(p, "core")       -> BytesOf(p)
    [] At(p, "exports")    -> <<"abi", ptr[p], Top(p).comp, 0>>

Take(p, v) ==
  \/ /\ phase[p] = "decode"
     /\ phase' = [phase EXCEPT ![p] = "building"]
     /\ ptr' = [ptr EXCEPT ![p] = v]
     /\ frames' = [frames EXCEPT ![p] = <<Frame(Root)>>]
     /\ UNCHANGED <<got, keyToInst, links, mods, closers, subs, held>>
  \/ /\ At(p, "plan")
     /\ frames' = Goto(p, "core", 1)
     /\ UNCHANGED <<phase, ptr, got, keyToInst, links, mods, closers, subs, held>>
  \/ /\ At(p, "core")
     /\ got' = [got EXCEPT ![p] = v]
     /\ UNCHANGED <<phase, frames, ptr, keyToInst, links, mods, closers, subs, held>>
  \/ /\ At(p, "exports") /\ Bound(p)
     /\ UNCHANGED <<ptr, got, keyToInst, links, mods, closers, held>>

FetchHit(p) ==
  /\ AtFetch(p) /\ ~closed /\ Has(Wanted(p))
  /\ Take(p, stored[Wanted(p)])
  /\ UNCHANGED <<cacheVars, graph>>

FetchMiss(p) ==
  /\ AtFetch(p) /\ Miss(p, Wanted(p))
  /\ UNCHANGED <<graph, treeVars>>

FetchStore(p) ==
  /\ Store(p) /\ Take(p, Winner(p))
  /\ UNCHANGED graph

\* A closed cache refuses; abiFor then computes for the caller alone.
FetchClosed(p) ==
  /\ AtFetch(p) /\ closed
  /\ IF Refuses(Wanted(p)) THEN Fail(p) ELSE Take(p, NoOne)
  /\ UNCHANGED <<cacheVars, graph>>

FetchFails(p) ==
  /\ reading[p] # NoKey /\ p \notin built
  /\ GivesUp(p) /\ Fail(p)
  /\ UNCHANGED graph

\* An unresolved reference, a start function that traps, a host module or a
\* module that the engine refuses, an export that cannot be bound.
StepFails(p) ==
  /\ phase[p] = "building" /\ reading[p] = NoKey
  /\ Fail(p)

\* Instance.Close of the root.
Close(p) == phase[p] = "ready" /\ Release(p, Tree(p, Root), {})

\* The caller instantiates again; what was released is forgotten.
Again(p) ==
  /\ phase[p] = "released"
  /\ phase' = [phase EXCEPT ![p] = "decode"]
  /\ ptr' = [ptr EXCEPT ![p] = NoOne]
  /\ keyToInst' = [keyToInst EXCEPT ![p] = [c \in Comps |-> <<>>]]
  /\ links' = [links EXCEPT ![p] = {}]
  /\ mods' = [mods EXCEPT ![p] = {}]
  /\ closers' = [closers EXCEPT ![p] = [c \in Comps |-> {}]]
  /\ subs' = [subs EXCEPT ![p] = [c \in Comps |-> {}]]
  /\ UNCHANGED <<frames, got, held>>

Builds(p) ==
  \/ BuildHost(p) \/ CoreInstance(p) \/ CoreDone(p)
  \/ SkipNested(p) \/ Nest(p) \/ NestDone(p) \/ Delegates(p)
  \/ BuildTarget(p) \/ TargetFails(p) \/ DtorsChecked(p)
  \/ StepFails(p) \/ Close(p) \/ Again(p)

Next ==
  \/ \E p \in Callers :
       \/ reading[p] = NoKey /\ Builds(p) /\ UNCHANGED <<cacheVars, graph>>
       \/ FetchHit(p) \/ FetchMiss(p) \/ FetchStore(p) \/ FetchClosed(p) \/ FetchFails(p)
       \/ Compute(p) /\ UNCHANGED <<graph, treeVars>>
  \/ CloseCache /\ UNCHANGED <<graph, treeVars>>

Spec == Init /\ [][Next]_vars

-----------------------------------------------------------------------------
(* The component instances whose modules and tables are still in use. *)
Live(p) ==
  UNION {Tree(p, c) : c \in {frames[p][i].comp : i \in DOMAIN frames[p]}
                             \cup (IF phase[p] = "ready" THEN {Root} ELSE {})}

(* Whatever step of Instantiate fails, in whatever nesting, and after Close,
   every module that was opened is closed and no table keeps a host resource
   (graph.go:299-315, 687-695, instance.go:2186).  The one thing left is the
   private host module of a canon whose shim fails: closers gets it only together
   with the shim (graph.go:384-395). *)
NothingLeaks ==
  \A p \in Callers :
    /\ held[p] \subseteq Live(p)
    /\ LET left == mods[p] \ UNION {closers[p][c] : c \in Live(p)} IN
         /\ \A m \in left : m[2] = "private"
         /\ Cardinality(left) <= 1

Written(l) ==
  LET args == graph[l.comp].core[l.core].args IN
  IF l.name \in DOMAIN args THEN <<l.comp, "core", args[l.name]>>
  ELSE IF l.name[1] = "group" THEN <<l.comp, "host", l.core>>
  ELSE <<l.comp, "core", l.name[2]>>

(* Every import of a core module resolves to the instance its own "with" names,
   and every import of a regrouping shim to the instance its item comes from,
   although names are local to one instantiation, several instances go by one
   name and one by several, and the resolver is shared by the whole component
   (graph.go:1176-1190, 543-568). *)
LinkedAsWritten == \A p \in Callers : \A l \in links[p] : l.to = Written(l)

(* "every caller (winner or loser) still gets back a valid, usable
   CompiledModule" (compilecache.go:61): until it is instantiated it is open,
   unless somebody has closed the whole cache. *)
CompiledIsUsable ==
  \A p \in Callers : got[p] # NoOne => closed \/ <<BytesOf(p), got[p]>> \in opened

(* Shared values: see CompileCache. *)
CacheIsCoherent == CacheOwnsCompiled /\ KeyedByStored
=============================================================================
