------------------------ MODULE InstantiationProofs ------------------------
(***************************************************************************)
(* Proofs about Instantiation and CompileCache, for any number of callers  *)
(* and any compositions.                                                   *)
(***************************************************************************)
EXTENDS Instantiation, SeqFacts

-----------------------------------------------------------------------------
Phases == {"decode", "building", "ready", "released"}
Labels == {"plan", "core", "nest", "delegates", "dtors", "exports"}
FrameSet == [comp : Comps, pc : Labels, k : Nat \ {0}]

Types ==
  /\ graph \in Graphs
  /\ phase \in [Callers -> Phases]
  /\ frames \in [Callers -> Seq(FrameSet)]
  /\ subs \in [Callers -> [Comps -> SUBSET Comps]]
  /\ held \in [Callers -> SUBSET Comps]
  /\ DOMAIN ptr = Callers /\ DOMAIN got = Callers /\ DOMAIN links = Callers
  /\ DOMAIN mods = Callers
  /\ DOMAIN keyToInst = Callers /\ \A p \in Callers : DOMAIN keyToInst[p] = Comps
  /\ DOMAIN closers = Callers /\ \A p \in Callers : DOMAIN closers[p] = Comps

\* The i-th call of instantiateGraph waits for the one above it.
Waits(p, f, above) ==
  /\ f.pc = "nest" /\ f.k \in DOMAIN graph[f.comp].nested
  /\ above.comp = graph[f.comp].nested[f.k].comp

\* What a frame has made so far, by its program counter.
SoFar(p, f) ==
  /\ NoSubs(f) => subs[p][f.comp] = {}
  /\ f.pc = "nest" =>
       \A e \in subs[p][f.comp] :
         \E j \in DOMAIN graph[f.comp].nested : j < f.k /\ graph[f.comp].nested[j].comp = e

Stack(p) ==
  /\ phase[p] = "building" <=> frames[p] # <<>>
  /\ frames[p] # <<>> => frames[p][1].comp = Root
  /\ \A i \in DOMAIN frames[p] :
       /\ i + 1 \in DOMAIN frames[p] => Waits(p, frames[p][i], frames[p][i + 1])
       /\ SoFar(p, frames[p][i])
  /\ \A i, j \in DOMAIN frames[p] : frames[p][i].comp = frames[p][j].comp => i = j

\* A sub-instance is where the component has it.
Placed(p) ==
  \A c \in Comps : \A e \in subs[p][c] :
    \E j \in DOMAIN graph[c].nested : graph[c].nested[j].comp = e

\* Only what is live has sub-instances.
Fresh(p) ==
  phase[p] \in {"decode", "building"} => \A c \in Comps \ Live(p) : subs[p][c] = {}

Owned(p) ==
  /\ held[p] \subseteq Live(p)
  /\ phase[p] # "released" => mods[p] \subseteq UNION {closers[p][c] : c \in Live(p)}
  /\ phase[p] = "released" => \A m, n \in mods[p] : m[2] = "private" /\ m = n

\* The key of a core instance gives that core instance.
Registered(p) ==
  \A c \in Comps : \A k :
    <<c, "core", k>> \in mods[p] =>
      CoreKey(k) \in DOMAIN keyToInst[p][c] /\ keyToInst[p][c][CoreKey(k)] = <<c, "core", k>>

Linked(p) == \A l \in links[p] : l.to = Written(l)

TreeInv(p) == Stack(p) /\ Placed(p) /\ Fresh(p) /\ Owned(p) /\ Registered(p) /\ Linked(p)

DecodeKey == <<"decode", NoOne, Root, 0>>

Cache ==
  /\ DOMAIN reading = Callers /\ built \subseteq Callers
  /\ \A o \in opened : Compiles(o[1]) /\ o = <<o[1], o[2]>>
  /\ \A p \in built : reading[p] # NoKey
  /\ \A p \in built : Compiles(reading[p]) => <<reading[p], p>> \in opened
  /\ \A key \in DOMAIN stored : Compiles(key) => <<key, stored[key]>> \in opened
  /\ closed => stored = <<>> /\ opened = {} /\ \A p \in Callers : reading[p] = NoKey
  /\ CacheOwnsCompiled
  /\ KeyedByStored

\* What a caller looks up and how it goes on with the answer.
Fetches(p) ==
  \/ phase[p] = "decode"
  \/ At(p, "plan")
  \/ MoreCore(p) /\ got[p] = NoOne
  \/ At(p, "exports")

Fetching(p) == reading[p] # NoKey => Fetches(p) /\ reading[p] = Wanted(p)

DecodedStored(p) ==
  phase[p] = "building" => closed \/ (Has(DecodeKey) /\ stored[DecodeKey] = ptr[p])

GotStored(p) ==
  got[p] # NoOne =>
    /\ MoreCore(p) /\ reading[p] = NoKey
    /\ closed \/ (Has(BytesOf(p)) /\ stored[BytesOf(p)] = got[p])

CallerInv(p) == Fetching(p) /\ DecodedStored(p) /\ GotStored(p)

Inv == Types /\ Cache /\ (\A p \in Callers : TreeInv(p) /\ CallerInv(p))

-----------------------------------------------------------------------------
\* What is known of the composition.
LEMMA GraphFacts ==
  ASSUME Types
  PROVE  /\ Root \in Comps
         /\ \A c \in Comps :
              /\ Len(graph[c].core) \in Nat /\ DOMAIN graph[c].core = 1..Len(graph[c].core)
              /\ Len(graph[c].nested) \in Nat /\ DOMAIN graph[c].nested = 1..Len(graph[c].nested)
         /\ \A c \in Comps : \A i \in DOMAIN graph[c].nested : graph[c].nested[i].comp \in Comps \ {Root}
         /\ \A c, d \in Comps : \A i \in DOMAIN graph[c].nested : \A j \in DOMAIN graph[d].nested :
              graph[c].nested[i].comp = graph[d].nested[j].comp => c = d /\ i = j
         /\ \A c \in Comps : \A k \in DOMAIN graph[c].core :
              /\ DOMAIN graph[c].core[k].args \subseteq Names
              /\ graph[c].core[k].aliases # {} \/ graph[c].core[k].canons # {} =>
                   DOMAIN graph[c].core[k].args = {}
<1>1. graph \in Graphs
  BY DEF Types
<1> QED
  BY <1>1, InstantiationAssumption DEF IsSlice

\* Each component instance has one place.
LEMMA OnePlace ==
  ASSUME Types, NEW c \in Comps, NEW d \in Comps,
         NEW i \in DOMAIN graph[c].nested, NEW j \in DOMAIN graph[d].nested,
         graph[c].nested[i].comp = graph[d].nested[j].comp
  PROVE  c = d /\ i = j
BY GraphFacts

-----------------------------------------------------------------------------
(* Trees of sub-instances. *)

Below(s, c) ==
  {d \in Comps : \A S \in SUBSET Comps : c \in S /\ (\A e \in S : s[e] \subseteq S) => d \in S}

\* A component's tree: it, what it nests, and no more (Instance.Close walks subInstances).
LEMMA BelowFacts ==
  ASSUME NEW s \in [Comps -> SUBSET Comps], NEW c \in Comps
  PROVE  /\ Below(s, c) \subseteq Comps /\ c \in Below(s, c)
         /\ \A e \in Below(s, c) : s[e] \subseteq Below(s, c)
         /\ \A S \in SUBSET Comps :
              c \in S /\ (\A e \in S : s[e] \subseteq S) => Below(s, c) \subseteq S
         /\ s[c] = {} => Below(s, c) = {c}
<1>1. Below(s, c) \subseteq Comps /\ c \in Below(s, c)
  BY DEF Below
<1>2. ASSUME NEW e \in Below(s, c), NEW d \in s[e] PROVE d \in Below(s, c)
  <2>1. d \in Comps
    BY <1>1
  <2>2. ASSUME NEW S \in SUBSET Comps, c \in S, \A x \in S : s[x] \subseteq S PROVE d \in S
    <3>1. e \in S
      BY <2>2 DEF Below
    <3> QED
      BY <2>2, <3>1
  <2> QED
    BY <2>1, <2>2 DEF Below
<1>3. \A S \in SUBSET Comps :
        c \in S /\ (\A e \in S : s[e] \subseteq S) => Below(s, c) \subseteq S
  BY DEF Below
<1>4. s[c] = {} => Below(s, c) = {c}
  <2>1. {c} \in SUBSET Comps /\ c \in {c}
    OBVIOUS
  <2>2. s[c] = {} => Below(s, c) \subseteq {c}
    BY <2>1, <1>3
  <2> QED
    BY <1>1, <2>2
<1> QED
  BY <1>1, <1>2, <1>3, <1>4

Roots(p) ==
  {frames[p][i].comp : i \in DOMAIN frames[p]} \cup (IF phase[p] = "ready" THEN {Root} ELSE {})

LiveOf(s, R) == UNION {Below(s, c) : c \in R}

\* What is live depends on the sub-instances and the calls under way alone.
LEMMA LiveIs ==
  ASSUME NEW p \in Callers
  PROVE  /\ Live(p) = LiveOf(subs[p], Roots(p))
         /\ Live(p)' = LiveOf(subs'[p], Roots(p)')
BY DEF Live, LiveOf, Tree, Below, Roots

\* What is live is closed under sub-instances, and the least such set.
LEMMA LiveFacts ==
  ASSUME NEW s \in [Comps -> SUBSET Comps], NEW R \in SUBSET Comps
  PROVE  /\ LiveOf(s, R) \subseteq Comps /\ R \subseteq LiveOf(s, R)
         /\ \A e \in LiveOf(s, R) : s[e] \subseteq LiveOf(s, R)
         /\ \A S \in SUBSET Comps :
              R \subseteq S /\ (\A e \in S : s[e] \subseteq S) => LiveOf(s, R) \subseteq S
<1>1. LiveOf(s, R) \subseteq Comps /\ R \subseteq LiveOf(s, R)
  BY BelowFacts DEF LiveOf
<1>2. \A e \in LiveOf(s, R) : s[e] \subseteq LiveOf(s, R)
  BY BelowFacts DEF LiveOf
<1>3. \A S \in SUBSET Comps :
        R \subseteq S /\ (\A e \in S : s[e] \subseteq S) => LiveOf(s, R) \subseteq S
  BY BelowFacts DEF LiveOf
<1> QED
  BY <1>1, <1>2, <1>3

\* What is live stays live when sub-instances are added and every root is kept.
LEMMA LiveGrows ==
  ASSUME NEW s \in [Comps -> SUBSET Comps], NEW t \in [Comps -> SUBSET Comps],
         NEW R \in SUBSET Comps, NEW Q \in SUBSET Comps,
         \A e \in Comps : s[e] \subseteq t[e], R \subseteq LiveOf(t, Q)
  PROVE  LiveOf(s, R) \subseteq LiveOf(t, Q)
<1>1. \A e \in LiveOf(t, Q) : s[e] \subseteq LiveOf(t, Q)
  BY LiveFacts
<1> QED
  BY <1>1, LiveFacts

\* The calls under way are for components of the composition.
LEMMA RootsTyped ==
  ASSUME Types, NEW p \in Callers
  PROVE  Roots(p) \in SUBSET Comps /\ subs[p] \in [Comps -> SUBSET Comps]
<1>1. Root \in Comps
  BY InstantiationAssumption
<1>2. \A i \in DOMAIN frames[p] : frames[p][i] \in FrameSet
  BY DEF Types
<1>3. \A i \in DOMAIN frames[p] : frames[p][i].comp \in Comps
  BY <1>2 DEF FrameSet
<1> QED
  BY <1>1, <1>3 DEF Types, Roots

\* The frame on top.
LEMMA TopFacts ==
  ASSUME Types, NEW p \in Callers, Stack(p), phase[p] = "building"
  PROVE  /\ Len(frames[p]) \in Nat \ {0} /\ Len(frames[p]) \in DOMAIN frames[p]
         /\ DOMAIN frames[p] = 1..Len(frames[p])
         /\ Top(p) = frames[p][Len(frames[p])] /\ Top(p) \in FrameSet
         /\ Top(p).comp \in Roots(p) /\ Top(p).comp \in Live(p)
<1>1. frames[p] \in Seq(FrameSet) /\ frames[p] # <<>>
  BY DEF Types, Stack
<1>2. Len(frames[p]) \in Nat \ {0} /\ DOMAIN frames[p] = 1..Len(frames[p])
  BY <1>1
<1>3. Top(p) = frames[p][Len(frames[p])] /\ Top(p) \in FrameSet
  BY <1>1, <1>2 DEF Top
<1>4. Top(p).comp \in Roots(p)
  BY <1>2, <1>3 DEF Roots
<1>5. Top(p).comp \in Live(p)
  BY <1>4, LiveIs, LiveFacts, RootsTyped
<1> QED
  BY <1>2, <1>3, <1>4, <1>5

-----------------------------------------------------------------------------
(* Callers that take no step. *)

SameTree(q) ==
  /\ phase'[q] = phase[q] /\ frames'[q] = frames[q] /\ keyToInst'[q] = keyToInst[q]
  /\ links'[q] = links[q] /\ mods'[q] = mods[q] /\ closers'[q] = closers[q]
  /\ subs'[q] = subs[q] /\ held'[q] = held[q]

\* A caller whose tree is left alone keeps what is said of it.
LEMMA Aside ==
  ASSUME NEW q \in Callers, graph' = graph, SameTree(q), TreeInv(q)
  PROVE  TreeInv(q)'
<1>1. Live(q)' = Live(q)
  BY DEF SameTree, Live, Tree
<1>2. Stack(q)'
  <2>1. \A f : SoFar(q, f)' <=> SoFar(q, f)
    BY DEF SameTree, SoFar, NoSubs
  <2>2. \A f, above : Waits(q, f, above)' <=> Waits(q, f, above)
    BY DEF Waits
  <2> QED
    BY <2>1, <2>2 DEF SameTree, TreeInv, Stack
<1>3. Placed(q)'
  BY DEF SameTree, TreeInv, Placed
<1>4. Fresh(q)' /\ Owned(q)'
  BY <1>1 DEF SameTree, TreeInv, Fresh, Owned
<1>5. Registered(q)'
  BY DEF SameTree, TreeInv, Registered, CoreKey
<1>6. Linked(q)'
  BY DEF SameTree, TreeInv, Linked, Written
<1> QED
  BY <1>2, <1>3, <1>4, <1>5, <1>6 DEF TreeInv

-----------------------------------------------------------------------------
(* Steps that make modules and sub-instances. *)

\* A step on the way keeps what is owned in view.
LEMMA OwnedGrows ==
  ASSUME NEW p \in Callers, Owned(p), phase[p] # "released", phase'[p] # "released",
         Live(p) \subseteq Live(p)', NEW c \in Live(p)', NEW new,
         \A d \in Live(p) : closers[p][d] \subseteq closers'[p][d],
         mods'[p] \subseteq mods[p] \cup new, new \subseteq closers'[p][c],
         held'[p] \subseteq held[p] \cup {c}
  PROVE  Owned(p)'
<1>1. held'[p] \subseteq Live(p)'
  BY DEF Owned
<1>2. mods'[p] \subseteq UNION {closers'[p][d] : d \in Live(p)'}
  <2>1. mods[p] \subseteq UNION {closers[p][d] : d \in Live(p)}
    BY DEF Owned
  <2>2. new \subseteq UNION {closers'[p][d] : d \in Live(p)'}
    OBVIOUS
  <2> QED
    BY <2>1, <2>2
<1> QED
  BY <1>1, <1>2 DEF Owned

Moved(p, pc, k) == [Top(p) EXCEPT !.pc = pc, !.k = k]

\* The program counter of the frame on top moves on.
LEMMA Onward ==
  ASSUME Types, NEW p \in Callers, TreeInv(p), graph' = graph, phase[p] = "building",
         phase' = phase, subs' = subs, NEW pc \in Labels, NEW k \in Nat \ {0},
         frames' = Goto(p, pc, k), SoFar(p, Moved(p, pc, k))
  PROVE  Stack(p)' /\ Live(p)' = Live(p) /\ frames' \in [Callers -> Seq(FrameSet)]
<1> DEFINE n == Len(frames[p])
           new == Moved(p, pc, k)
<1>1. /\ n \in Nat \ {0} /\ DOMAIN frames[p] = 1..n /\ frames[p] \in Seq(FrameSet)
      /\ Top(p) = frames[p][n] /\ Top(p) \in FrameSet
  BY TopFacts DEF TreeInv, Types
<1>2. new \in FrameSet /\ new.comp = Top(p).comp
  BY <1>1 DEF FrameSet, Moved
<1>3. frames'[p] = [frames[p] EXCEPT ![n] = new]
  <2>1. frames' = [frames EXCEPT ![p] = [frames[p] EXCEPT ![n] = [frames[p][n] EXCEPT !.pc = pc, !.k = k]]]
    BY DEF Goto
  <2>2. frames' = [frames EXCEPT ![p] = [frames[p] EXCEPT ![n] = new]]
    BY <2>1, <1>1 DEF Moved
  <2> QED
    BY <2>2 DEF Types
<1> HIDE DEF new
<1>4. /\ frames'[p] \in Seq(FrameSet) /\ DOMAIN frames'[p] = 1..n /\ Len(frames'[p]) = n
      /\ frames'[p][n] = new /\ \A i \in 1..n : i # n => frames'[p][i] = frames[p][i]
  BY <1>1, <1>2, <1>3
<1>5. \A i \in 1..n : frames'[p][i].comp = frames[p][i].comp
  BY <1>1, <1>2, <1>4
<1>6. frames' \in [Callers -> Seq(FrameSet)]
  BY <1>3, <1>4 DEF Goto, Types
<1>7. Roots(p)' = Roots(p)
  BY <1>1, <1>4, <1>5 DEF Roots
<1>8. Live(p)' = Live(p)
  BY <1>7, LiveIs
<1>9. Stack(p)'
  <2>1. phase'[p] = "building" /\ frames'[p] # <<>>
    BY <1>1, <1>4
  <2>2. frames'[p][1].comp = Root
    BY <1>1, <1>4, <1>5 DEF TreeInv, Stack
  <2>3. ASSUME NEW i \in 1..n
        PROVE  i + 1 \in 1..n => Waits(p, frames[p][i], frames[p][i + 1])'
    <3>1. i + 1 \in 1..n => frames'[p][i] = frames[p][i] /\ frames'[p][i + 1].comp = frames[p][i + 1].comp
      BY <1>1, <1>4, <1>5
    <3>2. i + 1 \in 1..n => Waits(p, frames[p][i], frames[p][i + 1])
      BY <1>1 DEF TreeInv, Stack
    <3> QED
      BY <3>1, <3>2 DEF Waits
  <2>4. ASSUME NEW i \in 1..n PROVE SoFar(p, frames[p][i])'
    <3>1. CASE i = n
      <4>1. SoFar(p, new)
        BY DEF new
      <4> QED
        BY <3>1, <4>1, <1>4 DEF SoFar, NoSubs
    <3>2. CASE i # n
      <4>1. SoFar(p, frames[p][i]) /\ frames'[p][i] = frames[p][i]
        BY <3>2, <1>1, <1>4 DEF TreeInv, Stack
      <4> QED
        BY <4>1 DEF SoFar, NoSubs
    <3> QED
      BY <3>1, <3>2
  <2>5. \A i, j \in 1..n : frames'[p][i].comp = frames'[p][j].comp => i = j
    BY <1>1, <1>5 DEF TreeInv, Stack
  <2> QED
    BY <2>1, <2>2, <2>3, <2>4, <2>5, <1>4 DEF Stack
<1> QED
  BY <1>6, <1>8, <1>9

\* The others' trees are left alone.
Others(p) == \A q \in Callers \ {p} : SameTree(q)

\* Module, key and link of a core instance that is made.
LEMMA FallbackIsNoIdentity ==
  ASSUME Types, NEW c \in Comps, NEW k, NEW j
  PROVE  FallbackKey(c, k) # CoreKey(j)
<1>1. CASE Consumers(c, k) = {}
  BY <1>1 DEF FallbackKey, UnreferencedKey, CoreKey
<1>2. CASE Consumers(c, k) # {}
  <2> DEFINE U == Consumers(c, k)
             J == {u[1] : u \in U}
  <2>1. \A u \in U : u[1] \in Nat /\ u[2] \in Names /\ u[2][2] \in Nat
    <3>1. \A u \in U : u[1] \in DOMAIN graph[c].core /\ u[2] \in Names
      BY DEF Consumers
    <3>2. \A n \in Names : n[2] \in Nat
      BY InstantiationAssumption
    <3>3. DOMAIN graph[c].core \subseteq Nat
      BY GraphFacts
    <3> QED
      BY <3>1, <3>2, <3>3
  <2> HIDE DEF U
  <2>2. PICK j0 \in J : \A j1 \in J : j0 <= j1
    <3>1. J \in SUBSET Nat /\ J # {}
      BY <1>2, <2>1 DEF U
    <3> QED
      BY <3>1, LeastNat
  <2> DEFINE N == {u[2][2] : u \in {v \in U : v[1] = j0}}
  <2>3. PICK n0 \in N : \A n1 \in N : n0 <= n1
    <3>1. N \in SUBSET Nat /\ N # {}
      BY <2>1, <2>2
    <3> HIDE DEF N
    <3> QED
      BY <3>1, LeastNat
  <2>4. PICK u0 \in U : u0[1] = j0 /\ u0[2][2] = n0
    BY <2>3
  <2>5. \A v \in U : Earlier(u0, v)
    <3> SUFFICES ASSUME NEW v \in U PROVE Earlier(u0, v)
      OBVIOUS
    <3>1. j0 <= v[1] /\ v[1] \in Nat /\ j0 \in Nat
      BY <2>1, <2>2, <2>4
    <3>2. v[1] = j0 => n0 <= v[2][2]
      BY <2>3
    <3> QED
      BY <3>1, <3>2, <2>4 DEF Earlier
  <2> DEFINE w == CHOOSE u \in U : \A v \in U : Earlier(u, v)
  <2>6. w \in U
    BY <2>5
  <2>7. FallbackKey(c, k) = ImportName(w[2])
    BY <1>2 DEF FallbackKey, U
  <2> HIDE DEF w
  <2>8. w[2] \in Names
    BY <2>1, <2>6
  <2>9. ImportName(w[2]) \in Names \cup {EmptyKey}
    BY <2>8 DEF ImportName
  <2> QED
    BY <2>7, <2>9, InstantiationAssumption DEF EmptyKey, CoreKey
<1> QED
  BY <1>1, <1>2

\* What the resolver has of the core instances stays while modules are added.
LEMMA RegisteredKept ==
  ASSUME NEW p \in Callers, Registered(p),
         \A c \in Comps : \A k : <<c, "core", k>> \in mods'[p] => <<c, "core", k>> \in mods[p],
         keyToInst'[p] = keyToInst[p]
  PROVE  Registered(p)'
BY DEF Registered, CoreKey

\* Links that are made stay right: the composition is given.
LEMMA LinkedKept ==
  ASSUME NEW p \in Callers, Linked(p), graph' = graph, links'[p] = links[p]
  PROVE  Linked(p)'
BY DEF Linked, Written

\* Sub-instances stay where the component has them.
LEMMA PlacedKept ==
  ASSUME NEW p \in Callers, Placed(p), graph' = graph, subs'[p] = subs[p]
  PROVE  Placed(p)'
BY DEF Placed

\* Nothing outside what is live gets sub-instances while both stay as they are.
LEMMA FreshKept ==
  ASSUME NEW p \in Callers, Fresh(p), subs'[p] = subs[p], Live(p)' = Live(p),
         phase'[p] = phase[p]
  PROVE  Fresh(p)'
BY DEF Fresh

\* The frames stay as they are.
LEMMA StackKept ==
  ASSUME NEW p \in Callers, Stack(p), graph' = graph, subs'[p] = subs[p],
         frames'[p] = frames[p], phase'[p] = phase[p]
  PROVE  Stack(p)' /\ Live(p)' = Live(p)
<1>1. \A f : SoFar(p, f)' <=> SoFar(p, f)
  BY DEF SoFar, NoSubs
<1>2. \A f, above : Waits(p, f, above)' <=> Waits(p, f, above)
  BY DEF Waits
<1>3. Stack(p)'
  BY <1>1, <1>2 DEF Stack
<1>4. Live(p)' = Live(p)
  BY DEF Live, Tree
<1> QED
  BY <1>3, <1>4

TreeTypes ==
  /\ phase \in [Callers -> Phases]
  /\ frames \in [Callers -> Seq(FrameSet)]
  /\ subs \in [Callers -> [Comps -> SUBSET Comps]]
  /\ held \in [Callers -> SUBSET Comps]

\* A private host module is opened: for a group, or with its shim for a canon.
LEMMA HostStep ==
  ASSUME Types, NEW p \in Callers, TreeInv(p), graph' = graph, BuildHost(p) \/ BuildTarget(p)
  PROVE  Types' /\ TreeInv(p)' /\ Others(p)
<1>1. /\ phase[p] = "building" /\ UNCHANGED <<phase, frames, ptr, got, links, subs, held>>
      /\ \E new : Opens(p, new) /\ \A m \in new : m[2] # "core"
  <2>1. CASE BuildHost(p)
    <3>1. Opens(p, {HostMod(p)}) /\ HostMod(p)[2] = "host"
      BY <2>1 DEF BuildHost, HostMod
    <3> QED
      BY <3>1, <2>1 DEF BuildHost, MoreCore, At
  <2>2. CASE BuildTarget(p)
    <3>1. PICK t : Opens(p, {PrivMod(p, t[2]), ShimMod(p, t[2])})
      BY <2>2 DEF BuildTarget
    <3>2. PrivMod(p, t[2])[2] = "private" /\ ShimMod(p, t[2])[2] = "shim"
      BY DEF PrivMod, ShimMod
    <3> QED
      BY <3>1, <3>2, <2>2 DEF BuildTarget, Binding, At
  <2> QED
    BY <2>1, <2>2
<1>2. PICK new : Opens(p, new) /\ \A m \in new : m[2] # "core"
  BY <1>1
<1>3. Top(p).comp \in Comps /\ Top(p).comp \in Live(p)
  BY <1>1, TopFacts DEF TreeInv, FrameSet
<1>4. /\ mods' = [mods EXCEPT ![p] = mods[p] \cup new]
      /\ closers' = [closers EXCEPT ![p] = [closers[p] EXCEPT ![Top(p).comp] = closers[p][Top(p).comp] \cup new]]
  BY <1>2 DEF Opens
<1>5. /\ DOMAIN keyToInst' = Callers /\ \A q \in Callers : DOMAIN keyToInst'[q] = Comps
      /\ \A q \in Callers \ {p} : keyToInst'[q] = keyToInst[q]
      /\ \A c \in Comps :
           \/ keyToInst'[p][c] = keyToInst[p][c]
           \/ \E k : keyToInst'[p][c] = Put(keyToInst[p][c], GroupKey(k), HostMod(p))
  <2>1. CASE BuildTarget(p)
    BY <2>1 DEF BuildTarget, Types
  <2>2. CASE BuildHost(p)
    <3> DEFINE old == keyToInst[p][Top(p).comp]
               now == IF GroupKey(Top(p).k) \in DOMAIN old THEN old ELSE Put(old, GroupKey(Top(p).k), HostMod(p))
    <3>1. keyToInst' = [keyToInst EXCEPT ![p] = [keyToInst[p] EXCEPT ![Top(p).comp] = now]]
      BY <2>2 DEF BuildHost
    <3>2. now = old \/ now = Put(old, GroupKey(Top(p).k), HostMod(p))
      OBVIOUS
    <3> HIDE DEF now
    <3> QED
      BY <3>1, <3>2 DEF Types
  <2> QED
    BY <2>1, <2>2
<1>6. Types'
  BY <1>1, <1>3, <1>4, <1>5 DEF Types
<1>7. Others(p)
  BY <1>1, <1>4, <1>5 DEF Others, SameTree, Types
<1>8. Stack(p)' /\ Placed(p)' /\ Fresh(p)' /\ Linked(p)' /\ Live(p)' = Live(p)
  BY <1>1, StackKept, PlacedKept, FreshKept, LinkedKept DEF TreeInv
<1>9. Owned(p)'
  <2>1. /\ \A d \in Comps : closers[p][d] \subseteq closers'[p][d]
        /\ new \subseteq closers'[p][Top(p).comp] /\ mods'[p] \subseteq mods[p] \cup new
    BY <1>3, <1>4 DEF Types
  <2>2. Live(p) \subseteq Comps
    BY LiveIs, LiveFacts, RootsTyped
  <2> QED
    BY <2>1, <2>2, <1>1, <1>3, <1>8, OwnedGrows DEF TreeInv
<1>10. Registered(p)'
  <2> SUFFICES ASSUME NEW c \in Comps, NEW k, <<c, "core", k>> \in mods'[p]
               PROVE  CoreKey(k) \in DOMAIN keyToInst'[p][c] /\ keyToInst'[p][c][CoreKey(k)] = <<c, "core", k>>
    BY DEF Registered, CoreKey
  <2>1. <<c, "core", k>> \in mods[p]
    BY <1>2, <1>4 DEF Types
  <2>2. CoreKey(k) \in DOMAIN keyToInst[p][c] /\ keyToInst[p][c][CoreKey(k)] = <<c, "core", k>>
    BY <2>1 DEF TreeInv, Registered
  <2>3. \A j : CoreKey(k) # GroupKey(j)
    BY DEF CoreKey, GroupKey
  <2>4. ASSUME NEW f, NEW j, NEW v PROVE /\ CoreKey(k) \in DOMAIN f => CoreKey(k) \in DOMAIN Put(f, GroupKey(j), v)
                                         /\ CoreKey(k) \in DOMAIN f => Put(f, GroupKey(j), v)[CoreKey(k)] = f[CoreKey(k)]
    <3> HIDE DEF CoreKey, GroupKey
    <3> QED BY <2>3 DEF Put
  <2> QED
    BY <2>2, <2>4, <1>5
<1> QED
  BY <1>6, <1>7, <1>8, <1>9, <1>10 DEF TreeInv

\* The loop over core instances and the checks between the phases.
StepsOn(p, pc, k) ==
  /\ frames' = Goto(p, pc, k)
  /\ UNCHANGED <<phase, ptr, got, keyToInst, links, mods, closers, subs, held>>
  /\ SoFar(p, Moved(p, pc, k))

\* The innermost call goes on with its loop and has made what SoFar allows.
LEMMA StepOn ==
  ASSUME Types, NEW p \in Callers, TreeInv(p), graph' = graph, phase[p] = "building",
         NEW pc \in Labels, NEW k \in Nat \ {0}, StepsOn(p, pc, k)
  PROVE  Types' /\ TreeInv(p)' /\ Others(p)
<1> USE DEF StepsOn
<1>1. Stack(p)' /\ Live(p)' = Live(p) /\ frames' \in [Callers -> Seq(FrameSet)]
  BY Onward
<1>2. Types'
  BY <1>1 DEF Types
<1>3. \A q \in Callers \ {p} : frames'[q] = frames[q]
  BY DEF Goto, Types
<1>4. Others(p)
  BY <1>3 DEF Others, SameTree
<1>5. Placed(p)' /\ Fresh(p)' /\ Linked(p)' /\ Registered(p)'
  BY <1>1, PlacedKept, FreshKept, LinkedKept, RegisteredKept DEF TreeInv
<1>6. Owned(p)'
  BY <1>1 DEF TreeInv, Owned
<1> QED
  BY <1>1, <1>2, <1>4, <1>5, <1>6 DEF TreeInv

\* What a frame on top has made so far.
LEMMA TopSoFar ==
  ASSUME Types, NEW p \in Callers, TreeInv(p), phase[p] = "building"
  PROVE  SoFar(p, Top(p))
BY SMTT(40), TopFacts DEF TreeInv, Stack

\* A step that only moves the innermost call of instantiateGraph on.
LEMMA LoopStep ==
  ASSUME Types, NEW p \in Callers, TreeInv(p), graph' = graph,
         \/ CoreDone(p) \/ SkipNested(p) \/ NestDone(p) \/ Delegates(p) \/ DtorsChecked(p)
         \/ (\E v : Take(p, v) /\ At(p, "plan"))
  PROVE  Types' /\ TreeInv(p)' /\ Others(p)
<1>1. phase[p] = "building"
  BY DEF CoreDone, SkipNested, NestDone, Delegates, DtorsChecked, MoreNested, At
<1>2. Top(p) \in FrameSet /\ SoFar(p, Top(p))
  BY <1>1, TopFacts, TopSoFar DEF TreeInv
<1>3. ASSUME NEW pc \in Labels, NEW k \in Nat
      PROVE  Moved(p, pc, k).comp = Top(p).comp /\ Moved(p, pc, k).pc = pc /\ Moved(p, pc, k).k = k
  BY <1>2 DEF FrameSet, Moved
<1>a. Labels = {"plan", "core", "nest", "delegates", "dtors", "exports"} /\ 1 \in Nat \ {0}
  BY DEF Labels
<1>4. CASE CoreDone(p)
  <2>1. SoFar(p, Moved(p, "nest", 1))
    BY <1>2, <1>3, <1>4 DEF CoreDone, At, SoFar, NoSubs, Labels
  <2>2. StepsOn(p, "nest", 1)
    BY <1>4, <2>1 DEF CoreDone, StepsOn
  <2> QED
    BY <1>1, <1>a, <2>2, StepOn
<1>5. CASE SkipNested(p)
  <2>1. Top(p).k \in Nat \ {0} /\ Top(p).k + 1 \in Nat \ {0}
    BY <1>2 DEF FrameSet
  <2>2. \A j \in DOMAIN graph[Top(p).comp].nested : j < Top(p).k => j < Top(p).k + 1
    BY <2>1, <1>2, GraphFacts DEF FrameSet
  <2>3. SoFar(p, Moved(p, "nest", Top(p).k + 1))
    BY <1>2, <1>3, <1>5, <2>1, <2>2 DEF SkipNested, MoreNested, At, SoFar, NoSubs, Labels
  <2>4. StepsOn(p, "nest", Top(p).k + 1)
    BY <1>5, <2>3 DEF SkipNested, StepsOn
  <2> QED
    BY <1>1, <1>a, <2>1, <2>4, StepOn
<1>6. CASE NestDone(p)
  <2>1. SoFar(p, Moved(p, "delegates", 1))
    BY <1>3 DEF SoFar, NoSubs, Labels
  <2>2. StepsOn(p, "delegates", 1)
    BY <1>6, <2>1 DEF NestDone, StepsOn
  <2> QED
    BY <1>1, <1>a, <2>2, StepOn
<1>7. CASE Delegates(p)
  <2>1. SoFar(p, Moved(p, "dtors", 1))
    BY <1>3 DEF SoFar, NoSubs, Labels
  <2>2. StepsOn(p, "dtors", 1)
    BY <1>7, <2>1 DEF Delegates, StepsOn
  <2> QED
    BY <1>1, <1>a, <2>2, StepOn
<1>8. CASE DtorsChecked(p)
  <2>1. SoFar(p, Moved(p, "exports", 1))
    BY <1>3 DEF SoFar, NoSubs, Labels
  <2>2. StepsOn(p, "exports", 1)
    BY <1>8, <2>1 DEF DtorsChecked, StepsOn
  <2> QED
    BY <1>1, <1>a, <2>2, StepOn
<1>9. CASE \E v : Take(p, v) /\ At(p, "plan")
  <2>1. SoFar(p, Moved(p, "core", 1))
    BY <1>2, <1>3, <1>9 DEF At, SoFar, NoSubs, Labels
  <2>2. frames' = Goto(p, "core", 1) /\ UNCHANGED <<phase, ptr, got, keyToInst, links, mods, closers, subs, held>>
    BY <1>9 DEF Take, At
  <2>3. StepsOn(p, "core", 1)
    BY <2>1, <2>2 DEF StepsOn
  <2> QED
    BY <1>1, <1>a, <2>3, StepOn
<1> QED
  BY <1>4, <1>5, <1>6, <1>7, <1>8, <1>9

\* The call for a component instance that is needed begins: its component has no
\* other place, so nothing of it has been made.
LEMMA NestStep ==
  ASSUME Types, NEW p \in Callers, TreeInv(p), graph' = graph, Nest(p)
  PROVE  Types' /\ TreeInv(p)' /\ Others(p)
<1> DEFINE n == Len(frames[p])
           c == Top(p).comp
           e == Nested(p).comp
           new == Frame(e)
<1>1. phase[p] = "building" /\ Top(p).pc = "nest" /\ Top(p).k <= Len(graph[c].nested)
  BY DEF Nest, MoreNested, At, Comp
<1>2. /\ n \in Nat \ {0} /\ DOMAIN frames[p] = 1..n /\ frames[p] \in Seq(FrameSet) /\ n \in 1..n
      /\ Top(p) = frames[p][n] /\ Top(p) \in FrameSet /\ c \in Comps /\ c \in Live(p)
  BY <1>1, TopFacts DEF TreeInv, Types, FrameSet
<1>3. Top(p).k \in DOMAIN graph[c].nested /\ e = graph[c].nested[Top(p).k].comp
  BY <1>1, <1>2, GraphFacts DEF FrameSet, Nested, Comp
<1>4. e \in Comps \ {Root} /\ new \in FrameSet /\ new.comp = e /\ new.pc = "plan"
  <2>1. e \in Comps \ {Root}
    BY <1>2, <1>3, GraphFacts
  <2>2. new = [comp |-> e, pc |-> "plan", k |-> 1] /\ 1 \in Nat \ {0} /\ "plan" \in Labels
    BY DEF Frame, Labels
  <2> HIDE DEF e, new
  <2> QED
    BY <2>1, <2>2 DEF FrameSet
<1>5. frames' = [frames EXCEPT ![p] = Append(frames[p], new)]
  BY DEF Nest
<1> HIDE DEF new, e
<1>6. /\ frames'[p] \in Seq(FrameSet) /\ DOMAIN frames'[p] = 1..(n + 1) /\ Len(frames'[p]) = n + 1
      /\ frames'[p][n + 1] = new /\ \A i \in 1..n : frames'[p][i] = frames[p][i]
  BY <1>2, <1>4, <1>5 DEF Types
<1>7. ASSUME NEW d \in Comps, e \in subs[p][d]
      PROVE  d = c /\ \E j \in DOMAIN graph[c].nested : j < Top(p).k /\ graph[c].nested[j].comp = e
  <2>1. PICK j \in DOMAIN graph[d].nested : graph[d].nested[j].comp = e
    BY <1>7 DEF TreeInv, Placed
  <2>2. d = c
    <3>1. c \in Comps /\ Top(p).k \in DOMAIN graph[c].nested
      BY <1>2, <1>3
    <3>2. graph[d].nested[j].comp = graph[c].nested[Top(p).k].comp
      BY <1>3, <2>1
    <3> HIDE DEF c
    <3> QED
      BY <2>1, <3>1, <3>2, OnePlace
  <2>3. SoFar(p, Top(p))
    BY <1>1, TopSoFar
  <2> QED
    BY <1>1, <1>7, <2>2, <2>3 DEF SoFar
<1>8. \A d \in Comps : e \notin subs[p][d]
  <2> SUFFICES ASSUME NEW d \in Comps, e \in subs[p][d] PROVE FALSE
    OBVIOUS
  <2>1. PICK j \in DOMAIN graph[c].nested : j < Top(p).k /\ graph[c].nested[j].comp = e
    BY <1>7
  <2>2. j = Top(p).k
    <3>1. graph[c].nested[j].comp = graph[c].nested[Top(p).k].comp
      BY <1>3, <2>1
    <3> HIDE DEF c
    <3> QED
      BY <1>2, <1>3, <2>1, <3>1, OnePlace
  <2> QED
    BY <2>1, <2>2, <1>2 DEF FrameSet
<1>9. \A i \in 1..n : frames[p][i].comp # e /\ frames[p][i].comp \in Comps
  <2> SUFFICES ASSUME NEW i \in 1..n PROVE frames[p][i].comp # e /\ frames[p][i].comp \in Comps
    OBVIOUS
  <2>1. frames[p][i] \in FrameSet
    BY <1>2
  <2>2. CASE i = 1
    BY <2>1, <2>2, <1>4, <1>2 DEF TreeInv, Stack, FrameSet
  <2>3. CASE i # 1
    <3> DEFINE below == frames[p][i - 1]
    <3>1. i - 1 \in 1..n /\ (i - 1) + 1 = i /\ i - 1 # n
      BY <1>2, <2>3
    <3>2. Waits(p, below, frames[p][i]) /\ below \in FrameSet
      <4>1. \A m \in 1..n : m + 1 \in 1..n => Waits(p, frames[p][m], frames[p][m + 1])
        BY <1>2 DEF TreeInv, Stack
      <4> QED
        BY <4>1, <3>1, <1>2
    <3>3. below.comp # c
      BY <3>1, <1>2 DEF TreeInv, Stack
    <3> HIDE DEF below
    <3>4. below.comp \in Comps /\ below.k \in DOMAIN graph[below.comp].nested
          /\ frames[p][i].comp = graph[below.comp].nested[below.k].comp
      BY <3>2 DEF Waits, FrameSet
    <3> QED
      BY <3>3, <3>4, <1>2, <1>3, <2>1, GraphFacts DEF FrameSet
  <2> QED
    BY <2>2, <2>3
<1>10. e \notin Live(p) /\ subs[p][e] = {}
  <2> DEFINE S == Live(p) \ {e}
  <2>1. Roots(p) = {frames[p][i].comp : i \in 1..n} /\ Roots(p) \subseteq S
    <3>1. Roots(p) = {frames[p][i].comp : i \in 1..n}
      BY <1>1, <1>2 DEF Roots
    <3> QED
      BY <3>1, <1>9, LiveIs, LiveFacts, RootsTyped
  <2>2. S \in SUBSET Comps /\ \A d \in S : subs[p][d] \subseteq S
    BY <1>8, LiveIs, LiveFacts, RootsTyped
  <2>3. Live(p) \subseteq S
    <3> HIDE DEF S
    <3>1. LiveOf(subs[p], Roots(p)) \subseteq S
      BY <2>1, <2>2, LiveFacts, RootsTyped
    <3> QED
      BY <3>1, LiveIs
  <2> QED
    BY <2>3, <1>1, <1>4 DEF TreeInv, Fresh
<1>11. Types'
  BY <1>5, <1>6 DEF Nest, Types
<1>12. Others(p)
  BY <1>5 DEF Nest, Others, SameTree, Types
<1>13. Live(p)' = Live(p) \cup {e}
  <2>1. Roots(p)' = Roots(p) \cup {e}
    <3>1. Roots(p) = {frames[p][i].comp : i \in 1..n}
      BY <1>1, <1>2 DEF Roots
    <3>2. Roots(p)' = {frames'[p][i].comp : i \in 1..(n + 1)}
      BY <1>1, <1>6 DEF Nest, Roots
    <3>3. 1..(n + 1) = 1..n \cup {n + 1}
      BY <1>2
    <3> QED
      BY SMTT(40), <3>1, <3>2, <3>3, <1>4, <1>6
  <2>2. Below(subs[p], e) = {e}
    BY <1>4, <1>10, BelowFacts, RootsTyped
  <2>3. subs' = subs
    BY DEF Nest
  <2> QED
    BY <2>1, <2>2, <2>3, LiveIs DEF LiveOf
<1>14. Stack(p)'
  <2>1. \A i \in 1..(n + 1) : SoFar(p, frames[p][i])'
    <3> SUFFICES ASSUME NEW i \in 1..(n + 1) PROVE SoFar(p, frames[p][i])'
      OBVIOUS
    <3>1. CASE i = n + 1
      BY <3>1, <1>4, <1>6, <1>10 DEF SoFar, NoSubs, Nest
    <3>2. CASE i # n + 1
      <4>1. i \in 1..n /\ frames'[p][i] = frames[p][i]
        BY <3>2, <1>2, <1>6
      <4>2. SoFar(p, frames[p][i])
        BY <4>1, <1>2 DEF TreeInv, Stack
      <4> QED
        <5>1. subs' = subs /\ graph' = graph
          BY DEF Nest
        <5>2. \A f : SoFar(p, f) => SoFar(p, f)'
          BY <5>1 DEF SoFar, NoSubs
        <5> QED
          BY <4>1, <4>2, <5>1 DEF SoFar, NoSubs
    <3> QED
      BY <3>1, <3>2
  <2>2. ASSUME NEW i \in 1..(n + 1), i + 1 \in 1..(n + 1) PROVE Waits(p, frames[p][i], frames[p][i + 1])'
    <3>1. i \in 1..n /\ frames'[p][i] = frames[p][i]
      BY <2>2, <1>2, <1>6
    <3>2. CASE i = n
      BY <3>1, <3>2, <1>1, <1>2, <1>3, <1>4, <1>6 DEF Waits
    <3>3. CASE i # n
      <4>1. i + 1 \in 1..n
        BY <3>1, <3>3, <1>2
      <4>2. Waits(p, frames[p][i], frames[p][i + 1]) /\ frames'[p][i + 1] = frames[p][i + 1]
        BY <3>1, <4>1, <1>2, <1>6 DEF TreeInv, Stack
      <4> QED
        BY <4>2, <3>1 DEF Waits
    <3> QED
      BY <3>2, <3>3
  <2>3. \A i, j \in 1..(n + 1) : frames'[p][i].comp = frames'[p][j].comp => i = j
    <3>1. \A i \in 1..(n + 1) : i = n + 1 \/ i \in 1..n
      BY <1>2
    <3>2. \A i, j \in 1..n : frames[p][i].comp = frames[p][j].comp => i = j
      BY <1>2 DEF TreeInv, Stack
    <3> QED
      BY <3>1, <3>2, <1>4, <1>6, <1>9
  <2>4. frames'[p][1].comp = Root /\ phase'[p] = "building" /\ frames'[p] # <<>>
    BY <1>1, <1>2, <1>6 DEF TreeInv, Stack, Nest
  <2> QED
    BY <2>1, <2>2, <2>3, <2>4, <1>6 DEF Stack
<1>15. Placed(p)' /\ Linked(p)' /\ Registered(p)'
  BY PlacedKept, LinkedKept, RegisteredKept DEF TreeInv, Nest
<1>16. Fresh(p)' /\ Owned(p)'
  BY <1>1, <1>13 DEF Nest, TreeInv, Fresh, Owned
<1> QED
  BY <1>11, <1>12, <1>14, <1>15, <1>16 DEF TreeInv

\* A core module, or the shim that regroups items, is instantiated.
LEMMA CoreStep ==
  ASSUME Types, NEW p \in Callers, TreeInv(p), graph' = graph, CoreInstance(p)
  PROVE  Types' /\ TreeInv(p)' /\ Others(p)
<1> DEFINE c == Top(p).comp
           k == Top(p).k
           m == CoreMod(p, k)
           keys == keyToInst[p][c]
           now == Put(Put(keys, CoreKey(k), m), FallbackKey(c, k), m)
           started == IF Core(p).starts THEN {c} ELSE {}
<1>1. phase[p] = "building" /\ Top(p).pc = "core" /\ k <= Len(graph[c].core)
  BY DEF CoreInstance, MoreCore, At, Comp
<1>2. Top(p) \in FrameSet /\ c \in Comps /\ c \in Live(p) /\ k \in Nat \ {0}
  BY <1>1, TopFacts DEF TreeInv, FrameSet
<1>3. m = <<c, "core", k>>
  BY DEF CoreMod
<1>4. /\ mods' = [mods EXCEPT ![p] = mods[p] \cup {m}]
      /\ closers' = [closers EXCEPT ![p] = [closers[p] EXCEPT ![c] = closers[p][c] \cup {m}]]
      /\ keyToInst' = [keyToInst EXCEPT ![p] = [keyToInst[p] EXCEPT ![c] = now]]
      /\ links' = [links EXCEPT ![p] = links[p] \cup LinksOf(p)]
      /\ held' = [held EXCEPT ![p] = held[p] \cup started]
      /\ got' = [got EXCEPT ![p] = NoOne]
      /\ frames' = Goto(p, "core", k + 1)
      /\ UNCHANGED <<phase, ptr, subs>>
  BY DEF CoreInstance, Opens
<1>5. started \subseteq {c}
  OBVIOUS
<1> HIDE DEF started, now, m, keys
<1>6. Stack(p)' /\ Live(p)' = Live(p) /\ frames' \in [Callers -> Seq(FrameSet)]
  <2>1. SoFar(p, Top(p))
    BY <1>1, TopSoFar
  <2>2. k + 1 \in Nat \ {0} /\ "core" \in Labels
    BY <1>2 DEF Labels
  <2>3. Moved(p, "core", k + 1).comp = c /\ Moved(p, "core", k + 1).pc = "core"
    BY <1>2 DEF Moved, FrameSet
  <2>4. SoFar(p, Moved(p, "core", k + 1))
    BY <1>1, <2>1, <2>3 DEF SoFar, NoSubs
  <2>5. phase' = phase /\ subs' = subs /\ frames' = Goto(p, "core", k + 1)
    BY <1>4
  <2> HIDE DEF k
  <2> QED
    BY <1>1, <2>2, <2>4, <2>5, Onward
<1>7. Types'
  BY <1>2, <1>4, <1>5, <1>6 DEF Types
<1>8. Others(p)
  BY <1>4 DEF Others, SameTree, Types, Goto
<1>9. Placed(p)' /\ Fresh(p)'
  BY <1>4, <1>6, PlacedKept, FreshKept DEF TreeInv
<1>10. Owned(p)'
  <2>1. /\ \A d \in Comps : closers[p][d] \subseteq closers'[p][d]
        /\ {m} \subseteq closers'[p][c] /\ mods'[p] \subseteq mods[p] \cup {m}
        /\ held'[p] \subseteq held[p] \cup {c}
    BY <1>2, <1>4, <1>5 DEF Types
  <2>2. Live(p) \subseteq Comps
    BY LiveIs, LiveFacts, RootsTyped
  <2>3. phase[p] # "released" /\ phase'[p] # "released" /\ c \in Live(p)'
    BY <1>1, <1>2, <1>4, <1>6
  <2> QED
    BY <2>1, <2>2, <2>3, <1>6, OwnedGrows DEF TreeInv
<1>11. Registered(p)'
  <2> SUFFICES ASSUME NEW d \in Comps, NEW j, <<d, "core", j>> \in mods'[p]
               PROVE  /\ CoreKey(j) \in DOMAIN keyToInst'[p][d]
                      /\ keyToInst'[p][d][CoreKey(j)] = <<d, "core", j>>
    BY DEF Registered, CoreKey
  <2>1. <<d, "core", j>> \in mods[p] \/ (d = c /\ j = k)
    BY <1>3, <1>4 DEF Types
  <2>2. <<d, "core", j>> \in mods[p] =>
          CoreKey(j) \in DOMAIN keyToInst[p][d] /\ keyToInst[p][d][CoreKey(j)] = <<d, "core", j>>
    BY DEF TreeInv, Registered
  <2>3. keyToInst'[p][d] = IF d = c THEN now ELSE keyToInst[p][d]
    BY <1>2, <1>4 DEF Types
  <2>4. CoreKey(j) # FallbackKey(c, k)
    BY <1>2, FallbackIsNoIdentity
  <2>5. CoreKey(j) = CoreKey(k) <=> j = k
    BY DEF CoreKey
  <2>6. /\ CoreKey(j) \in DOMAIN now <=> CoreKey(j) \in DOMAIN keys \cup {CoreKey(k)}
        /\ CoreKey(j) \in DOMAIN now => now[CoreKey(j)] = IF j = k THEN m ELSE keys[CoreKey(j)]
    <3> HIDE DEF CoreKey, FallbackKey
    <3> QED
      BY <2>4, <2>5 DEF now, Put
  <2>7. keys = keyToInst[p][c]
    BY DEF keys
  <2>8. CASE d # c
    BY <2>1, <2>2, <2>3, <2>8
  <2>9. CASE d = c /\ j = k
    BY <1>3, <2>3, <2>5, <2>6, <2>9
  <2>10. CASE d = c /\ j # k
    BY <2>1, <2>2, <2>3, <2>5, <2>6, <2>7, <2>10
  <2> QED
    BY <2>8, <2>9, <2>10
<1>12. Linked(p)'
  <2> DEFINE args == graph[c].core[k].args
  <2>1. Core(p) = graph[c].core[k] /\ k \in DOMAIN graph[c].core
    BY <1>1, <1>2, GraphFacts DEF Core, Comp
  <2>2. /\ DOMAIN args \subseteq Names
        /\ Core(p).aliases # {} \/ Core(p).canons # {} => DOMAIN args = {}
    <3> HIDE DEF c, k
    <3> QED
      BY <1>2, <2>1, GraphFacts
  <2>3. ASSUME NEW l \in LinksOf(p) PROVE l.to = Written(l)
    <3>1. CASE \E n \in DOMAIN args : l = Link(p, n, Resolved(p, n))
      <4>1. PICK n \in DOMAIN args : l = Link(p, n, Resolved(p, n))
        BY <3>1
      <4>2. l.comp = c /\ l.core = k /\ l.name = n /\ l.to = Resolved(p, n)
        BY <4>1 DEF Link
      <4>3. Resolved(p, n) = <<c, "core", args[n]>>
        BY <2>1 DEF Resolved, NeedLocal, CoreMod
      <4>4. Written(l) = <<c, "core", args[n]>>
        BY <4>2 DEF Written
      <4> QED
        BY <4>2, <4>3, <4>4
    <3>2. CASE \E j \in Core(p).aliases : l = Link(p, CoreKey(j), GraphResolver(p, CoreKey(j)))
      <4>1. PICK j \in Core(p).aliases : l = Link(p, CoreKey(j), GraphResolver(p, CoreKey(j)))
        BY <3>2
      <4>2. l.comp = c /\ l.core = k /\ l.name = CoreKey(j) /\ l.to = GraphResolver(p, CoreKey(j))
        BY <4>1 DEF Link
      <4>3. <<c, "core", j>> \in mods[p]
        <5>1. Instantiated(p, j)
          BY DEF CoreInstance, Missing, Needs
        <5> QED
          BY <5>1 DEF Instantiated, CoreMod
      <4>4. GraphResolver(p, CoreKey(j)) = <<c, "core", j>>
        <5>1. CoreKey(j) \in DOMAIN keyToInst[p][c] /\ keyToInst[p][c][CoreKey(j)] = <<c, "core", j>>
          BY <4>3, <1>2 DEF TreeInv, Registered
        <5> QED
          BY <5>1 DEF GraphResolver, Keys
      <4>5. Written(l) = <<c, "core", j>>
        BY <2>2, <4>2 DEF Written, CoreKey
      <4> QED
        BY <4>2, <4>4, <4>5
    <3>3. CASE \E d \in Core(p).canons :
                 l = Link(p, GroupKey(k), IF Cacheable(p) THEN GraphResolver(p, GroupKey(k)) ELSE HostMod(p))
      <4>1. Core(p).canons # {}
        BY <3>3
      <4>2. l.comp = c /\ l.core = k /\ l.name = GroupKey(k) /\ l.to = HostMod(p)
        BY <3>3, <4>1 DEF Link, Cacheable, Collides
      <4>3. Written(l) = <<c, "host", k>>
        BY <2>2, <4>1, <4>2 DEF Written, GroupKey
      <4> QED
        BY <4>2, <4>3 DEF HostMod
    <3> QED
      BY <2>1, <3>1, <3>2, <3>3 DEF LinksOf
  <2>4. links'[p] = links[p] \cup LinksOf(p)
    BY <1>4 DEF Types
  <2>5. \A l \in links'[p] : l.to = Written(l)
    BY <2>3, <2>4 DEF TreeInv, Linked
  <2> QED
    BY <2>5 DEF Linked, Written
<1> QED
  BY <1>6, <1>7, <1>8, <1>9, <1>10, <1>11, <1>12 DEF TreeInv

\* The answer of the cache, a compiled module, is kept for the core instance.
LEMMA GotStep ==
  ASSUME Types, NEW p \in Callers, TreeInv(p), graph' = graph, NEW v, Take(p, v), At(p, "core")
  PROVE  Types' /\ TreeInv(p)' /\ Others(p)
<1>1. got' = [got EXCEPT ![p] = v] /\ UNCHANGED <<phase, frames, ptr, keyToInst, links, mods, closers, subs, held>>
  BY DEF Take, At
<1>2. Types' /\ Others(p)
  BY <1>1 DEF Types, Others, SameTree
<1>3. SameTree(p)
  BY <1>1 DEF SameTree
<1> QED
  BY <1>2, <1>3, Aside

\* The decoded component is there and the outermost call begins.
LEMMA BeginStep ==
  ASSUME Types, NEW p \in Callers, TreeInv(p), graph' = graph, NEW v, Take(p, v), phase[p] = "decode"
  PROVE  Types' /\ TreeInv(p)' /\ Others(p)
<1> DEFINE f == Frame(Root)
<1>1. /\ phase' = [phase EXCEPT ![p] = "building"]
      /\ ptr' = [ptr EXCEPT ![p] = v]
      /\ frames' = [frames EXCEPT ![p] = <<f>>]
      /\ UNCHANGED <<got, keyToInst, links, mods, closers, subs, held>>
  BY DEF Take, At
<1>2. f \in FrameSet /\ f.comp = Root /\ f.pc = "plan"
  <2>1. f = [comp |-> Root, pc |-> "plan", k |-> 1] /\ 1 \in Nat \ {0} /\ "plan" \in Labels
    BY DEF Frame, Labels
  <2> HIDE DEF f
  <2> QED
    BY <2>1, GraphFacts DEF FrameSet
<1> HIDE DEF f
<1>3. phase'[p] = "building" /\ frames'[p] = <<f>>
  BY <1>1 DEF Types
<1>4. DOMAIN frames'[p] = {1} /\ frames'[p][1] = f /\ frames'[p] # <<>>
  BY <1>3
<1>5. Types'
  <2>1. <<f>> \in Seq(FrameSet) /\ "building" \in Phases
    BY <1>2 DEF Phases
  <2> QED
    BY <2>1, <1>1 DEF Types
<1>6. Others(p)
  BY <1>1 DEF Others, SameTree, Types
<1>7. frames[p] = <<>> /\ Live(p) = {}
  <2>1. frames[p] = <<>>
    BY DEF TreeInv, Stack
  <2>2. Roots(p) = {}
    BY <2>1 DEF Roots
  <2> QED
    BY <2>1, <2>2, LiveIs DEF LiveOf
<1>8. \A c \in Comps : subs[p][c] = {}
  BY <1>7 DEF TreeInv, Fresh
<1>9. Stack(p)'
  <2>1. SoFar(p, f)'
    BY <1>1, <1>2, <1>8, GraphFacts DEF SoFar
  <2>2. \A i \in {1} : i + 1 \notin {1}
    OBVIOUS
  <2> QED
    BY <2>1, <2>2, <1>2, <1>3, <1>4 DEF Stack
<1>10. Placed(p)' /\ Linked(p)' /\ Registered(p)'
  BY <1>1, PlacedKept, LinkedKept, RegisteredKept DEF TreeInv
<1>11. Fresh(p)'
  BY <1>1, <1>8 DEF Fresh
<1>12. Owned(p)'
  <2>1. held[p] = {} /\ mods[p] = {}
    BY <1>7 DEF TreeInv, Owned
  <2> QED
    BY <2>1, <1>1, <1>3 DEF Owned
<1> QED
  BY <1>5, <1>6, <1>9, <1>10, <1>11, <1>12 DEF TreeInv

\* A complete instance: what instantiateGraph returns to the outer component, which
\* takes it as a sub-instance, or to the caller.
LEMMA BoundStep ==
  ASSUME Types, NEW p \in Callers, TreeInv(p), graph' = graph, NEW v, Take(p, v), At(p, "exports")
  PROVE  Types' /\ TreeInv(p)' /\ Others(p)
<1> DEFINE n == Len(frames[p])
           c == Top(p).comp
<1>1. /\ phase[p] = "building" /\ Bound(p)
      /\ UNCHANGED <<ptr, keyToInst, links, mods, closers, held>> /\ got' = got
  BY DEF Take, At
<1>2. /\ n \in Nat \ {0} /\ DOMAIN frames[p] = 1..n /\ frames[p] \in Seq(FrameSet) /\ n \in 1..n
      /\ Top(p) = frames[p][n] /\ Top(p) \in FrameSet /\ c \in Comps
  BY <1>1, TopFacts DEF TreeInv, Types, FrameSet
<1>3. Roots(p) = {frames[p][i].comp : i \in 1..n}
  BY <1>1, <1>2 DEF Roots
<1>4. Linked(p)' /\ Registered(p)'
  BY <1>1, LinkedKept, RegisteredKept DEF TreeInv
\* What is left to show once what is live is known to stay.
<1>5. ASSUME Live(p) \subseteq Live(p)', phase'[p] \in {"building", "ready"} PROVE Owned(p)'
  BY <1>1, <1>5 DEF TreeInv, Owned
<1>6. CASE n = 1
  <2>1. phase' = [phase EXCEPT ![p] = "ready"] /\ frames' = [frames EXCEPT ![p] = <<>>] /\ subs' = subs
    BY <1>1, <1>6 DEF Bound
  <2>2. phase'[p] = "ready" /\ frames'[p] = <<>>
    BY <2>1 DEF Types
  <2>3. Types' /\ Others(p)
    <3>1. "ready" \in Phases /\ <<>> \in Seq(FrameSet)
      BY DEF Phases
    <3> QED
      BY <3>1, <2>1, <1>1 DEF Types, Others, SameTree
  <2>4. Roots(p) = {Root} /\ Roots(p)' = {Root}
    <3>1. frames[p][1].comp = Root
      BY <1>2 DEF TreeInv, Stack
    <3> QED
      BY <3>1, <1>3, <1>6, <2>2 DEF Roots
  <2>5. Live(p)' = Live(p)
    BY <2>1, <2>4, LiveIs
  <2>6. Stack(p)'
    BY <2>2 DEF Stack
  <2>7. Placed(p)' /\ Fresh(p)'
    BY <2>1, <2>2, PlacedKept DEF TreeInv, Fresh
  <2> QED
    BY <1>4, <1>5, <2>2, <2>3, <2>5, <2>6, <2>7 DEF TreeInv
<1>7. CASE n # 1
  <2> DEFINE outer == frames[p][n - 1]
             now == [outer EXCEPT !.k = outer.k + 1]
             rest == SubSeq(frames[p], 1, n - 2)
  <2>1. /\ phase' = phase
        /\ subs' = [subs EXCEPT ![p] = [subs[p] EXCEPT ![outer.comp] = subs[p][outer.comp] \cup {c}]]
        /\ frames' = [frames EXCEPT ![p] = Append(rest, now)]
    BY <1>1, <1>7 DEF Bound
  <2>2. n - 1 \in 1..n /\ (n - 1) + 1 = n /\ n - 2 \in Nat /\ n - 2 <= n
    <3>1. n \in Nat \ {0} /\ n # 1
      BY <1>2, <1>7
    <3> HIDE DEF n
    <3> QED
      BY <3>1
  <2>3. outer \in FrameSet /\ Waits(p, outer, Top(p))
    <3>1. \A m \in 1..n : m + 1 \in 1..n => Waits(p, frames[p][m], frames[p][m + 1])
      BY <1>2 DEF TreeInv, Stack
    <3>2. Waits(p, frames[p][n - 1], frames[p][n])
      <4> HIDE DEF n
      <4> QED
        BY <3>1, <2>2, <1>2
    <3> QED
      BY <3>2, <2>2, <1>2
  <2> HIDE DEF outer
  <2>4. now \in FrameSet /\ now.comp = outer.comp /\ now.pc = "nest" /\ now.k = outer.k + 1
    BY <2>3 DEF FrameSet, Waits
  <2>5. rest \in Seq(FrameSet) /\ Len(rest) = n - 2 /\ \A i \in 1..(n - 2) : rest[i] = frames[p][i]
    BY <1>2, <2>2
  <2> HIDE DEF now, rest
  <2>6. /\ frames'[p] \in Seq(FrameSet) /\ DOMAIN frames'[p] = 1..(n - 1)
        /\ frames'[p][n - 1] = now /\ \A i \in 1..(n - 2) : frames'[p][i] = frames[p][i]
    <3>1. frames'[p] = Append(rest, now)
      BY <2>1 DEF Types
    <3>2. /\ Append(rest, now) \in Seq(FrameSet) /\ Len(Append(rest, now)) = (n - 2) + 1
          /\ Append(rest, now)[(n - 2) + 1] = now
          /\ \A i \in 1..(n - 2) : Append(rest, now)[i] = rest[i]
      BY <2>4, <2>5
    <3>3. (n - 2) + 1 = n - 1
      BY <1>2
    <3> QED
      BY <3>1, <3>2, <3>3, <2>5
  <2>7. outer.comp \in Comps
    BY <2>3 DEF FrameSet
  <2>8. /\ subs'[p] \in [Comps -> SUBSET Comps] /\ subs[p] \in [Comps -> SUBSET Comps]
        /\ subs'[p][outer.comp] = subs[p][outer.comp] \cup {c}
        /\ \A d \in Comps : d # outer.comp => subs'[p][d] = subs[p][d]
    BY <2>1, <2>7, <1>2 DEF Types
  <2>9. Types' /\ Others(p)
    <3>1. Types'
      BY <2>1, <2>6, <2>8, <1>1 DEF Types
    <3> QED
      BY <3>1, <2>1, <1>1 DEF Types, Others, SameTree
  <2>10. /\ \A i \in 1..(n - 1) : frames'[p][i].comp = frames[p][i].comp
         /\ \A i \in 1..(n - 1) : i \in 1..n /\ (i = n - 1 \/ i \in 1..(n - 2))
    <3>1. \A i \in 1..(n - 1) : i \in 1..n /\ (i = n - 1 \/ i \in 1..(n - 2))
      BY <1>2
    <3> QED
      BY <3>1, <2>4, <2>6 DEF outer
  <2>11. Roots(p)' = {frames[p][i].comp : i \in 1..(n - 1)} /\ Roots(p)' \subseteq Comps
    <3>1. Roots(p)' = {frames[p][i].comp : i \in 1..(n - 1)}
      BY SMTT(40), <1>1, <2>1, <2>6, <2>10 DEF Roots
    <3> QED
      BY <3>1, <2>10, <1>3, RootsTyped
  <2>12. Live(p) \subseteq Live(p)'
    <3>1. outer.comp \in Roots(p)'
      BY <2>2, <2>11, <1>2 DEF outer
    <3>2. outer.comp \in LiveOf(subs'[p], Roots(p)') /\ c \in LiveOf(subs'[p], Roots(p)')
      BY <3>1, <2>8, <2>11, LiveFacts
    <3>3. Roots(p) \subseteq LiveOf(subs'[p], Roots(p)')
      <4>1. \A i \in 1..n : i = n \/ i \in 1..(n - 1)
        BY <1>2
      <4>2. \A i \in 1..(n - 1) : frames[p][i].comp \in LiveOf(subs'[p], Roots(p)')
        BY <2>8, <2>11, LiveFacts
      <4> QED
        BY <4>1, <4>2, <3>2, <1>2, <1>3
    <3>4. \A d \in Comps : subs[p][d] \subseteq subs'[p][d]
      BY <2>8
    <3>5. LiveOf(subs[p], Roots(p)) \subseteq LiveOf(subs'[p], Roots(p)')
      BY <3>3, <3>4, <2>8, <2>11, RootsTyped, LiveGrows
    <3> QED
      BY <3>5, LiveIs
  <2>13. \A i \in 1..(n - 1) : SoFar(p, frames[p][i])'
    <3> SUFFICES ASSUME NEW i \in 1..(n - 1) PROVE SoFar(p, frames[p][i])'
      OBVIOUS
    <3>1. CASE i = n - 1
      <4>1. SoFar(p, outer)
        BY <2>2, <1>2 DEF outer, TreeInv, Stack
      <4>2. \A e \in subs[p][outer.comp] :
              \E j \in DOMAIN graph[outer.comp].nested : j < outer.k /\ graph[outer.comp].nested[j].comp = e
        BY <4>1, <2>3 DEF SoFar, Waits
      <4>3. /\ outer.k \in DOMAIN graph[outer.comp].nested /\ c = graph[outer.comp].nested[outer.k].comp
            /\ outer.k \in Nat /\ DOMAIN graph[outer.comp].nested \subseteq Nat
        BY <2>3, <2>7, GraphFacts DEF Waits, FrameSet
      <4>4. \A e \in subs'[p][outer.comp] :
              \E j \in DOMAIN graph[outer.comp].nested : j < outer.k + 1 /\ graph[outer.comp].nested[j].comp = e
        BY <4>2, <4>3, <2>8
      <4> QED
        BY <3>1, <4>4, <2>4, <2>6 DEF SoFar, NoSubs
    <3>2. CASE i # n - 1
      <4>1. i \in 1..(n - 2) /\ frames'[p][i] = frames[p][i] /\ i \in 1..n
        BY <3>2, <2>6, <2>10
      <4>2. SoFar(p, frames[p][i])
        BY <4>1, <1>2 DEF TreeInv, Stack
      <4>3. frames[p][i].comp # outer.comp
        BY <3>2, <4>1, <2>2, <1>2 DEF outer, TreeInv, Stack
      <4>4. frames[p][i].comp \in Comps
        <5>1. frames[p][i] \in FrameSet
          BY <4>1, <1>2
        <5> QED
          BY <5>1 DEF FrameSet
      <4>5. subs'[p][frames[p][i].comp] = subs[p][frames[p][i].comp]
        BY <4>3, <4>4, <2>8
      <4>6. \A f : SoFar(p, f) /\ subs'[p][f.comp] = subs[p][f.comp] => SoFar(p, f)'
        BY DEF SoFar, NoSubs
      <4> QED
        BY <4>1, <4>2, <4>5, <4>6
    <3> QED
      BY <3>1, <3>2
  <2>14. ASSUME NEW i \in 1..(n - 1), i + 1 \in 1..(n - 1)
         PROVE  Waits(p, frames[p][i], frames[p][i + 1])'
    <3>1. i \in 1..n /\ i + 1 \in 1..n /\ i \in 1..(n - 2)
      BY <1>2, <2>14
    <3>2. Waits(p, frames[p][i], frames[p][i + 1])
      BY <3>1, <1>2 DEF TreeInv, Stack
    <3>3. frames'[p][i] = frames[p][i] /\ frames'[p][i + 1].comp = frames[p][i + 1].comp
      BY <3>1, <2>6, <2>10, <2>14
    <3> QED
      BY <3>2, <3>3 DEF Waits
  <2>15. Stack(p)'
    <3>1. frames'[p][1].comp = Root /\ frames'[p] # <<>> /\ phase'[p] = "building"
      <4>1. 1 \in 1..(n - 1)
        <5>1. n \in Nat \ {0} /\ n # 1
          BY <1>2, <1>7
        <5> HIDE DEF n
        <5> QED
          BY <5>1
      <4>2. frames[p][1].comp = Root
        BY <1>1 DEF TreeInv, Stack
      <4>3. DOMAIN frames'[p] # {}
        BY <4>1, <2>6
      <4> QED
        BY <4>1, <4>2, <4>3, <2>1, <2>10, <1>1
    <3>2. \A i, j \in 1..(n - 1) : frames'[p][i].comp = frames'[p][j].comp => i = j
      BY <2>10, <1>2 DEF TreeInv, Stack
    <3> QED
      BY <3>1, <3>2, <2>6, <2>13, <2>14 DEF Stack
  <2>16. Placed(p)'
    <3>1. ASSUME NEW d \in Comps, NEW e \in subs'[p][d]
          PROVE  \E j \in DOMAIN graph[d].nested : graph[d].nested[j].comp = e
      <4>1. CASE e \in subs[p][d]
        BY <4>1 DEF TreeInv, Placed
      <4>2. CASE e \notin subs[p][d]
        <5>1. d = outer.comp /\ e = c
          BY <4>2, <3>1, <2>8
        <5> QED
          BY <5>1, <2>3 DEF Waits
      <4> QED
        BY <4>1, <4>2
    <3> QED
      BY <3>1 DEF Placed
  <2>17. Fresh(p)'
    <3>1. outer.comp \in Live(p)'
      <4>1. outer.comp \in Roots(p)'
        BY <2>2, <2>11, <1>2 DEF outer
      <4> QED
        BY <4>1, <2>8, <2>11, LiveIs, LiveFacts
    <3> QED
      BY <3>1, <2>8, <2>12, <1>1 DEF TreeInv, Fresh
  <2> QED
    BY <1>1, <1>4, <1>5, <2>1, <2>9, <2>12, <2>15, <2>16, <2>17 DEF TreeInv
<1> QED
  BY <1>6, <1>7

-----------------------------------------------------------------------------
(* Errors, Close, and a new attempt.                                       *)

\* What the frames close on the way out of an error is all that is live.
LEMMA AllUnwound ==
  ASSUME Types, NEW p \in Callers, TreeInv(p), phase[p] # "ready"
  PROVE  UNION {Unwound(p, frames[p][i]) : i \in DOMAIN frames[p]} = Live(p)
<1>1. Roots(p) = {frames[p][i].comp : i \in DOMAIN frames[p]}
  BY DEF Roots
<1>2. ASSUME NEW i \in DOMAIN frames[p] PROVE Unwound(p, frames[p][i]) = Below(subs[p], frames[p][i].comp)
  <2>1. frames[p][i].comp \in Comps /\ SoFar(p, frames[p][i])
    <3>1. frames[p][i] \in FrameSet
      BY DEF Types
    <3> QED
      BY <3>1 DEF FrameSet, TreeInv, Stack
  <2>2. CASE NoSubs(frames[p][i])
    <3>1. Below(subs[p], frames[p][i].comp) = {frames[p][i].comp}
      BY <2>1, <2>2, BelowFacts, RootsTyped DEF SoFar
    <3> QED
      BY <2>2, <3>1 DEF Unwound
  <2>3. CASE ~NoSubs(frames[p][i])
    BY <2>3 DEF Unwound, Tree, Below
  <2> QED
    BY <2>2, <2>3
<1>3. Live(p) = UNION {Below(subs[p], frames[p][i].comp) : i \in DOMAIN frames[p]}
  BY <1>1, LiveIs DEF LiveOf
<1> QED
  BY <1>2, <1>3

\* Everything live is closed; at most one private host module was opened before.
LEMMA ReleaseStep ==
  ASSUME Types, NEW p \in Callers, TreeInv(p), graph' = graph, phase[p] # "released",
         NEW extra, Release(p, Live(p), extra), \A m, n \in extra : m = n /\ m[2] = "private"
  PROVE  Types' /\ TreeInv(p)' /\ Others(p)
<1> DEFINE gone == UNION {closers[p][c] : c \in Live(p)}
<1>1. /\ mods' = [mods EXCEPT ![p] = (mods[p] \cup extra) \ gone]
      /\ held' = [held EXCEPT ![p] = held[p] \ Live(p)]
      /\ phase' = [phase EXCEPT ![p] = "released"]
      /\ frames' = [frames EXCEPT ![p] = <<>>]
      /\ got' = [got EXCEPT ![p] = NoOne]
      /\ UNCHANGED <<ptr, keyToInst, links, closers, subs>>
  BY DEF Release
<1> HIDE DEF gone
<1>2. /\ mods'[p] = (mods[p] \cup extra) \ gone /\ held'[p] = held[p] \ Live(p)
      /\ phase'[p] = "released" /\ frames'[p] = <<>>
  BY <1>1 DEF Types
<1>3. Types'
  <2>1. "released" \in Phases /\ <<>> \in Seq(FrameSet)
    BY DEF Phases
  <2> QED
    BY <1>1, <2>1 DEF Types
<1>4. Others(p)
  BY <1>1 DEF Others, SameTree, Types
<1>5. mods[p] \subseteq gone /\ held[p] \subseteq Live(p)
  BY DEF TreeInv, Owned, gone
<1>6. Owned(p)'
  BY <1>2, <1>5 DEF Owned
<1>7. Stack(p)'
  BY <1>2 DEF Stack
<1>8. Placed(p)' /\ Linked(p)' /\ Fresh(p)'
  BY <1>1, <1>2, PlacedKept, LinkedKept DEF TreeInv, Fresh
<1>9. Registered(p)'
  <2>1. \A c \in Comps : \A k : <<c, "core", k>> \in mods'[p] => <<c, "core", k>> \in mods[p]
    <3>1. \A c, k : <<c, "core", k>>[2] # "private"
      OBVIOUS
    <3>2. \A m \in extra : m[2] = "private"
      OBVIOUS
    <3> QED
      BY <1>2, <3>1, <3>2
  <2> QED
    BY <2>1, <1>1, RegisteredKept DEF TreeInv
<1> QED
  BY <1>3, <1>4, <1>6, <1>7, <1>8, <1>9 DEF TreeInv

\* A step fails, or the Instance is closed.
LEMMA LeaveStep ==
  ASSUME Types, NEW p \in Callers, TreeInv(p), graph' = graph,
         \/ Fail(p) /\ phase[p] \in {"decode", "building"}
         \/ TargetFails(p)
         \/ Close(p)
  PROVE  Types' /\ TreeInv(p)' /\ Others(p)
<1>1. CASE Fail(p) /\ phase[p] \in {"decode", "building"}
  <2>1. Release(p, Live(p), {})
    BY <1>1, AllUnwound DEF Fail, Leaves
  <2> QED
    BY <1>1, <2>1, ReleaseStep
<1>2. CASE TargetFails(p)
  <2>1. phase[p] = "building"
    BY <1>2 DEF TargetFails, Binding, At
  <2>2. PICK t : Leaves(p, {PrivMod(p, t[2])})
    BY <1>2 DEF TargetFails
  <2>3. Release(p, Live(p), {PrivMod(p, t[2])})
    BY <2>1, <2>2, AllUnwound DEF Leaves
  <2>4. \A m, n \in {PrivMod(p, t[2])} : m = n /\ m[2] = "private"
    BY DEF PrivMod
  <2> QED
    BY <2>1, <2>3, <2>4, ReleaseStep
<1>3. CASE Close(p)
  <2>1. phase[p] = "ready" /\ frames[p] = <<>>
    BY <1>3 DEF Close, TreeInv, Stack
  <2>2. Live(p) = Tree(p, Root)
    BY <2>1 DEF Live
  <2>3. Release(p, Live(p), {})
    BY <1>3, <2>2 DEF Close
  <2> QED
    BY <2>1, <2>3, ReleaseStep
<1> QED
  BY <1>1, <1>2, <1>3

\* Instantiate is called anew, when all of the last tree was released.
LEMMA AgainStep ==
  ASSUME Types, NEW p \in Callers, TreeInv(p), graph' = graph, Again(p)
  PROVE  Types' /\ TreeInv(p)' /\ Others(p)
<1>1. phase[p] = "released" /\ frames[p] = <<>> /\ held[p] = {}
  <2>1. phase[p] = "released" /\ frames[p] = <<>>
    BY DEF Again, TreeInv, Stack
  <2>2. Live(p) = {}
    BY <2>1 DEF Live
  <2> QED
    BY <2>1, <2>2 DEF TreeInv, Owned
<1>2. /\ phase' = [phase EXCEPT ![p] = "decode"]
      /\ ptr' = [ptr EXCEPT ![p] = NoOne]
      /\ keyToInst' = [keyToInst EXCEPT ![p] = [c \in Comps |-> <<>>]]
      /\ links' = [links EXCEPT ![p] = {}]
      /\ mods' = [mods EXCEPT ![p] = {}]
      /\ closers' = [closers EXCEPT ![p] = [c \in Comps |-> {}]]
      /\ subs' = [subs EXCEPT ![p] = [c \in Comps |-> {}]]
      /\ UNCHANGED <<frames, got, held>>
  BY DEF Again
<1>3. /\ phase'[p] = "decode" /\ links'[p] = {} /\ mods'[p] = {} /\ frames'[p] = <<>> /\ held'[p] = {}
      /\ subs'[p] = [c \in Comps |-> {}]
  BY <1>1, <1>2 DEF Types
<1>4. Types'
  <2>1. "decode" \in Phases /\ [c \in Comps |-> {}] \in [Comps -> SUBSET Comps]
    BY DEF Phases
  <2> QED
    BY <1>2, <2>1 DEF Types
<1>5. Others(p)
  BY <1>2 DEF Others, SameTree, Types
<1>6. TreeInv(p)'
  BY <1>3 DEF TreeInv, Stack, Placed, Fresh, Owned, Registered, Linked
<1> QED
  BY <1>4, <1>5, <1>6

-----------------------------------------------------------------------------
(* The answers of the cache.                                               *)

\* What a caller asks for, by where it is.
LEMMA WantedIs ==
  ASSUME NEW p \in Callers
  PROVE  /\ phase[p] = "decode" => Wanted(p) = DecodeKey
         /\ At(p, "plan") => Wanted(p) = <<"plan", ptr[p], Top(p).comp, 0>>
         /\ At(p, "core") => Wanted(p) = BytesOf(p)
         /\ At(p, "exports") => Wanted(p) = <<"abi", ptr[p], Top(p).comp, 0>>
<1>1. CASE phase[p] = "decode"
  <2>1. ~At(p, "plan") /\ ~At(p, "core") /\ ~At(p, "exports")
    BY <1>1 DEF At
  <2>2. Wanted(p) = <<"decode", NoOne, Root, 0>>
    BY <1>1, <2>1, Zenon DEF Wanted
  <2> QED
    BY <2>1, <2>2 DEF DecodeKey
<1>2. CASE At(p, "plan")
  <2>1. ~At(p, "core") /\ ~At(p, "exports") /\ phase[p] # "decode"
    BY <1>2 DEF At
  <2>2. Wanted(p) = <<"plan", ptr[p], Top(p).comp, 0>>
    BY <1>2, <2>1, Zenon DEF Wanted
  <2> QED
    BY <2>1, <2>2
<1>3. CASE At(p, "core")
  <2>1. ~At(p, "plan") /\ ~At(p, "exports") /\ phase[p] # "decode"
    BY <1>3 DEF At
  <2>2. Wanted(p) = BytesOf(p)
    BY <1>3, <2>1, Zenon DEF Wanted
  <2> QED
    BY <2>1, <2>2
<1>4. CASE At(p, "exports")
  <2>1. ~At(p, "plan") /\ ~At(p, "core") /\ phase[p] # "decode"
    BY <1>4 DEF At
  <2>2. Wanted(p) = <<"abi", ptr[p], Top(p).comp, 0>>
    BY <1>4, <2>1, Zenon DEF Wanted
  <2> QED
    BY <2>1, <2>2
<1> QED
  BY <1>1, <1>2, <1>3, <1>4

\* A caller's own steps, those of its look-ups, and those that leave its tree alone.
TreeMoves(p) ==
  \/ Builds(p)
  \/ \E v : Take(p, v)
  \/ Fail(p) /\ phase[p] \in {"decode", "building"}

\* Every step of a caller's tree keeps what is said of it, and leaves the others' trees alone.
LEMMA TreeStep ==
  ASSUME Types, NEW p \in Callers, TreeInv(p), graph' = graph, TreeMoves(p)
  PROVE  Types' /\ TreeInv(p)' /\ Others(p)
<1>1. CASE BuildHost(p) \/ BuildTarget(p)
  BY <1>1, HostStep
<1>2. CASE CoreInstance(p)
  BY <1>2, CoreStep
<1>3. CASE CoreDone(p) \/ SkipNested(p) \/ NestDone(p) \/ Delegates(p) \/ DtorsChecked(p)
  BY <1>3, LoopStep
<1>4. CASE Nest(p)
  BY <1>4, NestStep
<1>5. CASE TargetFails(p) \/ StepFails(p) \/ Close(p)
  BY <1>5, LeaveStep DEF StepFails
<1>6. CASE Again(p)
  BY <1>6, AgainStep
<1>7. CASE \E v : Take(p, v)
  <2>1. PICK v : Take(p, v)
    BY <1>7
  <2>2. phase[p] = "decode" \/ At(p, "plan") \/ At(p, "core") \/ At(p, "exports")
    BY <2>1 DEF Take
  <2> QED
    BY <2>1, <2>2, LoopStep, GotStep, BeginStep, BoundStep
<1>8. CASE Fail(p) /\ phase[p] \in {"decode", "building"}
  BY <1>8, LeaveStep
<1> QED
  BY <1>1, <1>2, <1>3, <1>4, <1>5, <1>6, <1>7, <1>8 DEF TreeMoves, Builds

\* A caller looks up while it decodes or builds.
LEMMA FetchesWhere ==
  ASSUME NEW p \in Callers
  PROVE  Fetches(p) \/ AtFetch(p) => phase[p] \in {"decode", "building"}
BY DEF Fetches, AtFetch, At, MoreCore

\* Every step is one of a caller's tree, or leaves all trees alone.
LEMMA StepKinds ==
  ASSUME Types, \A p \in Callers : CallerInv(p), [Next]_vars
  PROVE  graph' = graph /\ (UNCHANGED treeVars \/ \E p \in Callers : TreeMoves(p))
<1>1. CASE UNCHANGED vars
  BY <1>1 DEF vars
<1>2. CASE CloseCache /\ UNCHANGED <<graph, treeVars>>
  BY <1>2
<1>3. ASSUME NEW p \in Callers, reading[p] = NoKey, Builds(p), UNCHANGED <<cacheVars, graph>>
      PROVE  graph' = graph /\ TreeMoves(p)
  BY <1>3 DEF TreeMoves
<1>4. ASSUME NEW p \in Callers, FetchHit(p) \/ FetchStore(p)
      PROVE  graph' = graph /\ TreeMoves(p)
  BY <1>4 DEF TreeMoves, FetchHit, FetchStore
<1>5. ASSUME NEW p \in Callers, FetchMiss(p)
      PROVE  graph' = graph /\ UNCHANGED treeVars
  BY <1>5 DEF FetchMiss
<1>6. ASSUME NEW p \in Callers, FetchClosed(p)
      PROVE  graph' = graph /\ TreeMoves(p)
  BY <1>6, FetchesWhere DEF TreeMoves, FetchClosed
<1>7. ASSUME NEW p \in Callers, FetchFails(p)
      PROVE  graph' = graph /\ TreeMoves(p)
  BY <1>7, FetchesWhere DEF TreeMoves, FetchFails, CallerInv, Fetching
<1>8. ASSUME NEW p \in Callers, Compute(p), UNCHANGED <<graph, treeVars>>
      PROVE  graph' = graph /\ UNCHANGED treeVars
  BY <1>8
<1> QED
  BY <1>1, <1>2, <1>3, <1>4, <1>5, <1>6, <1>7, <1>8 DEF Next

\* Every step keeps every tree.
LEMMA TreesKept ==
  ASSUME Inv, [Next]_vars
  PROVE  Types' /\ \A p \in Callers : TreeInv(p)'
<1>1. graph' = graph
  BY StepKinds DEF Inv
<1>2. CASE UNCHANGED treeVars
  <2>1. \A p \in Callers : SameTree(p)
    BY <1>2 DEF treeVars, SameTree
  <2> QED
    BY <1>1, <1>2, <2>1, Aside DEF Inv, Types, treeVars
<1>3. ASSUME NEW p \in Callers, TreeMoves(p) PROVE Types' /\ \A q \in Callers : TreeInv(q)'
  <2>1. Types' /\ TreeInv(p)' /\ Others(p)
    BY <1>1, <1>3, TreeStep DEF Inv
  <2>2. \A q \in Callers \ {p} : TreeInv(q)'
    BY <1>1, <2>1, Aside DEF Inv, Others
  <2> QED
    BY <2>1, <2>2
<1> QED
  BY <1>2, <1>3, StepKinds DEF Inv

-----------------------------------------------------------------------------
(* The cache.                                                              *)

Grows ==
  /\ closed' = closed
  /\ \A key \in DOMAIN stored : key \in DOMAIN stored' /\ stored'[key] = stored[key]

\* A value is stored, by the caller that computed it or by one that was faster.
LEMMA StoreStep ==
  ASSUME Cache, NEW p \in Callers, Store(p),
         reading[p][1] \in {"plan", "abi"} =>
           DecodeKey \in DOMAIN stored /\ stored[DecodeKey] = reading[p][2]
  PROVE  /\ Cache' /\ Grows /\ reading'[p] = NoKey
         /\ reading[p] \in DOMAIN stored' /\ stored'[reading[p]] = Winner(p)
<1> DEFINE key == reading[p]
           win == Winner(p)
<1>1. /\ p \in built /\ reading' = [reading EXCEPT ![p] = NoKey] /\ built' = built \ {p}
      /\ closed' = closed /\ opened' = opened \ Discarded(p)
      /\ DOMAIN stored' = DOMAIN stored \cup {key} /\ stored'[key] = win
      /\ \A x \in DOMAIN stored : x # key => stored'[x] = stored[x]
  BY DEF Store, Put
<1>2. key \in DOMAIN stored => win = stored[key]
  BY DEF Winner, Has
<1>3. key \notin DOMAIN stored => win = Own(p)
  BY DEF Winner, Has
<1>4. /\ reading'[p] = NoKey /\ \A q \in Callers \ {p} : reading'[q] = reading[q]
      /\ DOMAIN reading' = Callers
  BY <1>1 DEF Cache
<1>5. Grows
  BY <1>1, <1>2 DEF Grows
<1>6. Compiles(key) => <<key, p>> \in opened /\ Own(p) = p
  BY <1>1 DEF Cache, Compiles, Own
<1>7. Discarded(p) = IF win = Own(p) THEN {} ELSE {<<key, p>>}
  BY DEF Discarded
<1>8. ~closed
  BY <1>1 DEF Cache
<1> HIDE DEF win, key
<1>9. \A x \in DOMAIN stored' : Compiles(x) => <<x, stored'[x]>> \in opened'
  <2> SUFFICES ASSUME NEW x \in DOMAIN stored', Compiles(x) PROVE <<x, stored'[x]>> \in opened'
    OBVIOUS
  <2>1. CASE x \in DOMAIN stored
    <3>1. <<x, stored'[x]>> \in opened
      BY <1>5, <2>1 DEF Cache, Grows
    <3>2. <<x, stored'[x]>> \notin Discarded(p)
      <4>1. ASSUME win # Own(p), x = key, stored'[x] = p PROVE FALSE
        BY <1>1, <1>6, <4>1
      <4> QED
        BY <1>7, <4>1
    <3> QED
      BY <1>1, <3>1, <3>2
  <2>2. CASE x \notin DOMAIN stored
    <3>1. x = key /\ win = Own(p) /\ win = p /\ <<key, p>> \in opened
      BY <2>2, <1>1, <1>3, <1>6
    <3> QED
      BY <1>1, <1>7, <3>1
  <2> QED
    BY <2>1, <2>2
<1>10. CacheOwnsCompiled'
  <2> SUFFICES ASSUME NEW o \in opened'
               PROVE  IsStored(o)' \/ (o[2] \in built' /\ reading'[o[2]] = o[1])
    BY DEF CacheOwnsCompiled
  <2>1. o \in opened /\ o \notin Discarded(p) /\ o = <<o[1], o[2]>> /\ Compiles(o[1])
    BY <1>1 DEF Cache
  <2>2. CASE IsStored(o)
    BY <2>2, <1>5 DEF IsStored, Has, Grows
  <2>3. CASE o[2] \in built /\ reading[o[2]] = o[1] /\ o[2] # p
    BY <2>3, <1>1, <1>4 DEF Cache
  <2>4. CASE o[2] = p /\ o[1] = key
    <3>1. win = Own(p) /\ Own(p) = p
      BY <2>1, <2>4, <1>6, <1>7
    <3> QED
      BY <2>4, <3>1, <1>1 DEF IsStored, Has
  <2> QED
    BY <2>1, <2>2, <2>3, <2>4 DEF Cache, CacheOwnsCompiled, key
<1>11. KeyedByStored'
  <2> SUFFICES ASSUME NEW x \in DOMAIN stored', x[1] \in {"plan", "abi"}
               PROVE  \E d \in DOMAIN stored' : d[1] = "decode" /\ stored'[d] = x[2]
    BY DEF KeyedByStored
  <2>1. CASE x \in DOMAIN stored
    <3>1. PICK d \in DOMAIN stored : d[1] = "decode" /\ stored[d] = x[2]
      BY <2>1 DEF Cache, KeyedByStored
    <3> QED
      BY <3>1, <1>5 DEF Grows
  <2>2. CASE x = key
    <3>1. DecodeKey \in DOMAIN stored /\ stored[DecodeKey] = x[2]
      BY <2>2 DEF key
    <3> QED
      BY <3>1, <1>5 DEF Grows, DecodeKey
  <2> QED
    BY <2>1, <2>2, <1>1
<1>12. /\ built' \subseteq Callers
       /\ \A o \in opened' : Compiles(o[1]) /\ o = <<o[1], o[2]>>
       /\ \A q \in built' : reading'[q] # NoKey
       /\ closed' = FALSE
  BY <1>1, <1>4, <1>8 DEF Cache
<1>13. \A q \in built' : Compiles(reading'[q]) => <<reading'[q], q>> \in opened'
  <2> SUFFICES ASSUME NEW q \in built', Compiles(reading'[q]) PROVE <<reading'[q], q>> \in opened'
    OBVIOUS
  <2>1. q \in built /\ q # p /\ reading'[q] = reading[q]
    BY <1>1, <1>4 DEF Cache
  <2>2. <<reading[q], q>> \in opened
    BY <2>1 DEF Cache
  <2>3. <<reading[q], q>> \notin Discarded(p)
    BY <2>1, <1>7
  <2> QED
    BY <2>1, <2>2, <2>3, <1>1
<1>14. Cache'
  BY <1>4, <1>9, <1>10, <1>11, <1>12, <1>13 DEF Cache, Compiles
<1> QED
  BY <1>1, <1>4, <1>5, <1>14 DEF key, win

\* A look-up that misses holds stateMu for reading and stores nothing.
LEMMA MissStep ==
  ASSUME Cache, NEW p \in Callers, NEW key, Miss(p, key), reading[p] = NoKey
  PROVE  Cache' /\ Grows
<1>1. /\ ~closed /\ reading' = [reading EXCEPT ![p] = key]
      /\ closed' = closed /\ stored' = stored /\ built' = built /\ opened' = opened
  BY DEF Miss
<1>2. p \notin built
  BY DEF Cache
<1>3. \A q \in Callers \ {p} : reading'[q] = reading[q]
  BY <1>1 DEF Cache
<1>4. CacheOwnsCompiled' /\ KeyedByStored'
  BY <1>1, <1>2, <1>3 DEF Cache, CacheOwnsCompiled, KeyedByStored, IsStored, Has
<1>5. \A q \in built : q # p /\ reading'[q] = reading[q]
  BY <1>2, <1>3 DEF Cache
<1>6. Cache'
  BY <1>1, <1>4, <1>5 DEF Cache, Compiles
<1> QED
  BY <1>1, <1>6 DEF Grows

\* A value is computed; a compiled module is open from then on.
LEMMA ComputeStep ==
  ASSUME Cache, NEW p \in Callers, Compute(p)
  PROVE  Cache' /\ Grows
<1>1. /\ reading[p] # NoKey /\ p \notin built /\ built' = built \cup {p}
      /\ opened' = opened \cup (IF Compiles(reading[p]) THEN {<<reading[p], p>>} ELSE {})
      /\ closed' = closed /\ stored' = stored /\ reading' = reading
  BY DEF Compute
<1>2. ~closed
  BY <1>1 DEF Cache
<1>3. \A o \in opened' : o \in opened \/ (o = <<reading[p], p>> /\ Compiles(reading[p]))
  BY <1>1
<1>4. CacheOwnsCompiled' /\ KeyedByStored'
  BY <1>1, <1>3 DEF Cache, CacheOwnsCompiled, KeyedByStored, IsStored, Has
<1>5. Cache'
  BY <1>1, <1>2, <1>3, <1>4 DEF Cache, Compiles
<1> QED
  BY <1>1, <1>5 DEF Grows

\* A computation that returns an error leaves the maps alone.
LEMMA GiveUpStep ==
  ASSUME Cache, NEW p \in Callers, GivesUp(p), p \notin built
  PROVE  Cache' /\ Grows /\ reading'[p] = NoKey
<1>1. /\ reading' = [reading EXCEPT ![p] = NoKey]
      /\ closed' = closed /\ stored' = stored /\ built' = built /\ opened' = opened
  BY DEF GivesUp
<1>2. reading'[p] = NoKey /\ \A q \in Callers \ {p} : reading'[q] = reading[q]
  BY <1>1 DEF Cache
<1>3. \A q \in built : q # p /\ reading'[q] = reading[q]
  BY <1>2 DEF Cache
<1>4. CacheOwnsCompiled' /\ KeyedByStored'
  BY <1>1, <1>3 DEF Cache, CacheOwnsCompiled, KeyedByStored, IsStored, Has
<1>5. Cache'
  BY <1>1, <1>2, <1>3, <1>4 DEF Cache, Compiles
<1> QED
  BY <1>1, <1>2, <1>5 DEF Grows

\* CompileCache.Close finds nobody reading, so no compiled module is left in anybody's hands.
LEMMA CloseStep ==
  ASSUME Cache, CloseCache
  PROVE  Cache' /\ closed' /\ reading' = reading
<1>1. /\ \A p \in Callers : reading[p] = NoKey
      /\ closed' = TRUE /\ stored' = <<>> /\ opened' = {o \in opened : ~IsStored(o)}
      /\ reading' = reading /\ built' = built
  BY DEF CloseCache
<1>2. built = {}
  BY <1>1 DEF Cache
<1>3. opened' = {}
  BY <1>1, <1>2 DEF Cache, CacheOwnsCompiled
<1>4. DOMAIN stored' = {}
  BY <1>1
<1>5. CacheOwnsCompiled' /\ KeyedByStored'
  BY <1>3, <1>4 DEF CacheOwnsCompiled, KeyedByStored
<1>6. Cache'
  BY <1>1, <1>2, <1>3, <1>4, <1>5 DEF Cache
<1> QED
  BY <1>1, <1>6

-----------------------------------------------------------------------------
(* What the callers know of the cache.                                     *)

SameCaller(q) ==
  /\ phase'[q] = phase[q] /\ frames'[q] = frames[q] /\ ptr'[q] = ptr[q] /\ got'[q] = got[q]

\* The others' answers are left alone.
LEMMA AnswersKept ==
  ASSUME Types, NEW p \in Callers, TreeMoves(p), NEW q \in Callers \ {p}
  PROVE  ptr'[q] = ptr[q] /\ got'[q] = got[q]
<1>1. CASE Builds(p)
  <2>1. CASE StepFails(p) \/ TargetFails(p) \/ Close(p)
    BY <2>1 DEF StepFails, TargetFails, Close, Fail, Leaves, Release, Types
  <2>2. CASE CoreInstance(p) \/ Again(p)
    BY <2>2 DEF CoreInstance, Again, Types
  <2> QED
    BY <1>1, <2>1, <2>2 DEF Builds, BuildHost, CoreDone, SkipNested, Nest, NestDone, Delegates,
       BuildTarget, DtorsChecked
<1>2. CASE \E v : Take(p, v)
  BY <1>2 DEF Take, Types
<1>3. CASE Fail(p)
  BY <1>3 DEF Fail, Leaves, Release, Types
<1> QED
  BY <1>1, <1>2, <1>3 DEF TreeMoves

\* A caller that takes no step, while the cache grows.
LEMMA CallerAside ==
  ASSUME NEW q \in Callers, graph' = graph, SameCaller(q), reading'[q] = reading[q], Grows, CallerInv(q)
  PROVE  CallerInv(q)'
<1>1. /\ Top(q)' = Top(q) /\ BytesOf(q)' = BytesOf(q)
      /\ \A pc : At(q, pc)' <=> At(q, pc)
      /\ MoreCore(q)' <=> MoreCore(q)
  BY DEF SameCaller, Top, BytesOf, Core, Comp, At, MoreCore
<1>2. Fetches(q)' <=> Fetches(q)
  BY <1>1 DEF SameCaller, Fetches
<1>3. Wanted(q)' = Wanted(q)
  <2>1. /\ (phase'[q] = "decode") = (phase[q] = "decode")
        /\ At(q, "plan")' = At(q, "plan") /\ At(q, "core")' = At(q, "core")
        /\ At(q, "exports")' = At(q, "exports")
    BY DEF SameCaller, At, Top
  <2>2. ptr'[q] = ptr[q] /\ Top(q)' = Top(q) /\ BytesOf(q)' = BytesOf(q)
    BY <1>1 DEF SameCaller
  <2> QED
    BY <2>1, <2>2, Zenon DEF Wanted
<1>4. Fetching(q)'
  BY <1>2, <1>3 DEF CallerInv, Fetching
<1>5. DecodedStored(q)' /\ GotStored(q)'
  BY <1>1 DEF SameCaller, CallerInv, DecodedStored, GotStored, Grows, Has, DecodeKey
<1> QED
  BY <1>4, <1>5 DEF CallerInv

\* A caller that has a compiled module makes nothing else before the core instance,
\* and forgets it on every way out.
LEMMA HandOver ==
  ASSUME Types, NEW p \in Callers, TreeInv(p), TreeMoves(p), got[p] # NoOne => MoreCore(p),
         got'[p] # NoOne
  PROVE  /\ UNCHANGED <<phase, frames>> /\ At(p, "core")
         /\ got'[p] = got[p] \/ (Take(p, got'[p]) /\ At(p, "core"))
<1>1. CASE Builds(p)
  <2>1. ~(StepFails(p) \/ TargetFails(p) \/ Close(p))
    BY DEF StepFails, TargetFails, Close, Fail, Leaves, Release, Types
  <2>2. ~CoreInstance(p)
    BY DEF CoreInstance, Types
  <2>3. got'[p] = got[p]
    BY <1>1, <2>1, <2>2 DEF Builds, BuildHost, CoreDone, SkipNested, Nest, NestDone, Delegates,
       BuildTarget, DtorsChecked, Again
  <2>4. MoreCore(p) /\ At(p, "core")
    BY <2>3 DEF MoreCore
  <2>5. ~CoreDone(p)
    <3>1. Len(graph[Top(p).comp].core) \in Nat /\ Top(p).k \in Nat
      BY <2>4, TopFacts, GraphFacts DEF TreeInv, FrameSet, At
    <3> QED
      BY <2>4, <3>1 DEF MoreCore, CoreDone, Comp
  <2>6. BuildHost(p)
    BY <1>1, <2>1, <2>2, <2>4, <2>5 DEF Builds, SkipNested, Nest, MoreNested, NestDone, Delegates,
       BuildTarget, Binding, DtorsChecked, Again, At
  <2> QED
    BY <2>3, <2>4, <2>6 DEF BuildHost
<1>2. CASE \E v : Take(p, v)
  <2>1. PICK v : Take(p, v)
    BY <1>2
  <2>2. CASE At(p, "core")
    BY <2>1, <2>2 DEF Take, At, Types
  <2>3. CASE ~At(p, "core")
    <3>1. got' = got
      BY <2>1, <2>3 DEF Take
    <3> QED
      BY <2>3, <3>1 DEF MoreCore
  <2> QED
    BY <2>2, <2>3
<1>3. CASE Fail(p)
  BY <1>3 DEF Fail, Leaves, Release, Types
<1> QED
  BY <1>1, <1>2, <1>3 DEF TreeMoves

\* Only a step that begins the building, or one while it goes on, is about a decoded
\* component.
LEMMA DecodedKept ==
  ASSUME Types, NEW p \in Callers, TreeMoves(p), phase'[p] = "building"
  PROVE  \/ phase[p] = "building" /\ ptr'[p] = ptr[p]
         \/ phase[p] = "decode" /\ Take(p, ptr'[p])
<1>1. CASE Builds(p)
  <2>1. ~(StepFails(p) \/ TargetFails(p) \/ Close(p))
    BY DEF StepFails, TargetFails, Close, Fail, Leaves, Release, Types
  <2>2. ~Again(p)
    BY DEF Again, Types
  <2> QED
    BY <1>1, <2>1, <2>2 DEF Builds, BuildHost, CoreInstance, CoreDone, SkipNested, Nest, NestDone,
       Delegates, BuildTarget, DtorsChecked
<1>2. CASE \E v : Take(p, v)
  <2>1. PICK v : Take(p, v)
    BY <1>2
  <2>2. CASE phase[p] = "decode"
    BY <2>1, <2>2 DEF Take, At, Types
  <2>3. CASE phase[p] # "decode"
    BY <2>1, <2>3 DEF Take, At
  <2> QED
    BY <2>2, <2>3
<1>3. CASE Fail(p)
  BY <1>3 DEF Fail, Leaves, Release, Types
<1> QED
  BY <1>1, <1>2, <1>3 DEF TreeMoves

\* What is taken is what the caller has afterwards.
LEMMA TakenIs ==
  ASSUME Types, NEW p \in Callers, NEW v, Take(p, v)
  PROVE  /\ phase[p] = "decode" => ptr'[p] = v
         /\ At(p, "core") => got'[p] = v
<1>1. CASE phase[p] = "decode"
  BY <1>1 DEF Take, At, Types
<1>2. CASE At(p, "core")
  BY <1>2 DEF Take, At, Types
<1> QED
  BY <1>1, <1>2

\* The caller itself takes a step, with what the cache gave it.
LEMMA OwnStep ==
  ASSUME Types, Types', NEW p \in Callers, TreeInv(p), CallerInv(p), graph' = graph, TreeMoves(p), Grows,
         reading'[p] = NoKey,
         phase[p] = "decode" /\ phase'[p] = "building" =>
           Wanted(p) \in DOMAIN stored' /\ stored'[Wanted(p)] = ptr'[p],
         At(p, "core") /\ got'[p] # got[p] /\ got'[p] # NoOne =>
           MoreCore(p) /\ Wanted(p) \in DOMAIN stored' /\ stored'[Wanted(p)] = got'[p]
  PROVE  CallerInv(p)'
<1>1. Fetching(p)'
  BY DEF Fetching
<1>2. DecodedStored(p)'
  <2> SUFFICES ASSUME phase'[p] = "building"
               PROVE  closed' \/ (Has(DecodeKey)' /\ stored'[DecodeKey] = ptr'[p])
    BY DEF DecodedStored, DecodeKey
  <2>1. CASE phase[p] = "building" /\ ptr'[p] = ptr[p]
    BY <2>1 DEF CallerInv, DecodedStored, Grows, Has, DecodeKey
  <2>2. CASE phase[p] = "decode" /\ Take(p, ptr'[p])
    BY <2>2, WantedIs DEF Has, DecodeKey
  <2> QED
    BY <2>1, <2>2, DecodedKept
<1>3. GotStored(p)'
  <2> SUFFICES ASSUME got'[p] # NoOne
               PROVE  /\ MoreCore(p)' /\ reading'[p] = NoKey
                      /\ closed' \/ (Has(BytesOf(p))' /\ stored'[BytesOf(p)'] = got'[p])
    BY DEF GotStored
  <2>1. /\ UNCHANGED <<phase, frames>> /\ At(p, "core")
        /\ got'[p] = got[p] \/ (Take(p, got'[p]) /\ At(p, "core"))
    BY HandOver DEF CallerInv, GotStored
  <2>2. BytesOf(p)' = BytesOf(p) /\ (MoreCore(p)' <=> MoreCore(p))
    BY <2>1 DEF BytesOf, MoreCore, At, Core, Comp, Top
  <2>3. CASE got'[p] = got[p]
    BY <2>2, <2>3 DEF CallerInv, GotStored, Grows, Has
  <2>4. CASE got'[p] # got[p]
    <3>1. MoreCore(p) /\ BytesOf(p) \in DOMAIN stored' /\ stored'[BytesOf(p)] = got'[p]
      BY <2>1, <2>4, WantedIs
    <3> QED
      BY <2>2, <3>1 DEF Has
  <2> QED
    BY <2>3, <2>4
<1> QED
  BY <1>1, <1>2, <1>3 DEF CallerInv

-----------------------------------------------------------------------------
(* Every step.                                                             *)

\* The callers other than the one that takes a step.
LEMMA OthersKept ==
  ASSUME Types, NEW p \in Callers, TreeMoves(p), Others(p), graph' = graph, Grows,
         \A q \in Callers \ {p} : reading'[q] = reading[q] /\ CallerInv(q)
  PROVE  \A q \in Callers \ {p} : CallerInv(q)'
<1> SUFFICES ASSUME NEW q \in Callers \ {p} PROVE CallerInv(q)'
  OBVIOUS
<1>1. ptr'[q] = ptr[q] /\ got'[q] = got[q]
  BY AnswersKept
<1>2. SameCaller(q)
  BY <1>1 DEF SameCaller, Others, SameTree
<1> QED
  BY <1>2, CallerAside

\* What a caller builds by itself gives it no answer.
LEMMA BuildsUnanswered ==
  ASSUME Types, NEW p \in Callers, Builds(p)
  PROVE  phase[p] # "decode" /\ (got'[p] = got[p] \/ got'[p] = NoOne)
<1>1. phase[p] # "decode"
  BY DEF Builds, BuildHost, CoreInstance, CoreDone, SkipNested, Nest, NestDone, Delegates, BuildTarget,
         TargetFails, DtorsChecked, StepFails, Close, Again, MoreCore, MoreNested, Binding, At
<1>2. CASE StepFails(p) \/ TargetFails(p) \/ Close(p)
  <2>1. got' = [got EXCEPT ![p] = NoOne]
    BY <1>2 DEF StepFails, TargetFails, Close, Fail, Leaves, Release
  <2> QED
    BY <1>1, <2>1 DEF Types
<1>3. CASE CoreInstance(p)
  BY <1>1, <1>3 DEF CoreInstance, Types
<1>4. CASE ~(StepFails(p) \/ TargetFails(p) \/ Close(p) \/ CoreInstance(p))
  <2>1. got' = got
    BY <1>4 DEF Builds, BuildHost, CoreDone, SkipNested, Nest, NestDone, Delegates, BuildTarget,
           DtorsChecked, Again
  <2> QED
    BY <1>1, <2>1
<1> QED
  BY <1>2, <1>3, <1>4

\* A step of one caller's tree, of which the cache knows.
LEMMA MovesKept ==
  ASSUME Inv, Types', NEW p \in Callers, TreeMoves(p), Others(p), graph' = graph, Grows, Cache',
         reading'[p] = NoKey,
         \A q \in Callers \ {p} : reading'[q] = reading[q],
         phase[p] = "decode" /\ phase'[p] = "building" =>
           Wanted(p) \in DOMAIN stored' /\ stored'[Wanted(p)] = ptr'[p],
         At(p, "core") /\ got'[p] # got[p] /\ got'[p] # NoOne =>
           MoreCore(p) /\ Wanted(p) \in DOMAIN stored' /\ stored'[Wanted(p)] = got'[p]
  PROVE  Cache' /\ \A q \in Callers : CallerInv(q)'
<1>1. CallerInv(p)'
  BY OwnStep DEF Inv
<1>2. \A q \in Callers \ {p} : CallerInv(q)'
  BY OthersKept DEF Inv
<1> QED
  BY <1>1, <1>2

\* A caller asks for a compiled module only while it has none.
LEMMA AtFetchFacts ==
  ASSUME Types, NEW p \in Callers, AtFetch(p)
  PROVE  /\ Fetches(p) /\ (At(p, "core") => MoreCore(p))
         /\ MoreCore(p) => got[p] = NoOne
BY DEF AtFetch, Fetches, At, MoreCore

\* A computed plan or ABI entry is keyed by the stored component.
LEMMA KeyIsStored ==
  ASSUME NEW p \in Callers, CallerInv(p), Cache, reading[p] # NoKey, reading[p][1] \in {"plan", "abi"}
  PROVE  DecodeKey \in DOMAIN stored /\ stored[DecodeKey] = reading[p][2]
<1>1. Fetches(p) /\ reading[p] = Wanted(p)
  BY DEF CallerInv, Fetching
<1>2. ~closed
  BY DEF Cache
<1>3. At(p, "plan") \/ At(p, "exports")
  BY <1>1, WantedIs DEF Fetches, MoreCore, DecodeKey, BytesOf
<1>4. phase[p] = "building" /\ reading[p][2] = ptr[p]
  BY <1>1, <1>3, WantedIs DEF At
<1> QED
  BY <1>2, <1>4 DEF CallerInv, DecodedStored, Has

\* Nothing but a caller's look-up concerns the cache.
LEMMA CallersKept ==
  ASSUME Inv, Types', [Next]_vars, \A p \in Callers : TreeMoves(p) => Others(p)
  PROVE  Cache' /\ \A q \in Callers : CallerInv(q)'
<1>0. graph' = graph
  BY StepKinds DEF Inv
<1>1. CASE UNCHANGED vars
  <2>1. Grows /\ \A q \in Callers : SameCaller(q) /\ reading'[q] = reading[q]
    BY <1>1 DEF vars, cacheVars, treeVars, Grows, SameCaller
  <2>2. \A q \in Callers : CallerInv(q)'
    BY <1>0, <2>1, CallerAside DEF Inv
  <2>3. Cache'
    BY <1>1 DEF vars, cacheVars, Cache, CacheOwnsCompiled, KeyedByStored, IsStored, Has, Inv
  <2> QED
    BY <2>2, <2>3
<1>2. CASE CloseCache /\ UNCHANGED <<graph, treeVars>>
  <2>1. Cache' /\ closed' /\ reading' = reading /\ \A q \in Callers : reading[q] = NoKey
    BY <1>2, CloseStep DEF Inv, CloseCache
  <2>2. ASSUME NEW q \in Callers PROVE CallerInv(q)'
    <3>1. MoreCore(q)' <=> MoreCore(q)
      BY <1>2 DEF treeVars, MoreCore, At, Comp, Top
    <3> QED
      BY <1>2, <2>1, <3>1 DEF treeVars, Inv, CallerInv, Fetching, DecodedStored, GotStored
  <2> QED
    BY <2>1, <2>2
<1>3. ASSUME NEW p \in Callers, reading[p] = NoKey, Builds(p), UNCHANGED <<cacheVars, graph>>
      PROVE  Cache' /\ \A q \in Callers : CallerInv(q)'
  <2>1. TreeMoves(p) /\ Grows /\ reading' = reading
    BY <1>3 DEF TreeMoves, Grows, cacheVars
  <2>2. Cache'
    BY <1>3 DEF cacheVars, Cache, CacheOwnsCompiled, KeyedByStored, IsStored, Has, Inv
  <2> QED
    BY <1>3, <2>1, <2>2, BuildsUnanswered, MovesKept DEF Inv
<1>4. ASSUME NEW p \in Callers, FetchHit(p)
      PROVE  Cache' /\ \A q \in Callers : CallerInv(q)'
  <2>1. /\ AtFetch(p) /\ Has(Wanted(p)) /\ Take(p, stored[Wanted(p)])
        /\ TreeMoves(p) /\ Grows /\ reading' = reading /\ reading[p] = NoKey /\ stored' = stored
    BY <1>4 DEF FetchHit, TreeMoves, Grows, cacheVars, AtFetch
  <2>2. Cache'
    BY <1>4 DEF FetchHit, cacheVars, Cache, CacheOwnsCompiled, KeyedByStored, IsStored, Has, Inv
  <2>3. /\ phase[p] = "decode" => ptr'[p] = stored[Wanted(p)]
        /\ At(p, "core") => got'[p] = stored[Wanted(p)]
    BY <2>1, TakenIs DEF Inv
  <2> QED
    BY <1>0, <2>1, <2>2, <2>3, AtFetchFacts, MovesKept DEF Inv, Has
<1>5. ASSUME NEW p \in Callers, FetchMiss(p)
      PROVE  Cache' /\ \A q \in Callers : CallerInv(q)'
  <2>1. /\ AtFetch(p) /\ reading[p] = NoKey /\ Miss(p, Wanted(p)) /\ UNCHANGED treeVars
        /\ reading' = [reading EXCEPT ![p] = Wanted(p)]
    BY <1>5 DEF FetchMiss, AtFetch, Miss
  <2>2. Cache' /\ Grows
    BY <2>1, MissStep DEF Inv
  <2>3. \A q \in Callers : SameCaller(q)
    BY <2>1 DEF SameCaller, treeVars
  <2>4. \A q \in Callers \ {p} : reading'[q] = reading[q]
    BY <2>1 DEF Inv, Cache
  <2>5. \A q \in Callers \ {p} : CallerInv(q)'
    BY <1>0, <2>2, <2>3, <2>4, CallerAside DEF Inv
  <2>6. CallerInv(p)'
    <3>1. Fetches(p) /\ (MoreCore(p) => got[p] = NoOne)
      BY <2>1, AtFetchFacts DEF Inv
    <3>2. got[p] = NoOne
      BY <2>1, <3>1 DEF Inv, CallerInv, GotStored
    <3>3. reading'[p] = Wanted(p)
      BY <2>1 DEF Inv, Cache
    <3>4. Fetches(p)' /\ Wanted(p)' = Wanted(p)
      <4>1. Fetches(p)'
        BY <1>0, <2>1, <3>1 DEF treeVars, Fetches, At, MoreCore, Comp, Top
      <4>2. phase' = phase /\ frames' = frames /\ ptr' = ptr
        BY <2>1 DEF treeVars
      <4>3. /\ (phase'[p] = "decode") = (phase[p] = "decode")
            /\ At(p, "plan")' = At(p, "plan") /\ At(p, "core")' = At(p, "core")
            /\ At(p, "exports")' = At(p, "exports")
        BY <4>2 DEF At, Top
      <4>4. ptr'[p] = ptr[p] /\ Top(p)' = Top(p) /\ BytesOf(p)' = BytesOf(p)
        BY <1>0, <4>2 DEF Top, BytesOf, Core, Comp
      <4>5. Wanted(p)' = Wanted(p)
        BY <4>3, <4>4, Zenon DEF Wanted
      <4> QED
        BY <4>1, <4>5
    <3>5. DecodedStored(p)'
      BY <2>1, <2>2 DEF treeVars, Grows, Inv, CallerInv, DecodedStored, Has, DecodeKey
    <3> QED
      BY <2>1, <3>2, <3>3, <3>4, <3>5 DEF treeVars, CallerInv, Fetching, GotStored
  <2> QED
    BY <2>2, <2>5, <2>6
<1>6. ASSUME NEW p \in Callers, FetchStore(p)
      PROVE  Cache' /\ \A q \in Callers : CallerInv(q)'
  <2>1. /\ Store(p) /\ Take(p, Winner(p)) /\ TreeMoves(p) /\ p \in built
        /\ reading' = [reading EXCEPT ![p] = NoKey]
    BY <1>6 DEF FetchStore, Store, TreeMoves
  <2>2. reading[p] # NoKey /\ reading[p] = Wanted(p) /\ Fetches(p)
    BY <2>1 DEF Inv, Cache, CallerInv, Fetching
  <2>3. /\ Cache' /\ Grows /\ reading'[p] = NoKey
        /\ Wanted(p) \in DOMAIN stored' /\ stored'[Wanted(p)] = Winner(p)
    BY <2>1, <2>2, StoreStep, KeyIsStored DEF Inv
  <2>4. \A q \in Callers \ {p} : reading'[q] = reading[q]
    BY <2>1 DEF Inv, Cache
  <2>5. /\ phase[p] = "decode" => ptr'[p] = Winner(p)
        /\ At(p, "core") => got'[p] = Winner(p)
    BY <2>1, TakenIs DEF Inv
  <2>6. At(p, "core") => MoreCore(p)
    BY <2>2 DEF Fetches, At
  <2> QED
    BY <1>0, <2>1, <2>3, <2>4, <2>5, <2>6, MovesKept
<1>7. ASSUME NEW p \in Callers, FetchClosed(p)
      PROVE  Cache' /\ \A q \in Callers : CallerInv(q)'
  <2>1. /\ AtFetch(p) /\ closed /\ reading[p] = NoKey /\ reading' = reading
        /\ Grows /\ TreeMoves(p)
    BY <1>7, FetchesWhere DEF FetchClosed, AtFetch, Grows, cacheVars, TreeMoves
  <2>2. Cache'
    BY <1>7 DEF FetchClosed, cacheVars, Cache, CacheOwnsCompiled, KeyedByStored, IsStored, Has, Inv
  <2>3. CASE Refuses(Wanted(p))
    <3>1. Fail(p)
      BY <1>7, <2>3 DEF FetchClosed
    <3>2. phase'[p] = "released" /\ got'[p] = NoOne
      BY <3>1 DEF Fail, Leaves, Release, Inv, Types
    <3> QED
      BY <1>0, <2>1, <2>2, <3>2, MovesKept
  <2>4. CASE ~Refuses(Wanted(p))
    <3>1. Wanted(p)[1] = "abi"
      BY <2>1, <2>4 DEF Refuses
    <3>2. phase[p] # "decode" /\ ~At(p, "core")
      BY <3>1, WantedIs DEF DecodeKey, BytesOf
    <3> QED
      BY <1>0, <2>1, <2>2, <3>2, MovesKept
  <2> QED
    BY <2>3, <2>4
<1>8. ASSUME NEW p \in Callers, FetchFails(p)
      PROVE  Cache' /\ \A q \in Callers : CallerInv(q)'
  <2>1. /\ reading[p] # NoKey /\ p \notin built /\ GivesUp(p) /\ Fail(p)
        /\ reading' = [reading EXCEPT ![p] = NoKey]
    BY <1>8 DEF FetchFails, GivesUp
  <2>2. TreeMoves(p)
    BY <2>1, FetchesWhere DEF TreeMoves, Inv, CallerInv, Fetching
  <2>3. Cache' /\ Grows /\ reading'[p] = NoKey
    BY <2>1, GiveUpStep DEF Inv
  <2>4. \A q \in Callers \ {p} : reading'[q] = reading[q]
    BY <2>1 DEF Inv, Cache
  <2>5. phase'[p] = "released" /\ got'[p] = NoOne
    BY <2>1 DEF Fail, Leaves, Release, Inv, Types
  <2> QED
    BY <1>0, <2>2, <2>3, <2>4, <2>5, MovesKept
<1>9. ASSUME NEW p \in Callers, Compute(p), UNCHANGED <<graph, treeVars>>
      PROVE  Cache' /\ \A q \in Callers : CallerInv(q)'
  <2>1. Cache' /\ Grows /\ reading' = reading
    BY <1>9, ComputeStep DEF Inv, Compute
  <2>2. \A q \in Callers : SameCaller(q)
    BY <1>9 DEF SameCaller, treeVars
  <2> QED
    BY <1>0, <2>1, <2>2, CallerAside DEF Inv
<1> QED
  BY <1>1, <1>2, <1>3, <1>4, <1>5, <1>6, <1>7, <1>8, <1>9 DEF Next

-----------------------------------------------------------------------------
(* The invariant and what it says.                                         *)

\* A caller that has not begun.
LEMMA InitInv ==
  ASSUME Init
  PROVE  Inv
<1>1. Types
  <2>1. <<>> \in Seq(FrameSet)
    OBVIOUS
  <2> QED
    BY <2>1 DEF Init, CacheInit, Types, Phases
<1>2. Cache
  BY DEF Init, CacheInit, Cache, CacheOwnsCompiled, KeyedByStored
<1>3. ASSUME NEW p \in Callers PROVE TreeInv(p)
  <2>1. /\ phase[p] = "decode" /\ frames[p] = <<>> /\ DOMAIN frames[p] = {}
        /\ links[p] = {} /\ mods[p] = {} /\ held[p] = {}
        /\ \A c \in Comps : subs[p][c] = {}
    BY DEF Init
  <2>2. Stack(p) /\ Placed(p) /\ Fresh(p) /\ Linked(p)
    BY <2>1 DEF Stack, Placed, Fresh, Linked
  <2>3. Owned(p) /\ Registered(p)
    BY <2>1 DEF Owned, Registered
  <2> QED
    BY <2>2, <2>3 DEF TreeInv
<1>4. ASSUME NEW p \in Callers PROVE CallerInv(p)
  BY DEF Init, CacheInit, CallerInv, Fetching, DecodedStored, GotStored
<1> QED
  BY <1>1, <1>2, <1>3, <1>4 DEF Inv

\* Every step keeps the inductive invariant.
LEMMA StepInv ==
  ASSUME Inv, [Next]_vars
  PROVE  Inv'
<1>1. Types' /\ \A p \in Callers : TreeInv(p)'
  BY TreesKept
<1>2. graph' = graph
  BY StepKinds DEF Inv
<1>3. \A p \in Callers : TreeMoves(p) => Others(p)
  BY <1>2, TreeStep DEF Inv
<1>4. Cache' /\ \A q \in Callers : CallerInv(q)'
  BY <1>1, <1>3, CallersKept
<1> QED
  BY <1>1, <1>4 DEF Inv

\* The inductive invariant holds throughout, for any number of callers that
\* share a CompileCache and any composition (compilecache.go, graph.go).
THEOREM InvHolds == Spec => []Inv
<1>1. Init => Inv
  BY InitInv
<1>2. Inv /\ [Next]_vars => Inv'
  BY StepInv
<1> QED
  BY <1>1, <1>2, PTL DEF Spec

\* Whatever step of Instantiate fails, in whatever nesting, and after Close,
\* nothing stays open but at most the one private host module of a canon whose
\* shim failed (graph.go:299-315, 687-695, instance.go:2186).
THEOREM NothingIsLeft == Spec => []NothingLeaks
<1>1. ASSUME Inv PROVE NothingLeaks
  <2> SUFFICES ASSUME NEW p \in Callers
               PROVE  LET left == mods[p] \ UNION {closers[p][c] : c \in Live(p)} IN
                        held[p] \subseteq Live(p) /\ (\A m \in left : m[2] = "private")
                          /\ Cardinality(left) <= 1
    BY DEF NothingLeaks
  <2> DEFINE left == mods[p] \ UNION {closers[p][c] : c \in Live(p)}
  <2>1. Owned(p)
    BY <1>1 DEF Inv, TreeInv
  <2>2. held[p] \subseteq Live(p) /\ \A m, n \in left : m[2] = "private" /\ m = n
    BY <2>1 DEF Owned
  <2> HIDE DEF left
  <2>3. Cardinality(left) <= 1
    <3>1. CASE left = {}
      BY <3>1, FS_EmptySet
    <3>2. CASE left # {}
      <4>1. PICK m \in left : TRUE
        BY <3>2
      <4>2. left = {m}
        BY <2>2, <4>1
      <4> QED
        BY <4>2, FS_Singleton
    <3> QED
      BY <3>1, <3>2
  <2> QED
    BY <2>2, <2>3 DEF left
<1> QED
  BY <1>1, InvHolds, PTL

\* Every import of a core module, or of a regrouping shim, resolves to the
\* instance the component gives it, whatever names the instances share
\* (graph.go:1176-1190, 543-568).
THEOREM LinksAreWritten == Spec => []LinkedAsWritten
<1>1. ASSUME Inv PROVE LinkedAsWritten
  BY <1>1 DEF Inv, TreeInv, Linked, LinkedAsWritten
<1> QED
  BY <1>1, InvHolds, PTL

\* A compiled module a caller was given, whether it won the miss race or lost
\* it, stays open until it is used, unless the cache is closed
\* (compilecache.go:61).
THEOREM CompiledUsable == Spec => []CompiledIsUsable
<1>1. ASSUME Inv PROVE CompiledIsUsable
  <2> SUFFICES ASSUME NEW p \in Callers, got[p] # NoOne, ~closed
               PROVE  <<BytesOf(p), got[p]>> \in opened
    BY DEF CompiledIsUsable
  <2>1. Has(BytesOf(p)) /\ stored[BytesOf(p)] = got[p]
    BY <1>1 DEF Inv, CallerInv, GotStored
  <2>2. Compiles(BytesOf(p))
    BY DEF Compiles, BytesOf
  <2> QED
    BY <1>1, <2>1, <2>2 DEF Inv, Cache, Has
<1> QED
  BY <1>1, InvHolds, PTL

\* Of the compiled modules of a miss race one is stored and the others are
\* closed, and what is derived from a component is keyed by the stored one
\* (compilecache.go:60, :82-85).
THEOREM CacheCoherent == Spec => []CacheIsCoherent
<1>1. ASSUME Inv PROVE CacheIsCoherent
  BY <1>1 DEF Inv, Cache, CacheIsCoherent
<1> QED
  BY <1>1, InvHolds, PTL
=============================================================================
