------------------------------ MODULE CompileCache ------------------------------
(***************************************************************************)
(* CompileCache (compilecache.go): four maps shared by the goroutines that *)
(* instantiate components on one Runtime -- decoded components, graph      *)
(* plans, ABI metadata and compiled core modules.  Every look-up is double *)
(* checked: the map is read, the value is computed with no map lock held,  *)
(* and the map is read again before the value is stored.  stateMu is held  *)
(* for reading from the first step to the last, and for writing by Close.  *)
(*                                                                         *)
(* A key is <<kind, owner, component, index>>: owner is the decoded        *)
(* *binary.Component a plan or an ABI entry is keyed by.  A decoded        *)
(* component and a compiled module are named by the caller that made them; *)
(* plans and ABI entries are the same whoever computes them.               *)
(***************************************************************************)
EXTENDS Naturals

CONSTANTS
  Callers,    \* the goroutines that call Instantiate with this cache
  NoOne       \* no caller

VARIABLES
  closed,     \* CompileCache.closed
  stored,     \* byComp, byPlan, byABI and byKey: key -> value
  reading,    \* caller -> the key it looked up and missed: it holds stateMu.RLock
  built,      \* the callers among them that have computed their value
  opened      \* the open CompiledModules, as <<key, the caller that compiled it>>

cacheVars == <<closed, stored, reading, built, opened>>

NoKey == <<>>

\* m[key] = v, for a Go map m.
Put(m, key, v) == [x \in DOMAIN m \cup {key} |-> IF x = key THEN v ELSE m[x]]

CacheInit ==
  /\ closed = FALSE
  /\ stored = <<>>
  /\ reading = [p \in Callers |-> NoKey]
  /\ built = {}
  /\ opened = {}

Compiles(key) == key[1] = "compile"
Has(key) == key \in DOMAIN stored

\* A closed cache refuses, except abiFor, which then just computes.
Refuses(key) == closed /\ key[1] # "abi"

Miss(p, key) ==
  /\ ~closed /\ ~Has(key)
  /\ reading' = [reading EXCEPT ![p] = key]
  /\ UNCHANGED <<closed, stored, built, opened>>

\* binary.Decode, the plan's or the ABI's compute, or Runtime.CompileModule.
Compute(p) ==
  /\ reading[p] # NoKey /\ p \notin built
  /\ built' = built \cup {p}
  /\ opened' = opened \cup (IF Compiles(reading[p]) THEN {<<reading[p], p>>} ELSE {})
  /\ UNCHANGED <<closed, stored, reading>>

\* Whose value is returned: the one already stored, if the race was lost.
Own(p) == IF reading[p][1] \in {"decode", "compile"} THEN p ELSE NoOne
WinnerIsOwn(p) == Own(p)

Winner(p) == IF Has(reading[p]) THEN stored[reading[p]] ELSE Own(p)

DiscardsWinner(p) == IF Winner(p) = Own(p) THEN {} ELSE {<<reading[p], Winner(p)>>}

Discarded(p) == IF Winner(p) = Own(p) THEN {} ELSE {<<reading[p], p>>}

Store(p) ==
  /\ p \in built
  /\ stored' = Put(stored, reading[p], Winner(p))
  /\ opened' = opened \ Discarded(p)
  /\ reading' = [reading EXCEPT ![p] = NoKey]
  /\ built' = built \ {p}
  /\ UNCHANGED closed

\* The computation returned an error.
GivesUp(p) ==
  /\ reading' = [reading EXCEPT ![p] = NoKey]
  /\ UNCHANGED <<closed, stored, built, opened>>

IsStored(o) == Has(o[1]) /\ stored[o[1]] = o[2]

CloseCache ==
  /\ ~closed
  /\ \A p \in Callers : reading[p] = NoKey       \* stateMu.Lock
  /\ closed' = TRUE
  /\ stored' = <<>>
  /\ opened' = {o \in opened : ~IsStored(o)}
  /\ UNCHANGED <<reading, built>>

-----------------------------------------------------------------------------
(* "a miss race compiles at most twice; the loser's redundant CompiledModule
   is closed immediately" (compilecache.go:60): every compiled module that is
   open is stored once, or is in the hands of the goroutine that still decides
   what to do with it.  A closed cache leaves none. *)
CacheOwnsCompiled ==
  \A o \in opened : IsStored(o) \/ (o[2] \in built /\ reading[o[2]] = o[1])

(* Two callers never hold different components decoded from the same bytes:
   what is computed from a component is keyed by its pointer, so that a plan or
   an ABI entry is only ever found again under the pointer that is stored
   (compilecache.go:82-85). *)
KeyedByStored ==
  \A key \in DOMAIN stored :
    key[1] \in {"plan", "abi"} =>
      \E d \in DOMAIN stored : d[1] = "decode" /\ stored[d] = key[2]
=============================================================================
