SPECIFICATION Spec
CONSTANTS
  Callers = {p1, p2}
  NoOne = NoOne
  Comps = {"root", "a", "b"}
  Root = "root"
  Graphs <- MCGraphs
  Names <- MCNames
  NoComp = "none"
  NoModule = NoModule
SYMMETRY Symmetry
INVARIANTS NothingLeaks LinkedAsWritten CompiledIsUsable CacheIsCoherent
