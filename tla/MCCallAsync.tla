---------------------------- MODULE MCCallAsync ----------------------------
(***************************************************************************)
(* Model checking of CallAsync: symmetry of goroutines, calls and AsyncCall*)
(* objects, for the runs that check safety only.                           *)
(***************************************************************************)
EXTENDS CallAsync, TLC

Symmetry == Permutations(Procs) \cup Permutations(AsyncTasks)
            \cup Permutations(SyncTasks) \cup Permutations(AsyncCalls)
            \cup Permutations(Completers)

(* What a goroutine leaves in its local variables when it returns is never   *)
(* read again: states that differ only there are the same state.             *)
Live(f, default) == [g \in Procs |-> IF pc[g] = "idle" THEN default ELSE f[g]]
GuestPhase == [g \in Procs |->
  IF pc[g] \in {"hostfn", "drain", "apply"} THEN ret[g] ELSE "drive"]
View == <<pc, Live(op, "none"), Live(on, NoTask), run, GuestPhase, batch, arg,
          Live(outcome, "ok"), Live(ctx, "live"), instVars, pendVars, schedVars,
          acVars, loaded>>

(* Whether a completion was applied twice or by the wrong goroutine decides  *)
(* no step and no property of the run of several operations.                 *)
ControlView == <<pc, Live(op, "none"), Live(on, NoTask), run, GuestPhase, batch, arg,
                 Live(outcome, "ok"), Live(ctx, "live"), instVars, pendVars, schedVars,
                 state, owner, loaded>>

(* States in which a Close has overtaken a CallAsync are reached, and not    *)
(* followed further: its properties say nothing of one driver after that.    *)
Followed == ~overtaken
=============================================================================
