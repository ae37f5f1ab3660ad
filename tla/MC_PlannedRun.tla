---------------------------- MODULE MC_PlannedRun ----------------------------
(* Plans and runs of the graphs of MC_MemoryAware.  MCFamily chooses the      *)
(* graphs of a run; only the regular ones lose nothing.                      *)
EXTENDS PlannedRun, MC_MemoryAware

CONSTANTS MCFamily

Alone(target, graphs) == On(target, {Uniform(g, target) : g \in graphs})

RegularGraphs == Regular(UNION {Family(t) : t \in {"CPU", "CUDA", "Hybrid"}})

(* The premise of the theorem OperandsAlwaysWellPlaced holds of the graphs    *)
(* of these runs and of MC_MemoryAware's, placed by the code's strategies.    *)
ASSUME PlacementAssumption == \A g \in RegularGraphs \cup PlanGraphs : Placeable(g)

MCGraphs ==
  CASE MCFamily = "regular"        -> RegularGraphs
    [] MCFamily = "crossings"      -> Crossings
    [] MCFamily = "twiceforwarded" -> Alone("CUDA", TwiceForwarded)
    [] MCFamily = "deadfirst"      -> Alone("CPU", DeadFirst)
    [] MCFamily = "passedthrough"  -> Alone("CPU", PassedThrough)
=============================================================================
