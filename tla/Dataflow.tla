------------------------------ MODULE Dataflow ------------------------------
(***************************************************************************)
(* What running a compiled graph promises: each kernel runs once, starts   *)
(* only when the kernels it reads from have finished, and when the run     *)
(* ends every graph output is in the caller's buffer.  Nothing is said of  *)
(* streams, chunks, copies or the order of independent kernels.  The run   *)
(* of an execution plan (PlannedRun) implements this specification.        *)
(***************************************************************************)
EXTENDS KernelGraph

VARIABLES
  graph,     (* the graph that is run                        *)
  active,    (* the kernels running                          *)
  done,      (* the kernels that have finished               *)
  delivered  (* the graph outputs handed to the caller       *)

vars == <<graph, active, done, delivered>>

Outputs == {graph.outputs[i] : i \in DOMAIN graph.outputs}

Init == active = {} /\ done = {} /\ delivered = {}

Start(k) ==
  /\ k \notin active \cup done
  /\ Preds(graph, k) \subseteq done
  /\ active' = active \cup {k}
  /\ UNCHANGED <<graph, done, delivered>>

(* The last kernel may itself be what completes the outputs. *)
Finish(k) ==
  /\ k \in active
  /\ active' = active \ {k}
  /\ done' = done \cup {k}
  /\ \/ delivered' = delivered
     \/ done' = Kernels(graph) /\ delivered' = Outputs
  /\ UNCHANGED graph

Deliver ==
  /\ done = Kernels(graph)
  /\ delivered' = Outputs
  /\ UNCHANGED <<graph, active, done>>

Next ==
  \/ \E k \in Kernels(graph) : Start(k) \/ Finish(k)
  \/ Deliver

Spec == Init /\ [][Next]_vars /\ WF_vars(Next)
=============================================================================
