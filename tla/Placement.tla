------------------------------ MODULE Placement ------------------------------
(***************************************************************************)
(* The placement of the kernels of a graph on the devices                  *)
(* (src/schedule/placement.rs): an operator for each PlacementStrategy,    *)
(* from a graph to the same graph with a device for each kernel.           *)
(***************************************************************************)
EXTENDS KernelGraph
LOCAL INSTANCE FiniteSetsExt

PlacedBy(g, device(_)) ==
  [g EXCEPT !.kernels = [k \in Kernels(g) |-> [g.kernels[k] EXCEPT !.dev = device(k)]]]

(* Placement::uniform *)
Uniform(g, d) == PlacedBy(g, LAMBDA k : d)

Touches(g, k, v) == Reads(g, k, v) \/ Writes(g, k, v)

(* Placement::structural_kv_touch: the kernels that touch a session state  *)
(* go to the GPU.                                                          *)
StructuralKvTouch(g) ==
  PlacedBy(g, LAMBDA k : IF \E v \in g.states : Touches(g, k, v) THEN "CUDA" ELSE "CPU")

(* The bytes of weights a kernel reads, the small ones left out. *)
WeightOf(g, k, minBytes) ==
  MapThenSumSet(LAMBDA i : g.size[g.kernels[k].ins[i]],
                {i \in DOMAIN g.kernels[k].ins : /\ g.kernels[k].ins[i] \in g.initializers
                                                 /\ g.size[g.kernels[k].ins[i]] >= minBytes})

(* The first kernel whose weights no longer fit; the weights of the ones   *)
(* before it do.                                                           *)
WeightCut(g, minBytes, residentBytes) ==
  LET resident(k) == MapThenSumSet(LAMBDA j : WeightOf(g, j, minBytes), 1..k)
      over == {k \in Kernels(g) : resident(k) > residentBytes}
  IN  IF over = {} THEN Len(g.kernels) + 1 ELSE Min(over)

(* The cut falls between the first and the last kernel that touch v. *)
Straddles(g, v, cut) ==
  /\ \E k \in Kernels(g) : Touches(g, k, v) /\ k < cut
  /\ \E k \in Kernels(g) : Touches(g, k, v) /\ cut <= k

(* Mutant of SnappedCut: the cut stays where the weights put it. *)
SnappedCut_Never(g, cut) == cut

(* The cut moves down until it straddles no session state. *)
SnappedCut(g, cut) ==
  Max({c \in 1..cut : \A v \in g.states : ~ Straddles(g, v, c)})

(* Placement::resident_budget: the kernels before the cut go to the GPU.   *)
ResidentBudget(g, minBytes, residentBytes) ==
  LET cut == SnappedCut(g, WeightCut(g, minBytes, residentBytes))
  IN  PlacedBy(g, LAMBDA k : IF k < cut THEN "CUDA" ELSE "CPU")
=============================================================================
