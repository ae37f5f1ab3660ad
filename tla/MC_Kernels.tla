------------------------------ MODULE MC_Kernels ------------------------------
(* The kernels' computations, on small tensors: a behaviour runs one kernel  *)
(* of one of the modules below once, or a loop that a team of threads        *)
(* shares, step by step (CpuLoops). The kernels of a module share its bounds.*)
EXTENDS CpuLoops, Sequences

VARIABLES
  part,              \* the module the behaviour is one of
  given, out, done,  \* a kernel's case, its result, and that it has run
  bits               \* a float to be rounded (CpuElementwise)

own == <<given, out, done, bits>>

Windows == INSTANCE CpuWindows WITH Wrap <- 65536, MaxIn <- 3, MaxKernel <- 3
Moves == INSTANCE CpuMoves WITH MaxDim <- 3, Outside <- 3, MaxScale <- 4
Mats == INSTANCE Matrices WITH MaxDim <- 3, Levels <- 2, Sample <- {0, 1, 5}
Elem == INSTANCE CpuElementwise WITH
          Narrow <- 3, Wide <- 5, NaN <- 1000, Fraction <- 4, Exponent <- 3, Dropped <- 3, fused <- out
Line == INSTANCE Rows WITH Warp <- 2, MaxBlock <- 8, MaxDim <- 3, MaxRow <- 11, Seeds <- {0, 1, 3}
Attn == INSTANCE Attention WITH
          TileQ <- 2, TileK <- 2, MaxQ <- 3, MaxK <- 4, Values <- {0, 1, 3, 7}, Levels <- 5

(* The loops stand still, in the one state they then have. *)
NoLoop == kernel = [kind |-> "flat", inputs |-> 1, last |-> FALSE] /\ bound = 1 /\ team = 1 /\ Init
NoKernel == given = <<>> /\ out = <<>> /\ done = FALSE

MCInit ==
  \/ part = "loops" /\ Init /\ NoKernel /\ bits = -1
  \/ part = "windows" /\ Windows!Init /\ NoLoop /\ bits = -1
  \/ part = "moves" /\ Moves!Init /\ NoLoop /\ bits = -1
  \/ part = "matrices" /\ Mats!Init /\ NoLoop /\ bits = -1
  \/ part = "elementwise" /\ Elem!Init /\ NoLoop
  \/ part = "rows" /\ Line!Init /\ NoLoop /\ bits = -1
  \/ part = "attention" /\ Attn!Init /\ NoLoop /\ bits = -1

Fork == part = "loops" /\ Join /\ UNCHANGED <<part, own>>
Work(t) == part = "loops" /\ Thread(t) /\ UNCHANGED <<part, own>>
Kernel ==
  /\ \/ part = "windows" /\ Windows!Run /\ UNCHANGED bits
     \/ part = "moves" /\ Moves!Run /\ UNCHANGED bits
     \/ part = "matrices" /\ Mats!Run /\ UNCHANGED bits
     \/ part = "elementwise" /\ Elem!Run
     \/ part = "rows" /\ Line!Run /\ UNCHANGED bits
     \/ part = "attention" /\ Attn!Run /\ UNCHANGED bits
  /\ UNCHANGED <<part, vars>>

MCNext == Kernel \/ Fork \/ \E t \in Tids : Work(t)

(* The threads run, as in CpuLoops. *)
MCSpec == MCInit /\ [][MCNext]_<<part, vars, own>> /\ WF_vars(Fork) /\ \A t \in Tids : WF_vars(Work(t))

-----------------------------------------------------------------------------
(* The modules' properties, each for its own part.                           *)

(* build_conv: the unfolded product is the convolution, in the scratch       *)
(* memory Schedule::new asks for; build_depthwise_conv is the grouped one;   *)
(* build_pool_nchw and _nhwc pool the cells under the window.                *)
WindowsCompute ==
  part = "windows" =>
    /\ Windows!ConvIsConvolution /\ Windows!DepthwiseIsGrouped
    /\ Windows!WorkspaceSuffices /\ Windows!PoolsAgree

(* Broadcast operands are read at the coordinates of the output, build_split *)
(* undoes build_concat, slices tile, negative indices count from the end,    *)
(* build_resize takes the cell its mode says; a fused chain computes what    *)
(* its operators would, each in its own type, and Cast and f32_to_bf16_bits  *)
(* keep the number or round it to the nearest.                               *)
ElementsCompute ==
  /\ part = "moves" =>
       /\ Moves!BroadcastsRead /\ Moves!SplitUndoesConcat /\ Moves!SlicesTile
       /\ Moves!GatherPicks /\ Moves!ResizeTakesNearest
  /\ part = "elementwise" =>
       /\ Elem!FusedIsChain /\ Elem!OperatorsTyped
       /\ Elem!CastKeepsNumber /\ Elem!RoundsToNearest

(* build_gemm and the swapped operands of cuBLAS compute the product of any  *)
(* layouts, each batch its own; int8 weights and scales of an axis are used  *)
(* where they belong, rows quantised on the fly come near; the groups of     *)
(* ReduceDecomposition agree on the axes kept.                               *)
ProductsCompute ==
  part = "matrices" =>
    /\ Mats!CpuProduct /\ Mats!GpuProduct /\ Mats!BatchesApart
    /\ Mats!DequantIsProduct /\ Mats!ScaleOfAxis /\ Mats!QuantizedIsNear
    /\ Mats!ReduceGroups

(* Softmax and the norms, on both targets, are of the line along their axis, *)
(* a block of threads counts every element once, and the fused Rope is the   *)
(* graph it stands for.                                                      *)
RowsCompute ==
  part = "rows" =>
    Line!SoftmaxOfLine /\ Line!NormsOfRow /\ Line!ReducedOnce /\ Line!RopeIsComposed

(* build_attention and the three CUDA kernels weigh the rows a query may see *)
(* by their softmax, whatever the tiles and the ring; what kvcache_update    *)
(* stores is where they read it, within half a level.                        *)
AttentionComputes ==
  part = "attention" =>
    Attn!CpuAttends /\ Attn!GpuAttends /\ Attn!StoredIsRead /\ Attn!StoredIsNear

(* A result that is there stays, and every region a loop is shared in ends   *)
(* (__kmpc_fork_call).                                                       *)
EveryRegionEnds == ResultsStay /\ (part = "loops" => RegionEnds)
=============================================================================
