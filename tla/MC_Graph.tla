------------------------------- MODULE MC_Graph -------------------------------
(* The tools the compiler's passes are built from, in six parts:             *)
(*   edit     GraphEdit: a graph under the calls of the passes               *)
(*   compare  OpGraph: two graphs of one input (value 1), two tensors (2 and *)
(*            5, of one content) and two operators (results 3 and 4),        *)
(*            compared, ordered and cut down to what their outputs need      *)
(*   shape    Layout: a dense tensor of up to three dimensions, its axes     *)
(*            permuted, given other dimensions of the same size, and every   *)
(*            pair of small shapes broadcast                                 *)
(*   view     Views: copies and views, from the strides to the epilog        *)
(*   nhwc     Nhwc: convolutions in NHWC, their conversions sunk and folded    *)
(*   fuse     KernelFusion: kernels built from the nodes                     *)
(* The parts share no state; one is chosen at the start.  A run of its own   *)
(* (PoolSpec) lets anything read what a pooling makes.                       *)
EXTENDS Layout, OpGraph, TLC

VARIABLES
  part,
  nodes, deleted, used, defined,        \* edit
  left, right, equal, order, needed,    \* compare
  view, target, got, done,              \* shape
  given, lowered, stage,                \* view, nhwc
  graph, cpu, kernels                   \* fuse

evars == <<nodes, deleted, used, defined>>
ovars == <<left, right, equal, order, needed>>
lvars == <<view, target, got, done>>
vvars == <<given, lowered, stage>>
fvars == <<graph, cpu, kernels>>
mcvars == <<part, evars, ovars, lvars, vvars, fvars>>

(* One operator between an input, a tensor and an output; a pass may add one *)
(* of its own.  Values: 1 the input, 2 the tensor, 3 the given result, 4 the *)
(* result a pass may add.                                                    *)
N(kind, ins, outs, value) == [kind |-> kind, ins |-> ins, outs |-> outs, value |-> value]
MCNodes ==
  {<< N("Input", <<>>, <<1>>, 0), N("Operator", ins, <<3>>, 0), N("Output", <<3>>, <<>>, 3) >> :
     ins \in {<<1, 2>>, <<1>>}}

(* Views that NHWC data can show, and a flattening that it cannot.           *)
MCViews == {<<"Reshape", <<1, 2, 15, 1>>>>, <<"Reshape", <<1, 30>>>>, <<"Reshape", <<1, 2>>>>}

Edit  == INSTANCE GraphEdit WITH MaxNodes <- 4, MaxValue <- 4, Initializers <- {2}, GivenNodes <- MCNodes
View  == INSTANCE Views WITH MaxNodes <- 3
Nhwc  == INSTANCE Nhwc WITH MaxNodes <- 4, AllReaders <- FALSE, Views <- MCViews
Pool  == INSTANCE Nhwc WITH MaxNodes <- 3, AllReaders <- TRUE, Views <- {<<"Reshape", <<1, 30>>>>}
Fuse  == INSTANCE KernelFusion

-----------------------------------------------------------------------------
(* OpGraph's graphs.                                                         *)
Op(t) == [type |-> t]
Dummy == Op("Dummy")
Node(op, ins, outs) == [op |-> op, ins |-> ins, outs |-> outs]

(* The second operator may come before the first: ids say nothing of the order. *)
Given(a, b, outputs, swap) ==
  [ nodes |-> << Node(Dummy, <<>>, <<1>>), IF swap THEN b ELSE a, IF swap THEN a ELSE b >>
              \o [k \in DOMAIN outputs |-> Node(Dummy, <<outputs[k]>>, <<>>)],
    inputs |-> <<1>>, outputs |-> [k \in DOMAIN outputs |-> 3 + k],
    tensor |-> [v \in {2, 5} |-> "t"] ]

Graphs ==
  { Given(Node(Op(p), ia, <<3>>), Node(Op("Add"), ib, <<4>>), outputs, swap) :
      p \in {"Add", "Mul"}, ia \in {<<1>>, <<1, 2>>, <<1, NoValue>>, <<5, 1>>},
      ib \in {<<3>>, <<1>>, <<3, 1>>, <<1, 3>>, <<3, 3>>, <<1, 2>>},
      outputs \in {<<4>>, <<3, 4>>, <<4, 4>>}, swap \in BOOLEAN }

Pending == [done |-> FALSE]

CompareInit ==
  /\ left \in Graphs /\ right \in {g \in Graphs : Len(g.outputs) = Len(left.outputs)}
  /\ equal = Pending /\ order = Pending /\ needed = Pending

Compare ==
  /\ equal = Pending
  /\ equal' = [done |-> TRUE, answer |-> StructurallyEqual(left, right)]
  /\ UNCHANGED <<left, right, order, needed>>

(* The nodes no output needs are what a transformation deletes. *)
RECURSIVE NeededBy(_, _)
NeededBy(g, v) ==
  IF v = NoValue \/ v \in DOMAIN g.tensor THEN {}
  ELSE {Definer(g, v)} \cup UNION {NeededBy(g, w) : w \in ValuesIn(g.nodes[Definer(g, v)])}
Needed(g) == UNION {NeededBy(g, OutputValues(g)[k]) : k \in DOMAIN g.outputs}

Clean ==
  /\ left = right /\ needed = Pending
  /\ needed' = [done |-> TRUE, graph |-> DeleteNodes(left, Operators(left) \ Needed(left))]
  /\ UNCHANGED <<left, right, equal, order>>

Order ==
  /\ left = right /\ order = Pending
  /\ order' = [done |-> TRUE, nodes |-> TopologicalOrder(left)]
  /\ UNCHANGED <<left, right, equal, needed>>

-----------------------------------------------------------------------------
(* Layout's tensors: their dimensions, and the permutations of their axes.   *)
MCSizes == {1, 4, 6, 8, 12}
MaxDims == 3

Shapes(size, n) == {d \in [1..n -> {x \in 1..size : size % x = 0}] : Product(d) = size}
AllShapes(size) == UNION {Shapes(size, n) : n \in 1..MaxDims}
Perms(n) == {p \in [1..n -> 1..n] : \A i, j \in 1..n : i # j => p[i] # p[j]}

ShapeInit ==
  /\ \E size \in MCSizes : \E d \in AllShapes(size) : \E p \in Perms(Len(d)) :
       view = TransposeType(TypeOf(d), p) /\ target \in AllShapes(size)
  /\ got = {} /\ done = FALSE
Reshape == ~ done /\ done' = TRUE /\ got' = TryReshape(view, target) /\ UNCHANGED <<view, target>>

-----------------------------------------------------------------------------
NoEdit  == nodes = 0 /\ deleted = 0 /\ used = 0 /\ defined = 0
NoOps   == left = 0 /\ right = 0 /\ equal = 0 /\ order = 0 /\ needed = 0
NoShape == view = 0 /\ target = 0 /\ got = 0 /\ done = 0
NoView  == given = 0 /\ lowered = 0 /\ stage = 0
NoFuse  == graph = 0 /\ cpu = 0 /\ kernels = 0

MCInit ==
  \/ part = "edit"    /\ Edit!Init  /\ NoOps /\ NoShape /\ NoView /\ NoFuse
  \/ part = "compare" /\ CompareInit  /\ NoEdit /\ NoShape /\ NoView /\ NoFuse
  \/ part = "shape"   /\ ShapeInit  /\ NoEdit /\ NoOps /\ NoView /\ NoFuse
  \/ part = "view"    /\ View!Init  /\ NoEdit /\ NoOps /\ NoShape /\ NoFuse
  \/ part = "nhwc"    /\ Nhwc!Init  /\ NoEdit /\ NoOps /\ NoShape /\ NoFuse
  \/ part = "fuse"    /\ Fuse!Init  /\ NoEdit /\ NoOps /\ NoShape /\ NoView

MCNext ==
  /\ UNCHANGED part
  /\ \/ part = "edit"    /\ Edit!Next     /\ UNCHANGED <<ovars, lvars, vvars, fvars>>
     \/ part = "compare" /\ (Compare \/ Clean \/ Order) /\ UNCHANGED <<evars, lvars, vvars, fvars>>
     \/ part = "shape"   /\ Reshape       /\ UNCHANGED <<evars, ovars, vvars, fvars>>
     \/ part = "view"    /\ View!Next     /\ UNCHANGED <<evars, ovars, lvars, fvars>>
     \/ part = "nhwc"    /\ Nhwc!Next     /\ UNCHANGED <<evars, ovars, lvars, fvars>>
     \/ part = "fuse"    /\ Fuse!Build    /\ UNCHANGED <<evars, ovars, lvars, vvars>>

MCSpec == MCInit /\ [][MCNext]_mcvars

(* A Conv, and a Pool that something other than a Conv reads: another        *)
(* operator, or a flattening, as before a classifier's last layers.          *)
PoolInit == part = "pool" /\ Pool!Init /\ NoEdit /\ NoOps /\ NoShape /\ NoFuse
PoolSpec == PoolInit /\ [][Pool!Next /\ UNCHANGED <<part, evars, ovars, lvars, fvars>>]_mcvars

-----------------------------------------------------------------------------
(* What OpGraph promises. *)

(* Two graphs the comparison calls equal compute the same outputs: a pass  *)
(* whose test compares its result to an expected graph is not fooled.      *)
EqualComputeTheSame ==
  equal.done /\ equal.answer =>
    \A k \in DOMAIN left.outputs : Term(left, OutputValues(left)[k]) = Term(right, OutputValues(right)[k])

(* Graphs that differ in the numbers of their nodes and in which of two    *)
(* equal tensors they read are called equal.                               *)
Sharing(g) == {<<x, y>> \in {3, 4} \X {3, 4} : Term(g, x) = Term(g, y)}
RenamingsAreEqual ==
  equal.done /\ (\A v \in {3, 4} : Term(left, v) = Term(right, v)) /\ Sharing(left) = {<<3, 3>>, <<4, 4>>} =>
    (equal.answer <=> \A k \in DOMAIN left.outputs : Term(left, OutputValues(left)[k]) = Term(right, OutputValues(right)[k]))

(* The order has each operator once, after the operators it reads: the     *)
(* passes that walk it meet definitions before uses, kernels are built     *)
(* along it.                                                               *)
OrderRespectsReads ==
  order.done =>
    LET o == order.nodes
    IN  /\ Len(o) = Cardinality(Operators(left)) /\ {o[k] : k \in DOMAIN o} = Operators(left)
        /\ \A j, k \in DOMAIN o : o[k] \in Successors(left, o[j]) => j < k

(* Deleting what no output needs and numbering the rest anew leaves every  *)
(* output the same term over the same inputs.                              *)
DeletionKeepsOutputs ==
  needed.done =>
    \A k \in DOMAIN left.outputs :
      Term(needed.graph, OutputValues(needed.graph)[k]) = Term(left, OutputValues(left)[k])
-----------------------------------------------------------------------------
(* What Layout promises. *)

Elements == 0..(Size(view.dims) - 1)
Keeps(ty) == \A n \in Elements : AddressOf(ty, n) = AddressOf(view, n)

(* The groups a reshape is made of: a source block and a target block of   *)
(* the same trailing size, neither starting inside a dimension of the      *)
(* other it does not divide.                                               *)
Tails(dims) == {Inner(dims, i) : i \in 0..Len(dims)}
Nests == \A p \in Tails(view.dims), q \in Tails(target) : p % q = 0 \/ q % p = 0

(* A reshape that is possible shows every element where it was             *)
(* (try_reshape), when the dimensions divide each other.                   *)
NestedReshapeKeeps ==
  done /\ Nests => \A ty \in got : Keeps(ty)

(* The tests of try_reshape: the same elements, whatever the dimensions.   *)
ReshapeKeepsElements ==
  done => \A ty \in got : Keeps(ty)

(* No copy is made (AssignStrides inserts one) where strides would do.     *)
NoNeedlessCopy ==
  done /\ got = {} =>
    ~ \E s \in [DOMAIN target -> {0} \cup {AddressOf(view, n) : n \in Elements}] :
        \A n \in Elements : At([dims |-> target, stride |-> s], IndexOf(target, n)) = AddressOf(view, n)

(* A view that passes for contiguous is: the code that asserts it reads    *)
(* and writes by the element's number alone.                               *)
ContiguousIsLinear ==
  IsContiguous(view) <=> \A n \in Elements : AddressOf(view, n) = n

(* The storage that is allocated holds every element, and no more.         *)
StorageFits ==
  /\ \A n \in Elements : AddressOf(view, n) < StorageElements(view)
  /\ StorageElements(view) = Size(view.dims)

(* A view of some of the axes, broadcast to what numpy's rule makes of it  *)
(* and the target, is read at the coordinates that exist.                  *)
BroadcastReads ==
  LET dims == BroadcastShape(view.dims, target)
      lead == Len(dims) - Len(view.dims)
      own(idx) == [i \in DOMAIN view.dims |-> IF view.dims[i] = 1 THEN 0 ELSE idx[lead + i]]
  IN Broadcastable(view.dims, target) =>
       /\ dims = BroadcastShape(target, view.dims)
       /\ \A n \in 0..(Size(dims) - 1) :
            AddressOf(Broadcast(view, dims), n) = At(view, own(IndexOf(dims, n)))
-----------------------------------------------------------------------------
(* The modules' properties, each for its own part. *)

(* GraphModifier: the indices are the truth about the live nodes, whatever a *)
(* live node reads is defined by a live one, and outputs are never swept.    *)
IndicesTrue ==
  part = "edit" =>
    /\ Edit!TypeOK /\ Edit!UsedTrue /\ Edit!DefinedTrue
    /\ Edit!ReadsDefined /\ Edit!OutputsKept

(* Graph::eq: graphs called equal compute the same, and the numbers of nodes *)
(* do not matter; simple_topological_order: operators come after those they  *)
(* read; delete_nodes: the outputs keep their terms.                         *)
GraphsCompared ==
  part = "compare" =>
    /\ EqualComputeTheSame /\ RenamingsAreEqual
    /\ OrderRespectsReads /\ DeletionKeepsOutputs

(* try_reshape finds the view that shows every element where it was, and no  *)
(* copy is made without need; is_contiguous, storage_len and broadcast are   *)
(* true of the addresses.  From AssignStrides to ContiguousFolding every     *)
(* view has the strides that show it, what walks memory linearly is          *)
(* contiguous, and the caller finds every output in place.                   *)
ViewsShowElements ==
  /\ part = "shape" =>
       /\ NestedReshapeKeeps /\ NoNeedlessCopy
       /\ ContiguousIsLinear /\ StorageFits /\ BroadcastReads
  /\ part = "view" =>
       /\ View!OutputsInPlace /\ View!LinearReadsDense
       /\ View!StridesAgree /\ View!CopiesFolded

(* NHWC2NCHWInsertion to Lowering: every output is the tensor it was, in the *)
(* layout it had, values have the types their operators give them, no        *)
(* assertion of NHWC2NCHWSinkAndFold fails, and a conversion that is left    *)
(* has its use.                                                              *)
ConversionsKeep ==
  part = "nhwc" =>
    /\ Nhwc!OutputsMeanTheSame /\ Nhwc!DeclaredTypesHold
    /\ Nhwc!NeverPanics /\ Nhwc!ConversionsEarnTheirPlace

(* NHWC2NCHWSinkAndFold: what reads a conversion that was marked to be sunk  *)
(* is elementwise, as do_sink asserts.                                       *)
NeverPanics == Pool!NeverPanics

(* try_fuse: the kernels compute what the graph says, every operator is in   *)
(* one of them, and what one group alone reads is fused into it;             *)
(* Schedule::new: no two kernels share a workspace.                          *)
KernelsCompute ==
  part = "fuse" =>
    /\ Fuse!KernelsComputeGraph /\ Fuse!EachOperatorOnce
    /\ Fuse!WorkspacesApart /\ Fuse!FusesAllItCan
=============================================================================
