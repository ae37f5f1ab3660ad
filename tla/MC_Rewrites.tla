------------------------------ MODULE MC_Rewrites ------------------------------
(* The passes of create_optimize_passes one after the other on the graphs    *)
(* exporters write (the patterns the passes are for, in every form they take *)
(* in), and on every chain of a few operators.                               *)
EXTENDS Rewrites, TLC
LOCAL INSTANCE SequencesExt
LOCAL INSTANCE FiniteSetsExt

CONSTANTS Families,  \* the families of graphs of the run
          MaxChain,  \* the most operators of a chain
          Seeds      \* the tensors the inputs are

-----------------------------------------------------------------------------
(* Writing a graph: inputs, then initializers, then what each node defines.  *)

Seeded(dims, seed) == Tensor(F32, dims, [k \in 1..Product(dims) |-> (seed * k * k + 3 * k + seed + 1) % Prime])
N(op, a, ins) == [op |-> op, a |-> a, ins |-> ins]
Outputs(g) == LET outs == IdsOf(g, {"Output"}) IN [i \in DOMAIN outs |-> g.nodes[outs[i]].ins[1]]
Results(outs, env) ==
  IF \E i \in DOMAIN outs : outs[i] \notin DOMAIN env THEN <<>> ELSE [i \in DOMAIN outs |-> env[outs[i]]]
Case(inputs, tensors, nodes, outs) ==
  LET first == Len(inputs) + Len(tensors)
  IN [g |-> [nodes |-> [i \in DOMAIN nodes |-> Node(nodes[i].op, nodes[i].a, nodes[i].ins, first + i)]
                       \o [i \in DOMAIN outs |-> Node("Output", <<>>, <<outs[i]>>, 0)],
             types |-> <<>>, tensors |-> [v \in (Len(inputs) + 1)..first |-> tensors[v - Len(inputs)]], failed |-> FALSE],
      inputs |-> inputs, results |-> <<>>, gone |-> {}]
(* The types, and what the outputs are: env is the meaning of the case's graph. *)
Solved(case, env) ==
  [case EXCEPT !.g.types = [v \in DOMAIN env |-> TypeOfTensor(env[v])], !.results = Results(Outputs(case.g), env)]
Gone(case, ops) == [case EXCEPT !.gone = ops]
LastOf(inputs, tensors, nodes) == <<Len(inputs) + Len(tensors) + Len(nodes)>>
Whole(inputs, tensors, nodes) == Case(inputs, tensors, nodes, LastOf(inputs, tensors, nodes))
(* The operands of a commutative operator, in either order. *)
Swap(s, ins) == IF s THEN Reverse(ins) ELSE ins

(* x; 3, CubeFactor, RootFactor, 1, Half. where the half is: at x, at the other side, at the end. *)
GeLUs(seeds) ==
  {Gone(Whole(<<Seeded(<<2>>, seed)>>, [i \in 1..5 |-> ScalarOf(<<3, CubeFactor, RootFactor, 1, Half>>[i])],
              <<N("Pow", <<>>, <<1, 2>>), N("Mul", <<>>, Swap(s, <<7, 3>>)), N("Add", <<>>, Swap(s, <<1, 8>>)),
                N("Mul", <<>>, Swap(s, <<9, 4>>)), N("Tanh", <<>>, <<10>>), N("Add", <<>>, Swap(s, <<11, 5>>))>>
              \o (IF bert THEN <<N("Mul", <<>>, Swap(s, <<12, 6>>)), N("Mul", <<>>, Swap(t, <<13, 1>>))>>
                  ELSE <<N("Mul", <<>>, Swap(t, <<1, 6>>)), N("Mul", <<>>, Swap(s, <<13, 12>>))>>)),
        {"Tanh"}) : s \in BOOLEAN, t \in BOOLEAN, bert \in BOOLEAN, seed \in seeds}
(* The same without the last Mul of BERT. *)
HalfGeLUs(seeds) ==
  {Whole(<<Seeded(<<2>>, seed)>>, [i \in 1..5 |-> ScalarOf(<<3, CubeFactor, RootFactor, 1, Half>>[i])],
         <<N("Pow", <<>>, <<1, 2>>), N("Mul", <<>>, <<7, 3>>), N("Add", <<>>, <<1, 8>>), N("Mul", <<>>, <<9, 4>>),
           N("Tanh", <<>>, <<10>>), N("Add", <<>>, <<11, 5>>), N("Mul", <<>>, <<12, 6>>)>>) : seed \in seeds}

(* x, scale, bias, eps, 2, 1: the deviation squared by Pow or Mul, the root inverted by Reciprocal or Div. *)
LayerNorms(seeds) ==
  {Gone(Whole(<<Seeded(<<2, 3>>, seed)>>, <<Seeded(<<3>>, 2), Seeded(<<3>>, 5), ScalarOf(3), ScalarOf(2), ScalarOf(1)>>,
              <<N("ReduceMean", <<2, 1>>, <<1>>), N("Sub", <<>>, <<1, 7>>),
                IF pow THEN N("Pow", <<>>, <<8, 5>>) ELSE N("Mul", <<>>, <<8, 8>>),
                N("ReduceMean", <<2, 1>>, <<9>>), N("Add", <<>>, Swap(s, <<10, 4>>)), N("Sqrt", <<>>, <<11>>)>>
              \o (IF form = "div" THEN <<N("Div", <<>>, <<8, 12>>), N("Mul", <<>>, Swap(s, <<13, 2>>)), N("Add", <<>>, Swap(s, <<14, 3>>))>>
                  ELSE IF form = "mul" THEN <<N("Reciprocal", <<>>, <<12>>), N("Mul", <<>>, <<8, 13>>), N("Mul", <<>>, Swap(s, <<14, 2>>)),
                                              N("Add", <<>>, Swap(s, <<15, 3>>))>>
                  ELSE <<N("Reciprocal", <<>>, <<12>>), N("Mul", <<>>, Swap(s, <<13, 2>>)), N("Mul", <<>>, Swap(s, <<1, 14>>)),
                         N("Mul", <<>>, Swap(s, <<7, 14>>)), N("Sub", <<>>, <<3, 16>>), N("Add", <<>>, Swap(s, <<15, 17>>))>>)),
        {"ReduceMean"}) : s \in BOOLEAN, pow \in BOOLEAN, form \in {"div", "mul", "bert"}, seed \in seeds}

RMSNorms(seeds) ==
  {Gone(Whole(<<Seeded(<<2, 3>>, seed)>>, <<Seeded(<<3>>, 2), ScalarOf(1), ScalarOf(3), ScalarOf(2)>>,
              <<IF pow THEN N("Pow", <<>>, <<1, 5>>) ELSE N("Mul", <<>>, <<1, 1>>),
                N("ReduceMean", <<2, 1>>, <<6>>), N("Add", <<>>, Swap(s, <<7, 4>>)), N("Sqrt", <<>>, <<8>>),
                IF div THEN N("Div", <<>>, <<3, 9>>) ELSE N("Reciprocal", <<>>, <<9>>),
                N("Mul", <<>>, Swap(s, <<1, 10>>)), N("Cast", <<F32>>, <<11>>), N("Mul", <<>>, Swap(s, <<12, 2>>))>>),
        {"ReduceMean"}) : s \in BOOLEAN, pow \in BOOLEAN, div \in BOOLEAN, seed \in seeds}

(* q, k, v of two heads. The scores are scaled after the product, or q and k before; the mask is added or multiplied. *)
Heads == <<1, 2, 2, 2>>
Square == <<1, 1, 2, 2>>
Upper(below, above) == Tensor(F32, Square, <<below, above, below, below>>)
Masks == {"none", "input", "causal", "late", "penalty"}
AttentionNodes(scaled, turned, mask, guarded) ==
  LET kt == IF turned THEN <<N("Transpose", <<1, 2, 4, 3>>, <<2>>)>> ELSE <<>>
      keys == IF turned THEN 11 ELSE 2
      b == 10 + Len(kt)
      product == IF scaled = "after" THEN <<N("MatMul", <<>>, <<1, keys>>), N("Mul", <<>>, <<b + 1, 5>>)>>
                 ELSE <<N("Mul", <<>>, <<1, 5>>), N("Mul", <<>>, <<keys, 5>>), N("MatMul", <<>>, <<b + 1, b + 2>>)>>
      qk == b + Len(product)
      maskedBy == CASE mask = "none" -> <<>>
                    [] mask = "input" -> <<N("Add", <<>>, <<qk, 4>>)>>
                    [] mask = "causal" -> <<N("Add", <<>>, <<6, qk>>)>>
                    [] mask = "late" -> <<N("Add", <<>>, <<qk, 10>>)>>
                    [] mask = "penalty" -> <<N("Mul", <<>>, <<qk, 7>>), N("Sub", <<>>, <<qk + 1, 8>>)>>
      sm == qk + Len(maskedBy) + 1
      guard == IF guarded THEN <<N("IsNaN", <<>>, <<sm>>), N("Where", <<>>, <<sm + 1, 9, sm>>)>> ELSE <<>>
  IN kt \o product \o maskedBy \o <<N("Softmax", <<>>, <<sm - 1>>)>> \o guard \o <<N("MatMul", <<>>, <<sm + Len(guard), 3>>)>>
Attentions(seeds) ==
  {Gone(Whole(<<Seeded(Heads, seed), Seeded(Heads, 3), Seeded(Heads, 5), Seeded(Square, 4)>>,
              <<ScalarOf(3), Upper(0, NInf), Upper(1, 0), Upper(0, PInf), ScalarOf(0), Tensor(F32, Square, <<0, 0, 0, NInf>>)>>,
              AttentionNodes(scaled, turned, mask, guarded)), {"Softmax"}) :
     scaled \in {"after", "before"}, turned \in BOOLEAN, mask \in Masks, guarded \in BOOLEAN, seed \in seeds}

(* A convolution of two channels to three, its bias an initializer or none. *)
Channels(seed) == Seeded(<<3>>, seed)
Convs(seeds) ==
  {Gone(Whole(<<Seeded(<<1, 2, 2>>, seed)>>,
              <<Seeded(<<3, 2, 1>>, 2), Channels(3)>> \o [i \in 1..4 |-> Channels(3 + i)],
              <<N("Conv", <<0>>, IF biased THEN <<1, 2, 3>> ELSE <<1, 2>>)>>
              \o (IF normed THEN <<N("BatchNormalization", <<2>>, <<8, 4, 5, 6, 7>>)>> ELSE <<>>)
              \o (IF active THEN <<N("ReLU", <<>>, <<IF normed THEN 9 ELSE 8>>)>> ELSE <<>>)), {"BatchNormalization"}) :
     biased \in BOOLEAN, normed \in BOOLEAN, active \in BOOLEAN, seed \in seeds}

(* Products of every pair of shapes, bare, prescaled, and with something added. *)
Lefts == {<<2, 3>>, <<1, 2, 3>>, <<2, 2, 3>>, <<1, 1, 2, 3>>, <<2, 1, 2, 3>>}
Rights == {<<3, 2>>, <<1, 3, 2>>, <<2, 3, 2>>, <<1, 2, 3, 2>>}
Products(seeds) ==
  {Whole(<<Seeded(l, seed), Seeded(r, 4)>>, <<ScalarOf(3), Seeded(<<2>>, 2)>>,
         <<N("Mul", <<>>, <<1, 3>>), N("MatMul", <<>>, <<IF scaled THEN 5 ELSE 1, 2>>),
           N("Add", <<>>, <<6, IF added = "row" THEN 4 ELSE 3>>), N("ReLU", <<>>, <<IF added = "no" THEN 6 ELSE 7>>)>>) :
     l \in Lefts, r \in Rights, scaled \in BOOLEAN, added \in {"no", "row", "one"}, seed \in seeds}

(* A quantised weight, read along its rows. *)
Dequants(seeds) ==
  {Whole(<<Seeded(<<2, 3>>, seed)>>, <<[Seeded(<<3, 3>>, 2) EXCEPT !.dt = I64], Seeded(<<3>>, 4), Seeded(<<3>>, 6)>>,
         <<N("DequantizeLinear", <<axis>>, <<2, 3>>), N("Transpose", <<2, 1>>, <<5>>), N("MatMul", <<>>, <<1, IF turned THEN 6 ELSE 5>>)>>
         \o (IF added THEN <<N("Add", <<>>, <<7, 4>>)>> ELSE <<>>)) : axis \in 1..2, turned \in BOOLEAN, added \in BOOLEAN, seed \in seeds}

(* What the passes take for something else, one family each. *)
Small == <<2, 2>>
(* Something added to a product that is larger than it. *)
WideBiases(seeds) ==
  {Whole(<<Seeded(<<1, 2>>, seed), Seeded(Small, 3)>>, <<Seeded(Small, 4)>>,
         <<N("MatMul", <<>>, <<1, 3>>), N("Add", <<>>, <<4, 2>>), N("ReLU", <<>>, <<5>>)>>) : seed \in seeds}
(* A Gemm without C whose beta is ONNX's default. *)
DefaultGemms(seeds) ==
  {Whole(<<Seeded(Small, seed)>>, <<Seeded(Small, 4), Seeded(<<2>>, 3)>>,
         <<N("Gemm", <<1, 1, 0, 0>>, <<1, 2>>), N("Add", <<>>, <<4, 3>>), N("ReLU", <<>>, <<5>>)>>) : seed \in seeds}
(* A convolution whose bias is computed. *)
ComputedBiases(seeds) ==
  {Whole(<<Seeded(<<1, 2, 2>>, seed), Channels(3)>>, <<Seeded(<<3, 2, 1>>, 2)>> \o [i \in 1..4 |-> Channels(3 + i)],
         <<N("Conv", <<0>>, <<1, 3, 2>>), N("BatchNormalization", <<2>>, <<8, 4, 5, 6, 7>>)>>) : seed \in seeds}
(* A penalty that is a number. *)
FinitePenalties(seeds) ==
  {Whole(<<Seeded(Small, seed)>>, <<Tensor(F32, Small, <<1, 0, 1, 1>>), Tensor(F32, Small, <<0, 5, 0, 0>>)>>,
         <<N("Mul", <<>>, <<1, 2>>), N("Sub", <<>>, <<4, 3>>), N("Softmax", <<>>, <<5>>)>>) : seed \in seeds}
(* Two transposes in front of a product. *)
TurnedTwice(seeds) ==
  {Whole(<<Seeded(Small, seed)>>, <<Seeded(Small, 4)>>,
         <<N("Transpose", <<2, 1>>, <<1>>), N("Transpose", <<2, 1>>, <<3>>), N("MatMul", <<>>, <<4, 2>>)>>) : seed \in seeds}

-----------------------------------------------------------------------------
(* Chains: every operator works on what the one before it made, of shape     *)
(* 2 x 2; what it needs besides is an initializer, or the input once more.   *)

ChainOps == {"MatMul", "LeftMatMul", "Gemm", "Add", "AddRow", "Mul", "Div", "Square", "Sub", "ReLU", "Turn",
             "Flatten", "Unsqueeze", "Itself"}
Link(op, v, next) ==
  CASE op = "MatMul" -> <<N("MatMul", <<>>, <<v, 2>>)>>
    [] op = "LeftMatMul" -> <<N("MatMul", <<>>, <<2, v>>)>>
    [] op = "Gemm" -> <<N("Gemm", <<1, 0, 1, 1>>, <<v, 2>>)>>
    [] op = "Add" -> <<N("Add", <<>>, <<v, 3>>)>>
    [] op = "AddRow" -> <<N("Add", <<>>, <<4, v>>)>>
    [] op = "Mul" -> <<N("Mul", <<>>, <<v, 5>>)>>
    [] op = "Div" -> <<N("Div", <<>>, <<v, 3>>)>>
    [] op = "Square" -> <<N("Pow", <<>>, <<v, 6>>)>>
    [] op = "Sub" -> <<N("Sub", <<>>, <<4, v>>)>>
    [] op = "ReLU" -> <<N("ReLU", <<>>, <<v>>)>>
    [] op = "Turn" -> <<N("Transpose", <<2, 1>>, <<v>>)>>
    [] op = "Flatten" -> <<N("Flatten", <<1, 4>>, <<v>>), N("Reshape", <<2, 2>>, <<next>>)>>
    [] op = "Unsqueeze" -> <<N("Unsqueeze", <<1, 2, 2>>, <<v>>), N("MatMul", <<>>, <<next, 2>>), N("Squeeze", <<2, 2>>, <<next + 1>>)>>
    [] op = "Itself" -> <<N("Add", <<>>, <<v, 1>>)>>
(* No two transposes in a row: the family "turned twice" is about them. *)
Chain(ops, outs, seed) ==
  LET nodes == FoldLeft(LAMBDA acc, op : acc \o Link(op, IF acc = <<>> THEN 1 ELSE 6 + Len(acc), 7 + Len(acc)), <<>>, ops)
      inputs == <<Seeded(<<2, 2>>, seed)>>
      tensors == <<Seeded(<<2, 2>>, 4), Seeded(<<2, 2>>, 3), Seeded(<<2>>, 5), ScalarOf(3), ScalarOf(2)>>
  IN Case(inputs, tensors, nodes, IF outs = 1 THEN <<6 + Len(nodes)>> ELSE <<7, 6 + Len(nodes)>>)
Chains(seeds) ==
  UNION {{Chain(ops, outs, seed) : ops \in {s \in [1..n -> ChainOps] : \A i \in 1..(n - 1) : s[i] = "Turn" => s[i + 1] # "Turn"}, outs \in 1..2, seed \in seeds} :
         n \in 1..MaxChain}

Cases(family) ==
  CASE family = "gelu" -> GeLUs(Seeds)
    [] family = "half gelu" -> HalfGeLUs(Seeds)
    [] family = "wide bias" -> WideBiases(Seeds)
    [] family = "default gemm" -> DefaultGemms(Seeds)
    [] family = "computed bias" -> ComputedBiases(Seeds)
    [] family = "finite penalty" -> FinitePenalties(Seeds)
    [] family = "turned twice" -> TurnedTwice(Seeds)
    [] family = "layer norm" -> LayerNorms(Seeds)
    [] family = "rms norm" -> RMSNorms(Seeds)
    [] family = "attention" -> Attentions(Seeds)
    [] family = "conv" -> Convs(Seeds)
    [] family = "product" -> Products(Seeds)
    [] family = "dequant" -> Dequants(Seeds)
    [] family = "chain" -> Chains({1})

VARIABLES given, graph, left
vars == <<given, graph, left>>

NotYet == [g |-> [nodes |-> <<>>, types |-> <<>>, tensors |-> <<>>, failed |-> FALSE], inputs |-> <<>>, results |-> <<>>, gone |-> {}]
Init == given = NotYet /\ graph = NotYet.g /\ left = <<>>
(* A graph comes for a target: convolutions take in their activations on CUDA only. *)
Receive ==
  /\ given = NotYet
  /\ \E family \in Families, cuda \in BOOLEAN :
       /\ family # "conv" => ~ cuda
       /\ \E case \in Cases(family) : given' = Solved(case, Meaning(case.g, case.inputs))
       /\ left' = Passes(cuda)
  /\ graph' = given'.g
Rewrite ==
  /\ left # <<>> /\ ~ graph.failed
  /\ graph' = RunPass(Head(left), graph)
  /\ left' = Tail(left)
  /\ UNCHANGED given
Next == Receive \/ Rewrite
Spec == Init /\ [][Next]_vars

-----------------------------------------------------------------------------
MadeBy(g) == {g.nodes[i].out : i \in DOMAIN g.nodes} \ {0}

(* A graph keeps its shape (graph.rs): every operand is an input, an          *)
(* initializer or the one result of a node, no node is behind itself, and     *)
(* each value has one type.                                                   *)
TypeOK ==
  /\ graph.failed \in BOOLEAN
  /\ \A i \in DOMAIN graph.nodes : LET n == graph.nodes[i] IN
       /\ n.out \in 0..Len(graph.types)
       /\ \A x \in DOMAIN n.ins : n.ins[x] \in DOMAIN given.inputs \cup DOMAIN graph.tensors \cup MadeBy(graph)
       /\ n.out # 0 => Definers(graph, n.out) = {i}

(* What the outputs are does not change from pass to pass (optimize.rs: the   *)
(* passes fuse and reorder, they do not compute something else).              *)
OutputsKept == ~ graph.failed => Results(Outputs(graph), Meaning(graph, given.inputs)) = given.results

(* Every value a node makes has the type it is declared with: shape inference *)
(* is not run again after these passes, code generation takes the types as    *)
(* they are (transform/shape/verify.rs checks the shapes at the end).         *)
TypedIn(env) == \A v \in MadeBy(graph) : v \in DOMAIN env /\ TypeOfTensor(env[v]) = graph.types[v]
DeclaredTypes == ~ graph.failed => TypedIn(Meaning(graph, given.inputs))

(* No pass panics: the type check of a replacement, the assertions on beta    *)
(* and the unwraps (transform/modify.rs, optimize/gemm_add_fusion.rs).        *)
NothingRefused == ~ graph.failed

(* What a pattern is made of is gone at the end, in each form exporters write *)
(* it (src/tests/validated_models/graph_optimization.rs).                     *)
PatternsFused ==
  left = <<>> /\ ~ graph.failed => \A i \in DOMAIN graph.nodes : graph.nodes[i].op \notin given.gone

(* The passes do what they are for and leave a graph the next ones accept   *)
(* (optimize.rs).                                                           *)
PassesSound == TypeOK /\ DeclaredTypes /\ NothingRefused /\ PatternsFused
=============================================================================
