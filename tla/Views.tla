-------------------------------- MODULE Views ---------------------------------
(***************************************************************************)
(* Reshapes and transposes without copies: the passes that give every      *)
(* value its strides, put copies where strides will not do, bundle views   *)
(* and fold the copies into them (src/transform/lower/strides.rs,          *)
(* lower/contiguous_insertion.rs, transform/utils.rs, epilog.rs), and the  *)
(* copy the CPU makes (build_contiguous).                                  *)
(*                                                                         *)
(* A graph is [nodes, types]; a node is [kind, arg, in, out], one value    *)
(* from another, the graph's input being value 1. Kinds: Reshape (arg the  *)
(* dimensions), Transpose (the permutation), Reinterpret and Contiguous (a *)
(* sequence of views), Pointwise (an operator that reads through strides), *)
(* Linear (one of those that need a contiguous input) and Output.          *)
(***************************************************************************)
EXTENDS Layout, Integers, TLC
LOCAL INSTANCE SequencesExt
LOCAL INSTANCE FiniteSetsExt
LOCAL INSTANCE Functions

Node(kind, arg, in, out) == [kind |-> kind, arg |-> arg, in |-> in, out |-> out]
Users(g, v) == {i \in DOMAIN g.nodes : g.nodes[i].in = v}
Definers(g, v) == {i \in DOMAIN g.nodes : g.nodes[i].out = v}

(* A new node with a new value of the type; its value is Newest. *)
Newest(g) == Len(g.types)
WithNode(g, kind, arg, in, ty) ==
  [nodes |-> Append(g.nodes, Node(kind, arg, in, Len(g.types) + 1)), types |-> Append(g.types, ty)]
Redirect(g, nodes, old, new) ==
  [g EXCEPT !.nodes = [i \in DOMAIN @ |-> IF i \in nodes /\ @[i].in = old THEN [@[i] EXCEPT !.in = new] ELSE @[i]]]
ReplaceValue(g, old, new) == Redirect(g, DOMAIN g.nodes, old, new)

(* update_deleted_nodes: what no output needs. *)
RECURSIVE Behind(_, _)
Behind(g, ids) ==
  LET more == ids \cup UNION {Definers(g, g.nodes[i].in) : i \in ids}
  IN IF more = ids THEN ids ELSE Behind(g, more)
Sweep(g) ==
  LET live == Behind(g, {i \in DOMAIN g.nodes : g.nodes[i].kind = "Output"})
  IN [g EXCEPT !.nodes = LET kept == SelectSeq([i \in DOMAIN g.nodes |-> i], LAMBDA i : i \in live)
                         IN [x \in DOMAIN kept |-> g.nodes[kept[x]]]]

RECURSIVE Depth(_, _)
Depth(g, v) == IF Definers(g, v) = {} THEN 0 ELSE 1 + Depth(g, g.nodes[CHOOSE i \in Definers(g, v) : TRUE].in)
TopologicalOrder(g) ==
  FlattenSeq([d \in 1..(Len(g.nodes) + 1) |->
                SelectSeq([i \in DOMAIN g.nodes |-> i], LAMBDA i : Depth(g, g.nodes[i].in) = d - 1)])

-----------------------------------------------------------------------------
(* ContiguousInsertion: the operators that need it read a contiguous copy, *)
(* one that is there already if there is.                                  *)

InsertContiguous(g, id) ==
  LET v == g.nodes[id].in
      copies == {i \in Users(g, v) : g.nodes[i].kind = "Contiguous"}
      made == IF copies # {} THEN g ELSE WithNode(g, "Contiguous", <<>>, v, Dense(g.types[v]))
  IN Redirect(made, {id}, v, IF copies # {} THEN g.nodes[CHOOSE i \in copies : TRUE].out ELSE Newest(made))
ContiguousInsertion(g) ==
  FoldLeft(LAMBDA h, id : InsertContiguous(h, id), g,
           SelectSeq([i \in DOMAIN g.nodes |-> i], LAMBDA i : g.nodes[i].kind = "Linear"))

-----------------------------------------------------------------------------
(* AssignStrides: every output gets a copy; then types are inferred, from  *)
(* the input on, and a Reshape of what no strides can show reads a copy.   *)

InferType(ty, n) ==
  CASE n.kind = "Reshape" -> TryReshape(ty, n.arg)
    [] n.kind = "Transpose" -> {TransposeType(ty, n.arg)}
    [] OTHER -> {Dense(ty)}

CopyOutputs(g) ==
  FoldLeft(LAMBDA h, id : LET v == h.nodes[id].in
                              made == WithNode(h, "Contiguous", <<>>, v, Dense(h.types[v]))
                          IN Redirect(made, {id}, v, Newest(made)),
           g, SelectSeq([i \in DOMAIN g.nodes |-> i], LAMBDA i : g.nodes[i].kind = "Output"))

(* One node of the worklist: the graph with its output's type, and the     *)
(* node the value's users read now.                                        *)
ComputeStrides(g, id) ==
  LET n == g.nodes[id]
      inferred == InferType(g.types[n.in], n)
  IN IF inferred # {}
     THEN [g |-> [g EXCEPT !.types[n.out] = CHOOSE ty \in inferred : TRUE], out |-> n.out]
     ELSE LET dense == Dense(g.types[n.in])
              copied == WithNode(g, "Contiguous", <<>>, n.in, dense)
              made == WithNode(copied, "Reshape", n.arg, Newest(copied), CHOOSE ty \in TryReshape(dense, n.arg) : TRUE)
          IN [g |-> ReplaceValue(made, n.out, Newest(made)), out |-> Newest(made)]

RECURSIVE Worklist(_, _, _)
Worklist(g, queue, visited) ==
  IF queue = <<>> THEN g
  ELSE LET step == ComputeStrides(g, Head(queue))
           next == SetToSeq(Users(step.g, step.out) \ visited)
       IN Worklist(step.g, Tail(queue) \o next, visited \cup ToSet(next))
AssignStrides(g) ==
  LET h == CopyOutputs(g)
      outputs == {i \in DOMAIN h.nodes : h.nodes[i].kind = "Output"}
      first == SetToSeq(Users(h, 1) \ outputs)
  IN Worklist(h, first, outputs \cup ToSet(first))

-----------------------------------------------------------------------------
(* ReinterpretConversion: a view that something else than a view reads is  *)
(* one Reinterpret of what its chain of views starts from.                 *)

IsView(n) == n.kind \in {"Reshape", "Transpose"}
ViewOf(g, n) ==
  IF n.kind = "Reshape" THEN <<"Reshape", g.types[n.in].dims, g.types[n.out].dims>> ELSE <<"Transpose", n.arg>>

(* The source of a chain of views and the views, from a node back. *)
RECURSIVE Chain(_, _)
Chain(g, id) ==
  LET n == g.nodes[id]
      before == {i \in Definers(g, n.in) : IsView(g.nodes[i])}
  IN IF before = {} THEN [source |-> n.in, ops |-> <<ViewOf(g, n)>>]
     ELSE LET c == Chain(g, CHOOSE i \in before : TRUE) IN [c EXCEPT !.ops = Append(@, ViewOf(g, n))]
ReinterpretConversion(g) ==
  FoldLeft(LAMBDA h, id :
             LET v == h.nodes[id].out
                 c == Chain(h, id)
                 made == WithNode(h, "Reinterpret", c.ops, c.source, h.types[v])
             IN IF \E i \in Users(h, v) : ~ IsView(h.nodes[i]) THEN ReplaceValue(made, v, Newest(made)) ELSE h,
           g, Reverse(SelectSeq(TopologicalOrder(g), LAMBDA id : IsView(g.nodes[id]))))

-----------------------------------------------------------------------------
(* ContiguousElimination (CUDA): a copy of what is contiguous already. *)

ContiguousElimination(g) ==
  FoldLeft(LAMBDA h, id : ReplaceValue(h, h.nodes[id].out, h.nodes[id].in), g,
           SelectSeq([i \in DOMAIN g.nodes |-> i],
                     LAMBDA id : LET n == g.nodes[id]
                                 IN /\ n.kind = "Contiguous"
                                    /\ IsContiguous(g.types[n.in])
                                    /\ g.types[n.in].dims = g.types[n.out].dims))

-----------------------------------------------------------------------------
(* ContiguousFolding: a chain of views and copies with one reader each is  *)
(* one copy. forward is fold_forward: without it chains have one node.     *)

Folds(n) == n.kind \in {"Reinterpret", "Contiguous"}
RECURSIVE Forward(_, _)
(* The nodes of a chain after a value. *)
Forward(g, v) ==
  LET users == Users(g, v)
  IN IF Cardinality(users) = 1 /\ \A i \in users : Folds(g.nodes[i])
     THEN LET id == CHOOSE i \in users : TRUE IN <<id>> \o Forward(g, g.nodes[id].out) ELSE <<>>
StartsChain(g, id) ==
  LET v == g.nodes[id].in
  IN /\ Folds(g.nodes[id])
     /\ \/ \A i \in Definers(g, v) : ~ Folds(g.nodes[i])
        \/ Cardinality(Users(g, v)) # 1
FoldChain(g, start, forward) ==
  LET chain == IF forward THEN <<start>> \o Forward(g, g.nodes[start].out) ELSE <<start>>
      final == g.nodes[chain[Len(chain)]].out
      made == WithNode(g, "Contiguous", FlattenSeq([x \in DOMAIN chain |-> g.nodes[chain[x]].arg]),
                       g.nodes[start].in, g.types[final])
  IN IF Len(chain) > 1 /\ \E x \in DOMAIN chain : g.nodes[chain[x]].kind = "Contiguous"
     THEN ReplaceValue(made, final, Newest(made)) ELSE g
ContiguousFolding(g, forward) ==
  FoldLeft(LAMBDA h, id : FoldChain(h, id, forward), g, SelectSeq(TopologicalOrder(g), LAMBDA id : StartsChain(g, id)))

-----------------------------------------------------------------------------
(* The lowering passes and the epilog's, NHWC apart. *)
LowerPasses(g) == Sweep(AssignStrides(Sweep(ContiguousInsertion(g))))
EpilogPasses(g, cuda) ==
  LET viewed == Sweep(ReinterpretConversion(g))
      copied == IF cuda THEN Sweep(ContiguousElimination(viewed)) ELSE viewed
  IN Sweep(ContiguousFolding(copied, TRUE))

-----------------------------------------------------------------------------
(* build_contiguous: the source address of the k-th element of the copy's  *)
(* memory, back through the views.                                         *)

(* One view back: an element's number and the dimensions it is counted in. *)
(* Mutant of Back: a permutation is applied as it is. *)
Back_Forward(at, op) ==
  IF op[1] = "Reshape" THEN [at EXCEPT !.shape = op[2]]
  ELSE LET idx == IndexOf(at.shape, at.n)
           shape == Permuted(at.shape, op[2])
       IN [n |-> Flat(shape, Permuted(idx, op[2])), shape |-> shape]
Back(at, op) ==
  CASE op[1] = "Reshape" -> [at EXCEPT !.shape = op[2]]
    [] op[1] = "Transpose" ->
         LET idx == IndexOf(at.shape, at.n)
             inverse == [p \in DOMAIN op[2] |-> CHOOSE i \in DOMAIN op[2] : op[2][i] = p]
             shape == Permuted(at.shape, inverse)
         IN [n |-> Flat(shape, Permuted(idx, inverse)), shape |-> shape]
    [] op[1] = "Broadcast" ->
         LET idx == IndexOf(at.shape, at.n)
         IN [n |-> Flat(op[2], [i \in DOMAIN op[2] |-> IF op[2][i] = 1 THEN 0 ELSE idx[i]]), shape |-> op[2]]
CopySource(src, dst, ops, k) ==
  LET idx == [i \in DOMAIN dst.dims |-> (k \div (IF dst.stride[i] = 0 THEN 1 ELSE dst.stride[i])) % dst.dims[i]]
      at == FoldLeft(Back, [n |-> Flat(dst.dims, idx), shape |-> dst.dims], Reverse(ops))
  IN At(src, IndexOf(at.shape, at.n))

-----------------------------------------------------------------------------
(* Trees of up to MaxNodes views and operators over an input of Size 8, any *)
(* of their values an output, lowered for the CPU or for CUDA.              *)

CONSTANT MaxNodes

InputDims == <<2, 2, 2>>
Shapes == {<<8>>, <<2, 4>>, <<2, 2, 2>>}
Perms == {<<2, 1>>, <<2, 1, 3>>, <<2, 3, 1>>}

VARIABLES given,     \* the graph before the passes
          lowered,   \* and after them
          stage
vars == <<given, lowered, stage>>

Start == [nodes |-> <<>>, types |-> <<TypeOf(InputDims)>>]
Init == given = Start /\ lowered = Start /\ stage = "building"

DimsAfter(g, kind, arg, in) ==
  CASE kind = "Reshape" -> arg [] kind = "Transpose" -> Permuted(g.types[in].dims, arg) [] OTHER -> g.types[in].dims

(* Shape inference gives every value a dense type. *)
AddNode ==
  /\ stage = "building" /\ Len(given.nodes) < MaxNodes
  /\ \E in \in DOMAIN given.types :
       \E c \in {<<"Reshape", s>> : s \in Shapes \ {given.types[in].dims}}
                \cup {<<"Transpose", p>> : p \in {q \in Perms : Len(q) = Len(given.types[in].dims)}}
                \cup {<<"Linear", <<>> >>, <<"Pointwise", <<>> >>} :
         given' = WithNode(given, c[1], c[2], in, TypeOf(DimsAfter(given, c[1], c[2], in)))
  /\ UNCHANGED <<lowered, stage>>

AddOutputs ==
  /\ stage = "building" /\ given.nodes # <<>>
  /\ \E vs \in SUBSET (DOMAIN given.types \ {1}) :
       /\ Len(given.types) \in vs /\ Cardinality(vs) <= 2
       /\ given' = [given EXCEPT !.nodes = @ \o [x \in 1..Cardinality(vs) |-> Node("Output", <<>>, SetToSeq(vs)[x], 0)]]
  /\ stage' = "complete"
  /\ UNCHANGED lowered

Lower ==
  /\ stage = "complete" /\ lowered' = LowerPasses(given) /\ stage' = "lowered" /\ UNCHANGED given
Finish(cuda) ==
  /\ stage = "lowered" /\ lowered' = EpilogPasses(lowered, cuda)
  /\ stage' = (IF cuda THEN "cuda" ELSE "cpu")
  /\ UNCHANGED given
Next == AddNode \/ AddOutputs \/ Lower \/ \E cuda \in BOOLEAN : Finish(cuda)
Spec == Init /\ [][Next]_vars

(* ContiguousFolding::backward_only, as the NHWC lowering runs it. *)
FoldBackward ==
  /\ stage = "lowered" /\ lowered' = Sweep(ContiguousFolding(Sweep(ReinterpretConversion(lowered)), FALSE))
  /\ stage' = "backward" /\ UNCHANGED given
SpecBackward == Init /\ [][AddNode \/ AddOutputs \/ Lower \/ FoldBackward]_vars

-----------------------------------------------------------------------------
MaxIndex == Product(InputDims) - 1

(* The input element that is the n-th of a value, by what the operators say. *)
RECURSIVE Element(_, _, _)
Element(g, v, n) ==
  IF v = 1 THEN n
  ELSE LET node == g.nodes[CHOOSE i \in Definers(g, v) : TRUE]
           from == g.types[node.in].dims
           idx == IndexOf(g.types[v].dims, n)
       IN IF node.kind = "Transpose"
          THEN Element(g, node.in, Flat(from, [p \in DOMAIN from |-> idx[CHOOSE i \in DOMAIN idx : node.arg[i] = p]]))
          ELSE Element(g, node.in, n)

(* The memory of a value after the kernels: the input element at every     *)
(* address. Views share their input's memory.                              *)
RECURSIVE Memory(_, _)
Memory(g, v) ==
  IF v = 1 THEN [a \in 0..MaxIndex |-> a]
  ELSE LET node == g.nodes[CHOOSE i \in Definers(g, v) : TRUE]
           M == Memory(g, node.in)
           src == g.types[node.in]
       IN CASE node.kind \in {"Reshape", "Transpose", "Reinterpret"} -> M
            [] node.kind = "Contiguous" -> [a \in 0..MaxIndex |-> M[CopySource(src, g.types[v], node.arg, a)]]
            [] node.kind = "Pointwise" -> [a \in 0..MaxIndex |-> M[AddressOf(src, a)]]
            [] node.kind = "Linear" -> M

Outputs(g) == LET ids == SelectSeq([i \in DOMAIN g.nodes |-> i], LAMBDA i : g.nodes[i].kind = "Output")
              IN [x \in DOMAIN ids |-> g.nodes[ids[x]].in]

(* Whatever was bundled, copied, eliminated and folded, the caller finds   *)
(* the n-th element of an output at address n, and it is the right one.    *)
OutputsInPlace ==
  stage \in {"lowered", "cpu", "cuda"} =>
    \A x \in DOMAIN Outputs(given) :
      LET M == Memory(lowered, Outputs(lowered)[x])
      IN \A n \in 0..MaxIndex : M[n] = Element(given, Outputs(given)[x], n)

(* An operator that walks its input's memory linearly gets a contiguous    *)
(* one.                                                                    *)
LinearReadsDense ==
  stage \in {"lowered", "cpu", "cuda"} =>
    \A i \in DOMAIN lowered.nodes :
      lowered.nodes[i].kind \in {"Linear", "Output"} =>
        IsContiguous(lowered.types[lowered.nodes[i].in])

(* A view of a value has the strides that show it: what AssignStrides gave *)
(* is what ShapeVerification finds after the pass, and a bundle's.         *)
StridesAgree ==
  stage \in {"lowered", "cpu", "cuda"} =>
    \A i \in DOMAIN lowered.nodes :
      LET n == lowered.nodes[i]
      IN /\ n.kind \in {"Reshape", "Transpose"} => lowered.types[n.out] \in InferType(lowered.types[n.in], n)
         /\ n.kind = "Reinterpret" =>
              \A k \in 0..MaxIndex :
                AddressOf(lowered.types[n.out], k)
                  = LET at == FoldLeft(Back, [n |-> k, shape |-> lowered.types[n.out].dims], Reverse(n.arg))
                    IN AddressOf(lowered.types[n.in], at.n)

(* After the epilog no copy reads a view or a copy that nothing else reads *)
(* (ContiguousFolding).                                                    *)
CopiesFolded ==
  stage \in {"cpu", "cuda"} =>
    \A i \in DOMAIN lowered.nodes :
      LET n == lowered.nodes[i]
      IN n.kind = "Contiguous" /\ Cardinality(Users(lowered, n.in)) = 1 =>
           \A j \in Definers(lowered, n.in) : lowered.nodes[j].kind \notin {"Reinterpret", "Contiguous"}

(* "Fold Contiguous/Reinterpret chains", which the NHWC lowering asks for. *)
BackwardFolds ==
  stage = "backward" =>
    \A i \in DOMAIN lowered.nodes :
      LET n == lowered.nodes[i]
      IN n.kind = "Contiguous" /\ Cardinality(Users(lowered, n.in)) = 1 =>
           \A j \in Definers(lowered, n.in) : lowered.nodes[j].kind \notin {"Reinterpret", "Contiguous"}
==============================================================================
