------------------------------- MODULE Rewrites -------------------------------
(***************************************************************************)
(* The passes that rewrite a graph before it is lowered                    *)
(* (src/transform/optimize/, src/transform/pattern.rs): what they match,   *)
(* and what they put in its place. Nodes are numbered in the order of the  *)
(* arena, values in that of their registration. A node is [op, a, ins,     *)
(* out], its attributes numbers; a value has a type [dt, dims], without    *)
(* strides, and is a tensor (an initializer) or defined by a node.         *)
(***************************************************************************)
EXTENDS OpMeaning
LOCAL INSTANCE SequencesExt
LOCAL INSTANCE FiniteSetsExt

-----------------------------------------------------------------------------
(* The graph. failed says that a pass has panicked. *)

Node(op, a, ins, out) == [op |-> op, a |-> a, ins |-> ins, out |-> out]
Type(dt, dims) == [dt |-> dt, dims |-> dims]
TypeOfTensor(t) == Type(t.dt, t.dims)
Ids(g) == [i \in DOMAIN g.nodes |-> i]
IdsOf(g, ops) == SelectSeq(Ids(g), LAMBDA i : g.nodes[i].op \in ops)
IsTensor(g, v) == v \in DOMAIN g.tensors
Dims(g, v) == g.types[v].dims

Users(g, v) == {u \in UNION {{i} \X DOMAIN g.nodes[i].ins : i \in DOMAIN g.nodes} : g.nodes[u[1]].ins[u[2]] = v}
Definers(g, v) == {i \in DOMAIN g.nodes : g.nodes[i].out = v}
SoleUser(g, v) == IF Cardinality(Users(g, v)) = 1 THEN {u[1] : u \in Users(g, v)} ELSE {}

NewValue(g, ty) == [g EXCEPT !.types = Append(@, ty)]
Newest(g) == Len(g.types)
WithNode(g, op, a, ins, ty) ==
  [NewValue(g, ty) EXCEPT !.nodes = Append(@, Node(op, a, ins, Len(g.types) + 1))]
WithTensor(g, t) == [NewValue(g, TypeOfTensor(t)) EXCEPT !.tensors = @ @@ (Len(g.types) + 1 :> t)]
Fail(g) == [g EXCEPT !.failed = TRUE]

(* replace_input_value_if_without_typecheck, and with the check. *)
Redirect(g, old, new) ==
  [g EXCEPT !.nodes = [i \in DOMAIN @ |-> [@[i] EXCEPT !.ins = [x \in DOMAIN @ |-> IF @[x] = old THEN new ELSE @[x]] @@ <<>>]] @@ <<>>]
Replace(g, old, new) == IF g.types[old] # g.types[new] THEN Fail(g) ELSE Redirect(g, old, new)

(* update_deleted_nodes: what no output needs goes. *)
RECURSIVE Behind(_, _)
Behind(g, ids) ==
  LET more == ids \cup UNION {UNION {Definers(g, g.nodes[i].ins[x]) : x \in DOMAIN g.nodes[i].ins} : i \in ids}
  IN IF more = ids THEN ids ELSE Behind(g, more)
Sweep(g) ==
  LET live == Behind(g, {i \in DOMAIN g.nodes : g.nodes[i].op = "Output"})
      kept == SelectSeq(Ids(g), LAMBDA i : i \in live)
  IN [g EXCEPT !.nodes = [x \in DOMAIN kept |-> @[kept[x]]]]

ForEach(g, ids, Rewrite(_, _)) ==
  LET after[k \in 0..Len(ids)] == IF k = 0 THEN g ELSE LET h == after[k - 1] IN IF h.failed THEN h ELSE Rewrite(h, ids[k])
  IN after[Len(ids)]

RECURSIVE Layers(_, _)
Layers(g, order) ==
  LET known(v) == Definers(g, v) \subseteq {order[x] : x \in DOMAIN order}
      next == SelectSeq(Ids(g), LAMBDA i : ~ Contains(order, i) /\ \A x \in DOMAIN g.nodes[i].ins : known(g.nodes[i].ins[x]))
  IN IF next = <<>> THEN order ELSE Layers(g, order \o next)
TopologicalOrder(g) == Layers(g, <<>>)

(* What every value is, given what the inputs are. *)
RECURSIVE Known(_, _)
Known(g, env) ==
  LET ready == {i \in DOMAIN g.nodes : /\ g.nodes[i].op # "Output" /\ g.nodes[i].out \notin DOMAIN env
                                       /\ \A x \in DOMAIN g.nodes[i].ins : g.nodes[i].ins[x] \in DOMAIN env}
      found == [v \in {g.nodes[i].out : i \in ready} |->
                  LET n == g.nodes[CHOOSE i \in ready : g.nodes[i].out = v]
                  IN Compute(n, [x \in DOMAIN n.ins |-> env[n.ins[x]]])]
  IN IF ready = {} THEN env ELSE Known(g, env @@ found)
Meaning(g, inputs) == Known(g, inputs @@ g.tensors)

(* to_scalar_data: the one element a tensor has; the others are no number. *)
NoScalar == -9
ScalarAt(g, v) == IF IsTensor(g, v) /\ Len(g.tensors[v].data) = 1 THEN g.tensors[v].data[1] ELSE NoScalar
FloatAt(g, v) == IF IsTensor(g, v) /\ g.tensors[v].dt = F32 THEN ScalarAt(g, v) ELSE NoScalar

-----------------------------------------------------------------------------
(* PatternMatcher: a matcher is the node it has come to, a set of one or    *)
(* none. then takes the first user of its value that will do; try_then      *)
(* stays where it is when there is none.  The users of a value are in the   *)
(* order they came to it: that of their numbers, which is used here, but    *)
(* for those another value had before (replace_usage).                      *)

Then(g, m, Pred(_, _)) ==
  UNION {LET v == g.nodes[i].out
             found == {u[1] : u \in {w \in Users(g, v) : Pred(g.nodes[w[1]], v)}}
         IN IF found = {} THEN {} ELSE {Min(found)} : i \in m}
TryThen(g, m, Pred(_, _)) == IF Then(g, m, Pred) = {} THEN m ELSE Then(g, m, Pred)
ThenOp(g, m, op) == Then(g, m, LAMBDA n, v : n.op = op)

(* extract_other_binary_input, a value or none (0). *)
Other(n, known) ==
  IF Len(n.ins) # 2 THEN 0 ELSE IF n.ins[1] = known THEN n.ins[2] ELSE IF n.ins[2] = known THEN n.ins[1] ELSE 0
Only(m) == CHOOSE i \in m : TRUE
OutOf(g, m) == g.nodes[Only(m)].out

-----------------------------------------------------------------------------
(* IdentityElimination *)

IdentityElimination(g) ==
  ForEach(g, IdsOf(g, {"Identity"}),
          LAMBDA h, id : LET n == h.nodes[id]
                         IN IF h.types[n.ins[1]] = h.types[n.out] THEN Replace(h, n.out, n.ins[1]) ELSE h)

-----------------------------------------------------------------------------
(* Canonicalization *)

ReshapeTo(g, v, dims) == WithNode(g, "Reshape", dims, <<v>>, Type(g.types[v].dt, dims))
Ones(dims) == \A i \in DOMAIN dims : dims[i] = 1
PlainGemm == <<1, 0, 0, 0>>

CanonicalPow(g, n) ==
  IF ScalarAt(g, n.ins[2]) # 2 THEN g
  ELSE LET made == WithNode(g, "Mul", <<>>, <<n.ins[1], n.ins[1]>>, g.types[n.out])
       IN Replace(made, n.out, Newest(made))

CanonicalDiv(g, n) ==
  LET inverted == WithNode(g, "Reciprocal", <<>>, <<n.ins[2]>>, g.types[n.ins[2]])
      made == WithNode(inverted, "Mul", <<>>, <<n.ins[1], Newest(inverted)>>, g.types[n.out])
  IN Replace(made, n.out, Newest(made))

(* strip_scalar_mul: the value without its scale, and the scale. *)
StripScalarMul(g, v) ==
  LET kept == [value |-> v, scale |-> NoScalar]
      muls == {i \in Definers(g, v) : g.nodes[i].op = "Mul"}
  IN IF muls = {} \/ SoleUser(g, v) = {} THEN kept
     ELSE LET n == g.nodes[Only(muls)]
              by(x) == [value |-> n.ins[3 - x], scale |-> FloatAt(g, n.ins[x])]
          IN IF IsTensor(g, n.ins[1]) /\ ~ IsTensor(g, n.ins[2]) /\ by(1).scale # NoScalar THEN by(1)
             ELSE IF IsTensor(g, n.ins[2]) /\ ~ IsTensor(g, n.ins[1]) /\ by(2).scale # NoScalar THEN by(2)
             ELSE kept

(* Mutant of PullScaleOut: the scale of the right operand is stripped and forgotten. *)
PullScaleOut_Left(g, n) ==
  LET lhs == StripScalarMul(g, n.ins[1])
      rhs == StripScalarMul(g, n.ins[2])
      scaled == WithTensor(g, ScalarOf(IF lhs.scale = NoScalar THEN 1 ELSE lhs.scale))
      product == WithNode(scaled, "MatMul", <<>>, <<lhs.value, rhs.value>>, g.types[n.out])
      made == WithNode(product, "Mul", <<>>, <<Newest(product), Newest(scaled)>>, g.types[n.out])
  IN IF lhs.scale = NoScalar /\ rhs.scale = NoScalar THEN g ELSE Replace(made, n.out, Newest(made))
PullScaleOut(g, n) ==
  LET lhs == StripScalarMul(g, n.ins[1])
      rhs == StripScalarMul(g, n.ins[2])
      factor(s) == IF s.scale = NoScalar THEN 1 ELSE s.scale
      scaled == WithTensor(g, ScalarOf(Times(factor(lhs), factor(rhs))))
      product == WithNode(scaled, "MatMul", <<>>, <<lhs.value, rhs.value>>, g.types[n.out])
      made == WithNode(product, "Mul", <<>>, <<Newest(product), Newest(scaled)>>, g.types[n.out])
  IN IF lhs.scale = NoScalar /\ rhs.scale = NoScalar THEN g ELSE Replace(made, n.out, Newest(made))

CanonicalMatMul(g, n) ==
  LET l == Dims(g, n.ins[1])
      r == Dims(g, n.ins[2])
      flat(h, v) == IF Len(Dims(h, v)) = 2 THEN [g |-> h, v |-> v]
                    ELSE LET made == ReshapeTo(h, v, SubSeq(Dims(h, v), Len(Dims(h, v)) - 1, Len(Dims(h, v))))
                         IN [g |-> made, v |-> Newest(made)]
      lhs == flat(g, n.ins[1])
      rhs == flat(lhs.g, n.ins[2])
      product == WithNode(rhs.g, "Gemm", PlainGemm, <<lhs.v, rhs.v>>, Type(g.types[n.out].dt, <<l[Len(l) - 1], r[Len(r)]>>))
      full == ReshapeTo(product, Newest(product), Dims(g, n.out))
  IN CASE Len(l) = 2 /\ Len(r) = 2 -> Replace(product, n.out, Newest(product))
       [] ~ (Len(l) = 2 /\ Len(r) = 2) /\ Ones(Lead(l)) /\ Ones(Lead(r)) -> Replace(full, n.out, Newest(full))
       [] OTHER -> PullScaleOut(g, n)

(* build_causal_additive_mask: a set of one tensor, or none. *)
CausalMask(g, causal, penalty) ==
  LET c == g.tensors[causal]
      p == g.tensors[penalty]
      n == Len(c.dims)
      above == {k \in DOMAIN c.data : IndexOf(c.dims, k - 1)[n] > IndexOf(c.dims, k - 1)[n - 1]}
      worth == {p.data[k] : k \in above}
  IN IF /\ IsTensor(g, causal) /\ c.dt = F32 /\ n >= 2
        /\ \A k \in DOMAIN c.data : c.data[k] = IF k \in above THEN 0 ELSE 1
        /\ IsTensor(g, penalty) /\ p.dt = F32 /\ p.dims = c.dims
        /\ \A k \in DOMAIN c.data \ above : p.data[k] = 0
        /\ Cardinality(worth) <= 1
     THEN {Tensor(F32, c.dims, [k \in DOMAIN c.data |-> IF k \in above THEN Minus(Only(worth)) ELSE 0])}
     ELSE {}

CanonicalSub(g, n) ==
  LET muls == {i \in Definers(g, n.ins[1]) : g.nodes[i].op = "Mul"}
  IN IF muls = {} THEN g
     ELSE LET m == g.nodes[Only(muls)]
              const == {x \in 1..2 : IsTensor(g, m.ins[x])}
          IN IF Cardinality(const) # 1 \/ CausalMask(g, m.ins[Only(const)], n.ins[2]) = {} THEN g
             ELSE LET masked == WithTensor(g, CHOOSE t \in CausalMask(g, m.ins[Only(const)], n.ins[2]) : TRUE)
                      made == WithNode(masked, "Add", <<>>, <<m.ins[3 - Only(const)], Newest(masked)>>, g.types[n.out])
                  IN Replace(made, n.out, Newest(made))

CanonicalView(g, n) == LET made == ReshapeTo(g, n.ins[1], Dims(g, n.out)) IN Replace(made, n.out, Newest(made))

Canonical(g, id) ==
  LET n == g.nodes[id]
  IN CASE n.op = "Pow" -> CanonicalPow(g, n)
       [] n.op = "Div" -> CanonicalDiv(g, n)
       [] n.op = "MatMul" -> CanonicalMatMul(g, n)
       [] n.op = "Sub" -> CanonicalSub(g, n)
       [] n.op \in {"Squeeze", "Unsqueeze", "Flatten"} -> CanonicalView(g, n)
       [] OTHER -> g
Canonicalization(g) == ForEach(g, Reverse(Ids(g)), Canonical)

(* MatMul2BatchedGemm *)
PrependOnes(g, v, rank) ==
  LET more == rank - Len(Dims(g, v))
  IN IF more = 0 THEN [g |-> g, v |-> v]
     ELSE LET made == ReshapeTo(g, v, [i \in 1..more |-> 1] \o Dims(g, v)) IN [g |-> made, v |-> Newest(made)]
BroadcastBatch(g, v, batch) ==
  LET dims == Dims(g, v)
      target == batch \o SubSeq(dims, Len(dims) - 1, Len(dims))
  IN IF Lead(dims) = batch THEN [g |-> g, v |-> v]
     ELSE LET made == WithNode(g, "Expand", target, <<v>>, Type(g.types[v].dt, target))
          IN [g |-> made, v |-> Newest(made)]
LowerMatMul(g, id) ==
  LET n == g.nodes[id]
      rank == Max({Len(Dims(g, n.ins[1])), Len(Dims(g, n.ins[2]))})
      lhs == PrependOnes(g, n.ins[1], rank)
      rhs == PrependOnes(lhs.g, n.ins[2], rank)
      l == Lead(Dims(rhs.g, lhs.v))
      r == Lead(Dims(rhs.g, rhs.v))
      lhsFull == BroadcastBatch(rhs.g, lhs.v, BroadcastShape(l, r))
      rhsFull == BroadcastBatch(lhsFull.g, rhs.v, BroadcastShape(l, r))
      made == WithNode(rhsFull.g, "BatchedGemm", PlainGemm, <<lhsFull.v, rhsFull.v>>, g.types[n.out])
  IN IF rank <= 2 \/ ~ Broadcastable(l, r) THEN g ELSE Replace(made, n.out, Newest(made))
MatMul2BatchedGemm(g) == ForEach(g, IdsOf(g, {"MatMul"}), LowerMatMul)

-----------------------------------------------------------------------------
(* ConstantFolding: what tensors alone decide becomes a tensor. *)

FoldedOps == {"Add", "Sub", "Mul", "Div", "Cast", "Reciprocal", "Expand", "Flatten", "Where", "Reshape",
              "Squeeze", "Unsqueeze", "Transpose", "Broadcast"}
Foldable(g, n) ==
  /\ n.op \in FoldedOps
  /\ \A x \in DOMAIN n.ins : IsTensor(g, n.ins[x])
  /\ n.op = "Transpose" => n.a # <<>>
  /\ n.op = "Reciprocal" => g.tensors[n.ins[1]].dt = F32
Folded(made, n, checked) ==
  IF checked THEN Replace(made, n.out, Newest(made)) ELSE Redirect(made, n.out, Newest(made))
ConstantFolding(g, checked) ==
  ForEach(g, TopologicalOrder(g),
          LAMBDA h, id :
            LET n == h.nodes[id]
            IN IF ~ Foldable(h, n) THEN h
               ELSE Folded(WithTensor(h, Compute(n, [x \in DOMAIN n.ins |-> h.tensors[n.ins[x]]])), n, checked))

-----------------------------------------------------------------------------
(* ConvBNFusion and ConvActivationFusion *)

FuseConvBN(g, id) ==
  LET conv == g.nodes[id]
      bns == {i \in SoleUser(g, conv.out) : g.nodes[i].op = "BatchNormalization"}
      bn == g.nodes[Only(bns)]
      data(v) == g.tensors[v].data
      channels == Len(data(bn.ins[2]))
      w == g.tensors[conv.ins[2]]
      per == Len(w.data) \div channels
      factor == [c \in 1..channels |-> Times(data(bn.ins[2])[c], Inv(Sqrt(Plus(data(bn.ins[5])[c], bn.a[1]))))]
      hasBias == Len(conv.ins) > 2 /\ IsTensor(g, conv.ins[3])
      bias == [c \in 1..channels |->
                 Plus(Plus(data(bn.ins[3])[c], Minus(Times(data(bn.ins[4])[c], factor[c]))),
                      IF hasBias THEN Times(data(conv.ins[3])[c], factor[c]) ELSE 0)]
      weighed == WithTensor(g, [w EXCEPT !.data = [k \in DOMAIN @ |-> Times(@[k], factor[1 + ((k - 1) \div per)])]])
      biased == WithTensor(weighed, Tensor(F32, <<channels>>, bias))
      made == WithNode(biased, "Conv", conv.a, <<conv.ins[1], Newest(weighed), Newest(biased)>>, g.types[conv.out])
  IN IF bns = {} \/ (\E x \in 2..5 : ~ IsTensor(g, bn.ins[x])) \/ ~ IsTensor(g, conv.ins[2]) THEN g
     ELSE Replace(made, bn.out, Newest(made))
ConvBNFusion(g) == ForEach(g, IdsOf(g, {"Conv"}), FuseConvBN)

ConvActivationFusion(g) ==
  ForEach(g, IdsOf(g, {"Conv"}),
          LAMBDA h, id :
            LET conv == h.nodes[id]
                acts == {i \in SoleUser(h, conv.out) : h.nodes[i].op = "ReLU"}
            IN IF Len(conv.ins) < 3 \/ acts = {} \/ conv.a[1] # 0 THEN h
               ELSE Replace([h EXCEPT !.nodes[id].a[1] = 1], h.nodes[Only(acts)].out, conv.out))

-----------------------------------------------------------------------------
(* FastGeLUFusion *)

AppliedConstant(g, n, known, a) == Other(n, known) # 0 /\ FloatAt(g, Other(n, known)) = a
IsHalved(g, v, x) ==
  \E i \in Definers(g, v) : g.nodes[i].op = "Mul" /\ AppliedConstant(g, g.nodes[i], x, Half)
GeLUPattern(g, cube) ==
  LET x == g.nodes[cube].ins[1]
      by(m, op, a) == Then(g, m, LAMBDA n, v : n.op = op /\ AppliedConstant(g, n, v, a))
      sum == Then(g, by({cube}, "Mul", CubeFactor), LAMBDA n, v : n.op = "Add" /\ Other(n, v) = x)
      tanh == ThenOp(g, by(sum, "Mul", RootFactor), "Tanh")
      halved == Then(g, by(tanh, "Add", 1),
                     LAMBDA n, v : n.op = "Mul" /\ Other(n, v) # 0
                                   /\ (IsHalved(g, Other(n, v), x) \/ AppliedConstant(g, n, v, Half)))
  IN TryThen(g, halved, LAMBDA n, v : n.op = "Mul" /\ Other(n, v) = x)
FuseGeLU(g, cube) ==
  LET last == GeLUPattern(g, cube)
      made == WithNode(g, "GeLU", <<>>, <<g.nodes[cube].ins[1]>>, g.types[OutOf(g, last)])
  IN IF last = {} THEN g ELSE Replace(made, OutOf(g, last), Newest(made))
FastGeLUFusion(g) ==
  ForEach(g, SelectSeq(IdsOf(g, {"Pow"}), LAMBDA i : ScalarAt(g, g.nodes[i].ins[2]) = 3), FuseGeLU)

-----------------------------------------------------------------------------
(* LayerNormFusion and RMSNormFusion *)

MeansLast(g, n, v) == n.op = "ReduceMean" /\ n.ins[1] = v /\ n.a[1] = Len(Dims(g, v))
VarianceOf(g, mean) ==
  LET x == g.nodes[mean].ins[1]
      d == Then(g, {mean}, LAMBDA n, v : n.op = "Sub" /\ n.ins = <<x, v>>)
      dd == Then(g, d, LAMBDA n, v : n.op = "Mul" /\ n.ins = <<v, v>>)
  IN [d |-> d, var |-> Then(g, dd, LAMBDA n, v : MeansLast(g, n, v))]
Found(last, x, scale, bias, eps) == {[last |-> last, x |-> x, scale |-> scale, bias |-> bias, eps |-> eps]}
EpsilonOf(g, add, var) ==
  LET e == Other(g.nodes[Only(add)], OutOf(g, var)) IN IF e = 0 THEN NoScalar ELSE FloatAt(g, e)

InverseRoot(g, add) == ThenOp(g, ThenOp(g, add, "Sqrt"), "Reciprocal")

(* What follows the normalised x, given the nodes before it. *)
ScaledAndShifted(g, x, eps, normal, scaled, last) ==
  LET scale == Other(g.nodes[Only(scaled)], OutOf(g, normal))
      bias == Other(g.nodes[Only(last)], OutOf(g, scaled))
  IN IF last = {} \/ eps = NoScalar \/ 0 \in {scale, bias} THEN {} ELSE Found(last, x, scale, bias, eps)
LayerNormPattern(g, x, v, add) ==
  LET normal == Then(g, InverseRoot(g, add), LAMBDA n, r : n.op = "Mul" /\ n.ins = <<OutOf(g, v.d), r>>)
      scaled == ThenOp(g, normal, "Mul")
  IN ScaledAndShifted(g, x, EpsilonOf(g, add, v.var), normal, scaled, ThenOp(g, scaled, "Add"))

(* Both products with the scale are known by now. *)
UnbiasedAndShifted(g, x, eps, gamma, unbiased, shifted) ==
  LET bias == Then(g, shifted, LAMBDA n, s : n.op = "Sub" /\ n.ins[2] = s)
      last == Then(g, unbiased, LAMBDA n, y : n.op = "Add" /\ Other(n, y) = OutOf(g, bias))
  IN IF bias = {} \/ last = {} \/ eps = NoScalar \/ gamma = 0 THEN {}
     ELSE Found(last, x, gamma, g.nodes[Only(bias)].ins[1], eps)
ByScale(g, x, mean, eps, inverse, scaling) ==
  UnbiasedAndShifted(g, x, eps, Other(g.nodes[Only(scaling)], OutOf(g, inverse)),
                     Then(g, scaling, LAMBDA n, s : n.op = "Mul" /\ Other(n, s) = x),
                     Then(g, scaling, LAMBDA n, s : n.op = "Mul" /\ Other(n, s) = g.nodes[mean].out))
BatchNormLayerNormPattern(g, x, mean, v, add) ==
  LET inverse == InverseRoot(g, add)
  IN ByScale(g, x, mean, EpsilonOf(g, add, v.var), inverse, ThenOp(g, inverse, "Mul"))

(* The first of the two patterns that fits. *)
NormPattern(g, mean, v, add) ==
  LET x == g.nodes[mean].ins[1]
      plain == LayerNormPattern(g, x, v, add)
  IN IF plain # {} THEN plain ELSE BatchNormLayerNormPattern(g, x, mean, v, add)

FuseNorm(g, found, op) ==
  LET p == Only(found)
      old == OutOf(g, p.last)
      made == WithNode(g, op, <<p.eps>>, IF op = "LayerNormalization" THEN <<p.x, p.scale, p.bias>> ELSE <<p.x, p.scale>>,
                       g.types[old])
  IN IF found = {} THEN g ELSE Replace(made, old, Newest(made))
LayerNormFusion(g) ==
  ForEach(g, SelectSeq(IdsOf(g, {"ReduceMean"}), LAMBDA i : MeansLast(g, g.nodes[i], g.nodes[i].ins[1]) /\ g.nodes[i].a[2] = 1),
          LAMBDA h, id : LET v == VarianceOf(h, id)
                         IN FuseNorm(h, NormPattern(h, id, v, ThenOp(h, v.var, "Add")), "LayerNormalization"))

IsSquare(g, n) ==
  \/ n.op = "Mul" /\ Len(n.ins) = 2 /\ n.ins[1] = n.ins[2]
  \/ n.op = "Pow" /\ ScalarAt(g, n.ins[2]) = 2
RMSNormPattern(g, square) ==
  LET x == g.nodes[square].ins[1]
      mean == Then(g, {square}, LAMBDA n, v : n.op = "ReduceMean" /\ n.a = <<Len(Dims(g, x)), 1>>)
      add == ThenOp(g, mean, "Add")
      inverse == Then(g, ThenOp(g, add, "Sqrt"),
                      LAMBDA n, v : \/ n.op = "Div" /\ n.ins[2] = v /\ ScalarAt(g, n.ins[1]) = 1
                                    \/ n.op = "Reciprocal")
      once == TryThen(g, inverse, LAMBDA n, v : n.op = "Mul" /\ Other(n, v) # 0 /\ ScalarAt(g, Other(n, v)) = 1)
      normal == Then(g, once, LAMBDA n, v : n.op = "Mul" /\ Other(n, v) = x)
      turned == TryThen(g, normal, LAMBDA n, v : n.op = "Cast")
      last == ThenOp(g, turned, "Mul")
      scale == Other(g.nodes[Only(last)], OutOf(g, turned))
  IN IF last = {} \/ EpsilonOf(g, add, mean) = NoScalar \/ scale = 0 THEN {}
     ELSE Found(last, x, scale, 0, EpsilonOf(g, add, mean))
RMSNormFusion(g) ==
  ForEach(g, SelectSeq(Ids(g), LAMBDA i : IsSquare(g, g.nodes[i])),
          LAMBDA h, id : FuseNorm(h, RMSNormPattern(h, id), "RMSNormalization"))

-----------------------------------------------------------------------------
(* AttentionFusion *)

(* detect_causal_mask *)
IsCausalMask(g, v) ==
  LET t == g.tensors[v]
      n == Len(t.dims)
      at(k) == IndexOf(t.dims, k - 1)
  IN /\ IsTensor(g, v) /\ t.dt = F32 /\ n >= 2 /\ t.dims[n] = t.dims[n - 1] /\ t.dims[n] >= 2
     /\ \A k \in DOMAIN t.data : IF at(k)[n] <= at(k)[n - 1] THEN t.data[k] = 0 ELSE Negative(t.data[k])

(* Where(IsNaN(v), 0, v) *)
GuardsNaN(g, n, v) ==
  /\ n.op = "Where" /\ n.ins[3] = v /\ FloatAt(g, n.ins[2]) = 0
  /\ \E i \in Definers(g, n.ins[1]) : g.nodes[i].op = "IsNaN" /\ g.nodes[i].ins[1] = v

FuseAttention(g, id) ==
  LET q == g.nodes[id].ins[1]
      k == g.nodes[id].ins[2]
      scaled == ThenOp(g, {id}, "Mul")
      masked == TryThen(g, scaled, LAMBDA n, v : n.op = "Add")
      softmax == ThenOp(g, masked, "Softmax")
      guarded == TryThen(g, softmax, LAMBDA n, v : GuardsNaN(g, n, v))
      last == ThenOp(g, guarded, "MatMul")
      factor == Other(g.nodes[Only(scaled)], g.nodes[id].out)
      mask == Other(g.nodes[Only(masked)], OutOf(g, scaled))
      v_ == Other(g.nodes[Only(last)], OutOf(g, guarded))
      n == Len(Dims(g, k))
      perm == [d \in 1..n |-> IF d = n THEN n - 1 ELSE IF d = n - 1 THEN n ELSE d]
      turned == WithNode(g, "Transpose", perm, <<k>>, Type(g.types[k].dt, Permuted(Dims(g, k), perm)))
      made == WithNode(turned, "Attention",
                       <<FloatAt(g, factor), IF masked # scaled /\ IsCausalMask(g, mask) THEN 1 ELSE 0>>,
                       <<q, Newest(turned), v_>> \o (IF masked = scaled THEN <<>> ELSE <<mask>>), g.types[OutOf(g, last)])
  IN IF last = {} \/ factor = 0 \/ v_ = 0 \/ (masked # scaled /\ mask = 0) THEN g
     ELSE IF FloatAt(g, factor) = NoScalar THEN g
     ELSE Replace(made, OutOf(g, last), Newest(made))
AttentionFusion(g) == ForEach(g, IdsOf(g, {"MatMul"}), FuseAttention)

-----------------------------------------------------------------------------
(* ReorderNodes: an operator of one operand on what a view has only moved  *)
(* about goes before the view. worklist is taken from its end.             *)

UnaryOps == {"Identity", "Cast", "ReLU", "Tanh", "Sqrt", "Reciprocal", "GeLU", "IsNaN"}
BijectiveOps == {"Flatten", "Reshape", "Squeeze", "Transpose", "Unsqueeze", "Broadcast"}
RECURSIVE Reorder(_, _)
(* Mutant of MoveUp: what goes before the view is declared like what was behind it. *)
MoveUp_Declared(g, id) ==
  LET n == g.nodes[id]
      views == {i \in Definers(g, n.ins[1]) : g.nodes[i].op \in BijectiveOps}
      view == g.nodes[Only(views)]
      up == WithNode(g, n.op, n.a, <<view.ins[1]>>, g.types[n.out])
      down == WithNode(up, view.op, view.a, [view.ins EXCEPT ![1] = Newest(up)], g.types[n.out])
  IN IF SoleUser(g, n.ins[1]) = {} \/ views = {} THEN [g |-> g, more |-> <<>>]
     ELSE [g |-> Replace(down, n.out, Newest(down)), more |-> <<Len(g.nodes) + 1>>]
MoveUp(g, id) ==
  LET n == g.nodes[id]
      views == {i \in Definers(g, n.ins[1]) : g.nodes[i].op \in BijectiveOps}
      view == g.nodes[Only(views)]
      up == WithNode(g, n.op, n.a, <<view.ins[1]>>, g.types[view.ins[1]])
      down == WithNode(up, view.op, view.a, [view.ins EXCEPT ![1] = Newest(up)], g.types[n.out])
  IN IF SoleUser(g, n.ins[1]) = {} \/ views = {} THEN [g |-> g, more |-> <<>>]
     ELSE [g |-> Replace(down, n.out, Newest(down)), more |-> <<Len(g.nodes) + 1>>]
Reorder(g, worklist) ==
  IF worklist = <<>> \/ g.failed THEN g
  ELSE LET r == MoveUp(g, Last(worklist)) IN Reorder(r.g, Front(worklist) \o r.more)
ReorderNodes(g) ==
  Reorder(g, Reverse(SelectSeq(TopologicalOrder(g), LAMBDA i : g.nodes[i].op \in UnaryOps)))

-----------------------------------------------------------------------------
(* TransposeFusion: a transpose of transposes. perm is <<>> where a node     *)
(* has none, and the dimensions are reversed.                              *)

RECURSIVE TransposesBehind(_, _)
TransposesBehind(g, v) ==
  LET ts == {i \in Definers(g, v) : g.nodes[i].op = "Transpose"}
  IN IF ts = {} THEN <<>> ELSE Append(TransposesBehind(g, g.nodes[Only(ts)].ins[1]), Only(ts))
FuseTransposes(g, id) ==
  LET chain == TransposesBehind(g, g.nodes[id].ins[1])
      first == g.nodes[chain[1]]
      perms == [x \in DOMAIN chain |-> g.nodes[chain[x]].a] \o <<g.nodes[id].a>>
      perm == FoldLeft(LAMBDA p, q : IF q = <<>> THEN p ELSE Permuted(p, q), perms[1], Tail(perms))
      made == WithNode(g, "Transpose", perm, <<first.ins[1]>>,
                       Type(g.types[first.ins[1]].dt, Permuted(Dims(g, first.ins[1]), perm)))
  IN IF chain = <<>> THEN g
     ELSE IF first.a = <<>> THEN Fail(g)
     ELSE Redirect(made, g.nodes[id].out, Newest(made))
TransposeFusion(g) == ForEach(g, IdsOf(g, {"Transpose"}), FuseTransposes)

-----------------------------------------------------------------------------
(* GemmTransposeFusion, GemmAddFusion, DequantGemmFusion *)

FuseGemmTranspose(g, id) ==
  LET n == g.nodes[id]
      behind(v) == {g.nodes[i].ins[1] : i \in {j \in Definers(g, v) : g.nodes[j].op = "Transpose"}}
      plain(x) == IF behind(n.ins[x]) = {} THEN n.ins[x] ELSE Only(behind(n.ins[x]))
      toggle(x, t) == IF behind(n.ins[x]) = {} THEN t ELSE 1 - t
      made == WithNode(g, "Gemm", <<n.a[1], n.a[2], toggle(1, n.a[3]), toggle(2, n.a[4])>>,
                       <<plain(1), plain(2)>> \o SubSeq(n.ins, 3, Len(n.ins)), g.types[n.out])
  IN IF behind(n.ins[1]) = {} /\ behind(n.ins[2]) = {} THEN g ELSE Replace(made, n.out, Newest(made))
GemmTransposeFusion(g) == ForEach(g, IdsOf(g, {"Gemm"}), FuseGemmTranspose)

(* The Add a Gemm without C can take in. *)
AddAfter(g, id) ==
  LET n == g.nodes[id]
  IN {i \in SoleUser(g, n.out) :
        /\ Len(n.ins) = 2
        /\ g.nodes[i].op = "Add"
        /\ g.nodes[i].ins[1] # g.nodes[i].ins[2]
        /\ Broadcastable(Dims(g, g.nodes[i].ins[1]), Dims(g, g.nodes[i].ins[2]))}
FuseGemmAdd(g, id, add) ==
  LET n == g.nodes[id]
      bias == Other(g.nodes[add], n.out)
      cast == WithNode(g, "Broadcast", Dims(g, n.out), <<bias>>, g.types[n.out])
      with == IF Dims(g, n.out) # Dims(g, bias) THEN [g |-> cast, c |-> Newest(cast)] ELSE [g |-> g, c |-> bias]
      made == WithNode(with.g, "Gemm", [n.a EXCEPT ![2] = 1], n.ins \o <<with.c>>, g.types[g.nodes[add].out])
  IN IF n.a[2] # 0 THEN Fail(g) ELSE Replace(made, g.nodes[add].out, Newest(made))
GemmAddFusion(g) ==
  LET found == SelectSeq(IdsOf(g, {"Gemm"}), LAMBDA i : AddAfter(g, i) # {})
      asserted == \A i \in DOMAIN g.nodes : g.nodes[i].op = "Gemm" /\ Len(g.nodes[i].ins) > 2 => g.nodes[i].a[2] # 0
  IN IF ~ asserted THEN Fail(g) ELSE ForEach(g, found, LAMBDA h, id : FuseGemmAdd(h, id, Only(AddAfter(g, id))))

FuseDequant(g, id) ==
  LET n == g.nodes[id]
      dequants == {i \in Definers(g, n.ins[2]) : /\ g.nodes[i].op = "DequantizeLinear" /\ g.nodes[i].a[1] = 1
                                                 /\ SoleUser(g, n.ins[2]) # {}}
      d == g.nodes[Only(dequants)]
      made == WithNode(g, "DequantMatMul", <<1>>, <<n.ins[1], d.ins[1], d.ins[2]>>, g.types[n.out])
  IN IF n.a[1] # 1 \/ n.a[3] # 0 \/ n.a[4] # 1 \/ Len(n.ins) # 2 \/ dequants = {} THEN g
     ELSE Replace(made, n.out, Newest(made))
DequantGemmFusion(g) == ForEach(g, IdsOf(g, {"Gemm"}), FuseDequant)

-----------------------------------------------------------------------------
(* create_optimize_passes, without the rounding of activations to i8. *)

Passes(cuda) ==
  <<"IdentityElimination", "Canonicalization", "ConstantFolding", "ConvBNFusion">>
  \o (IF cuda THEN <<"ConvActivationFusion">> ELSE <<>>)
  \o <<"FastGeLUFusion", "LayerNormFusion", "RMSNormFusion", "AttentionFusion", "MatMul2BatchedGemm", "ReorderNodes",
       "TransposeFusion", "Canonicalization", "IdentityElimination", "GemmTransposeFusion", "GemmAddFusion",
       "DequantGemmFusion", "ConstantFoldingChecked">>
RunPass(pass, g) ==
  LET done == CASE pass = "IdentityElimination" -> IdentityElimination(g)
                [] pass = "Canonicalization" -> Canonicalization(g)
                [] pass \in {"ConstantFolding", "ConstantFoldingChecked"} -> ConstantFolding(g, pass = "ConstantFoldingChecked")
                [] pass = "ConvBNFusion" -> ConvBNFusion(g)
                [] pass = "ConvActivationFusion" -> ConvActivationFusion(g)
                [] pass = "FastGeLUFusion" -> FastGeLUFusion(g)
                [] pass = "LayerNormFusion" -> LayerNormFusion(g)
                [] pass = "RMSNormFusion" -> RMSNormFusion(g)
                [] pass = "AttentionFusion" -> AttentionFusion(g)
                [] pass = "MatMul2BatchedGemm" -> MatMul2BatchedGemm(g)
                [] pass = "ReorderNodes" -> ReorderNodes(g)
                [] pass = "TransposeFusion" -> TransposeFusion(g)
                [] pass = "GemmTransposeFusion" -> GemmTransposeFusion(g)
                [] pass = "GemmAddFusion" -> GemmAddFusion(g)
                [] pass = "DequantGemmFusion" -> DequantGemmFusion(g)
  IN IF done.failed THEN done ELSE Sweep(done)
===============================================================================
