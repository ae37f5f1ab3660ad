--------------------------------- MODULE Nhwc ---------------------------------
(***************************************************************************)
(* Convolutions in NHWC: the pass that makes every Conv write NHWC and     *)
(* puts an NHWC2NCHW behind it, the one that sinks these conversions       *)
(* towards the Convs and Pools that can read NHWC, folds them there and    *)
(* takes back those that were of no use, and the lowering of the rest      *)
(* (src/transform/lower/nhwc2nchw_*.rs, epilog/lower_nhwc2nchw.rs).        *)
(*                                                                         *)
(* A graph is [nodes, types]; a node is [op, ins, out]. Value 1 is the     *)
(* graph's input, value 2 a parameter. An operator is a record with its    *)
(* kind; a Conv and a Pool have the layouts of what they read and write.   *)
(* A Conv's weights are left out: they are initializers. Bundles of views  *)
(* are there from the start (Views has the passes that make them), and a   *)
(* Conv or a Pool reads a value that is contiguous.                        *)
(***************************************************************************)
EXTENDS Layout, Integers
LOCAL INSTANCE SequencesExt
LOCAL INSTANCE FiniteSetsExt
LOCAL INSTANCE Functions

CONSTANTS MaxNodes,   \* operators of a given graph
          Views,      \* what its Reinterprets may be
          AllReaders  \* whether anything at all may read what a Pool makes

ToNchw == <<1, 4, 2, 3>>
ToNhwc == <<1, 3, 4, 2>>
ConversionOp == [kind |-> "NHWC2NCHW"]
ReinterpretOp(views) == [kind |-> "Reinterpret", views |-> views]

Kind(g, i) == g.nodes[i].op.kind
OfKind(g, kind) == {i \in DOMAIN g.nodes : Kind(g, i) = kind}
Users(g, v) == {i \in DOMAIN g.nodes : v \in Range(g.nodes[i].ins)}
Definers(g, v) == {i \in DOMAIN g.nodes : g.nodes[i].out = v}
InOrder(g, S) == SelectSeq([i \in DOMAIN g.nodes |-> i], LAMBDA i : i \in S)

WithNode(g, op, ins, ty) ==
  [nodes |-> Append(g.nodes, [op |-> op, ins |-> ins, out |-> Len(g.types) + 1]), types |-> Append(g.types, ty)]
(* replace_input_value_if: in the nodes of a set. *)
Redirect(g, ids, old, new) ==
  [g EXCEPT !.nodes = [i \in DOMAIN @ |->
     IF i \in ids THEN [@[i] EXCEPT !.ins = [x \in DOMAIN @ |-> IF @[x] = old THEN new ELSE @[x]]] ELSE @[i]]]

RECURSIVE Behind(_, _)
Behind(g, ids) ==
  LET more == ids \cup UNION {Definers(g, v) : v \in UNION {Range(g.nodes[i].ins) : i \in ids}}
  IN IF more = ids THEN ids ELSE Behind(g, more)
Sweep(g) == LET kept == InOrder(g, Behind(g, OfKind(g, "Output")))
            IN [g EXCEPT !.nodes = [x \in DOMAIN kept |-> @[kept[x]]]]

RECURSIVE Depth(_, _)
Depth(g, i) == Max({0} \cup {1 + Depth(g, d) : d \in UNION {Definers(g, v) : v \in Range(g.nodes[i].ins)}})
TopologicalOrder(g) ==
  FlattenSeq([d \in 1..Len(g.nodes) |-> InOrder(g, {i \in DOMAIN g.nodes : Depth(g, i) = d - 1})])

-----------------------------------------------------------------------------
(* infer_node_output, strides checked: the type of what a node writes, or  *)
(* none. A Conv keeps the dimensions and a Pool leaves one pixel.          *)

ViewType(ty, view) ==
  IF view[1] = "Reshape" THEN TryReshape(ty, view[2]) ELSE {TransposeType(ty, view[2])}
ViewsType(ty, views) == FoldLeft(LAMBDA tys, view : UNION {ViewType(t, view) : t \in tys}, {ty}, views)

Pooled(dims, layout) == [i \in DOMAIN dims |-> IF i \in (IF layout = "NHWC" THEN {2, 3} ELSE {3, 4}) THEN 1 ELSE dims[i]]
Convolved(dims, op) ==
  LET nchw == IF op.reads = "NHWC" THEN Permuted(dims, ToNchw) ELSE dims
  IN IF op.writes = "NHWC" THEN Permuted(nchw, ToNhwc) ELSE nchw
InferType(g, n) ==
  LET ty == g.types[n.ins[1]]
  IN CASE n.op.kind = "Conv" -> IF IsContiguous(ty) THEN {TypeOf(Convolved(ty.dims, n.op))} ELSE {}
       [] n.op.kind = "Pool" -> {TypeOf(Pooled(ty.dims, n.op.reads))}
       [] n.op.kind = "Elementwise" -> {TypeOf(FoldLeft(LAMBDA d, v : BroadcastShape(d, g.types[v].dims), ty.dims, n.ins))}
       [] n.op.kind = "NHWC2NCHW" -> {Dense(TransposeType(ty, ToNchw))}
       [] n.op.kind = "Reinterpret" -> ViewsType(ty, n.op.views)
       [] n.op.kind = "Contiguous" -> {Dense(t) : t \in ViewsType(ty, n.op.views)}
       [] OTHER -> {Dense(ty)}

-----------------------------------------------------------------------------
(* What an NHWC producer gets: its output becomes NHWC, and whoever read   *)
(* it reads an NHWC2NCHW of it.                                            *)
Convert(g, id) ==
  LET v == g.nodes[id].out
      typed == [g EXCEPT !.types[v] = Dense(TransposeType(@, ToNhwc))]
      made == WithNode(typed, ConversionOp, <<v>>, g.types[v])
  IN Redirect(made, DOMAIN g.nodes \ {id}, v, Len(made.types))

(* NHWC2NCHWInsertion *)
Insertion(g) ==
  FoldLeft(LAMBDA h, id : Convert([h EXCEPT !.nodes[id].op.writes = "NHWC"], id), g, InOrder(g, OfKind(g, "Conv")))

-----------------------------------------------------------------------------
(* SinkMarker: a conversion is worth sinking when all who read it, through *)
(* elementwise operators and views, are Convs and Pools. Outputs are not   *)
(* visited, and what is not visited forbids it.                            *)
RECURSIVE Score(_, _)
UsersScore(g, v) ==
  LET scores == {Score(g, u) : u \in Users(g, v)}
  IN IF "Forbidden" \in scores THEN "Forbidden" ELSE IF "Benefit" \in scores THEN "Benefit" ELSE "Neutral"
Score(g, i) ==
  LET n == g.nodes[i]
  IN CASE n.op.kind \in {"Conv", "Pool"} -> "Benefit"
       [] n.op.kind = "NHWC2NCHW" -> UsersScore(g, n.out)
       [] n.op.kind \in {"Elementwise", "Reinterpret"} /\ (\A v \in Range(n.ins) : Len(g.types[v].dims) = 4) ->
            UsersScore(g, n.out)
       [] OTHER -> "Forbidden"
Marked(g) == {i \in OfKind(g, "NHWC2NCHW") : UsersScore(g, g.nodes[i].out) = "Benefit"}

-----------------------------------------------------------------------------
(* do_sink: st is the graph, the marked conversions and whether all went   *)
(* well; cands the conversions an operator reads, slot by slot.            *)

Panic(st) == [st EXCEPT !.ok = FALSE]
Cands(g, id) == [x \in DOMAIN g.nodes[id].ins |-> Definers(g, g.nodes[id].ins[x]) \cap OfKind(g, "NHWC2NCHW")]
Source(g, cands) == g.nodes[CHOOSE d \in cands : TRUE].ins[1]
(* The conversion behind a node that was sunk through is marked, too. *)
Sunk(st, g, id) == LET h == Convert(g, id) IN [st EXCEPT !.g = h, !.marked = @ \cup {Len(h.nodes)}]

SinkConv(st, id, cand) ==
  LET n == st.g.nodes[id]
      g == [st.g EXCEPT !.nodes[id].op.reads = "NHWC"]
  IN IF n.op.reads = "NHWC" THEN Panic(st) ELSE [st EXCEPT !.g = Redirect(g, {id}, n.ins[1], Source(g, cand))]

SinkPool(st, id, cand) ==
  LET n == st.g.nodes[id]
      g == [st.g EXCEPT !.nodes[id].op.reads = "NHWC", !.nodes[id].op.writes = "NHWC"]
  IN IF n.op.reads = "NHWC" THEN Panic(st) ELSE Sunk(st, Redirect(g, {id}, n.ins[1], Source(g, cand)), id)

(* The views of a Reinterpret between a transposition back and one forth;  *)
(* it has to be possible on the NHWC data.                                 *)
SinkReinterpret(st, id, cand) ==
  LET n == st.g.nodes[id]
      square == Len(st.g.types[n.out].dims) = 4
      views == <<<<"Transpose", ToNchw>>>> \o n.op.views \o (IF square THEN <<<<"Transpose", ToNhwc>>>> ELSE <<>>)
      g == Redirect([st.g EXCEPT !.nodes[id].op = ReinterpretOp(views)], {id}, n.ins[1], Source(st.g, cand))
  IN IF ViewsType(st.g.types[Source(st.g, cand)], views) = {} THEN Panic(st)
     ELSE IF square THEN Sunk(st, g, id) ELSE [st EXCEPT !.g = g]

(* Mutant of SinkOperand: an operand that is not converted is read as it is. *)
SinkOperand_AsIs(g, id, x, cand) ==
  IF cand # {} THEN Redirect(g, {id}, g.nodes[id].ins[x], Source(g, cand)) ELSE g
SinkOperand(g, id, x, cand) ==
  LET v == g.nodes[id].ins[x]
      made == WithNode(g, ReinterpretOp(<<<<"Transpose", ToNhwc>>>>), <<v>>, TransposeType(g.types[v], ToNhwc))
  IN IF cand # {} THEN Redirect(g, {id}, v, Source(g, cand)) ELSE Redirect(made, {id}, v, Len(made.types))
SinkElementwise(st, id, cands) ==
  Sunk(st, FoldLeft(LAMBDA g, x : SinkOperand(g, id, x, cands[x]), st.g, [x \in DOMAIN cands |-> x]), id)

DoSink(st, id) ==
  LET cands == Cands(st.g, id)
      kind == Kind(st.g, id)
  IN CASE ~ st.ok \/ (\A x \in DOMAIN cands : cands[x] = {}) -> st
       [] \E x \in DOMAIN cands : ~ (cands[x] \subseteq st.marked) -> st
       [] kind = "Conv" -> SinkConv(st, id, cands[1])
       [] kind = "Pool" -> SinkPool(st, id, cands[1])
       [] kind = "Reinterpret" -> SinkReinterpret(st, id, cands[1])
       [] kind = "Elementwise" -> SinkElementwise(st, id, cands)
       [] OTHER -> Panic(st)
Sink(g) ==
  FoldLeft(DoSink, [g |-> g, marked |-> Marked(g), ok |-> TRUE],
           SelectSeq(TopologicalOrder(g), LAMBDA i : Kind(g, i) # "Output"))

-----------------------------------------------------------------------------
(* fold_into_conv_input: a conversion that only Convs read. *)
FoldIntoConvInput(g) ==
  FoldLeft(LAMBDA h, id :
             LET n == h.nodes[id]
                 convs == Users(h, n.out)
             IN Redirect([h EXCEPT !.nodes = [i \in DOMAIN @ |-> IF i \in convs THEN [@[i] EXCEPT !.op.reads = "NHWC"]
                                                                ELSE @[i]]],
                         convs, n.out, n.ins[1]),
           g, InOrder(g, {i \in OfKind(g, "NHWC2NCHW") :
                         LET users == Users(g, g.nodes[i].out) IN users # {} /\ users \subseteq OfKind(g, "Conv")}))

(* revert: a Conv whose NHWC output is only ever converted writes NCHW. *)
Wasted(g) ==
  {c \in OfKind(g, "Conv") :
     LET users == Users(g, g.nodes[c].out)
     IN g.nodes[c].op.writes = "NHWC" /\ users # {} /\ users \subseteq OfKind(g, "NHWC2NCHW")}
TakeBack(g, c) ==
  LET v == g.nodes[c].out
      conversions == InOrder(g, Users(g, v))
      nchw == g.types[g.nodes[conversions[1]].out]
  IN FoldLeft(LAMBDA h, i : Redirect(h, DOMAIN h.nodes, h.nodes[i].out, v),
              [g EXCEPT !.nodes[c].op.writes = "NCHW", !.types[v] = nchw], conversions)
Revert(g) == FoldLeft(TakeBack, g, InOrder(g, Wasted(g)))

(* NHWC2NCHWSinkAndFold *)
SinkAndFold(g) == LET st == Sink(g) IN [g |-> Sweep(Revert(FoldIntoConvInput(st.g))), ok |-> st.ok]

(* NHWC2NCHWLowering *)
Lowering(g) ==
  Sweep(FoldLeft(LAMBDA h, id :
                   LET n == h.nodes[id]
                       made == WithNode(h, [kind |-> "Contiguous", views |-> <<<<"Transpose", ToNchw>>>>], n.ins,
                                        h.types[n.out])
                   IN Redirect(made, DOMAIN made.nodes, n.out, Len(made.types)),
                 g, InOrder(g, OfKind(g, "NHWC2NCHW"))))

-----------------------------------------------------------------------------
(* Graphs of up to MaxNodes operators that begin with a Conv of the input, *)
(* and whose outputs are what nothing reads and at most one value more.    *)

VARIABLES given,    \* the graph before the passes
          lowered,  \* and after them
          stage     \* building, complete, inserted, sunk, panicked, lowered
vars == <<given, lowered, stage>>

Dims == <<1, 2, 3, 5>>
ConvOp == [kind |-> "Conv", reads |-> "NCHW", writes |-> "NCHW"]
PoolOp == [kind |-> "Pool", reads |-> "NCHW", writes |-> "NCHW"]
ElementwiseOp == [kind |-> "Elementwise"]
OpaqueOp == [kind |-> "Opaque"]

Start == WithNode([nodes |-> <<>>, types |-> <<TypeOf(Dims), TypeOf(Dims)>>], ConvOp, <<1>>, TypeOf(Dims))
Init == given = Start /\ lowered = Start /\ stage = "building"

(* Operators a value can be given to. *)
Readers(g, v) ==
  {ElementwiseOp, OpaqueOp}
  \cup {op \in {ConvOp, PoolOp} : Len(g.types[v].dims) = 4 /\ IsContiguous(g.types[v])}
  \cup {ReinterpretOp(<<view>>) : view \in {w \in Views : Len(g.types[v].dims) = 4 /\ ViewType(g.types[v], w) # {}}}
Made(g, op, ins) == WithNode(g, op, ins, CHOOSE ty \in InferType(g, [op |-> op, ins |-> ins]) : TRUE)

AddNode ==
  /\ stage = "building" /\ Len(given.nodes) < MaxNodes
  /\ \E v \in DOMAIN given.types \ {1, 2} :
       \/ \E op \in Readers(given, v) : given' = Made(given, op, <<v>>)
       \/ \E w \in DOMAIN given.types \ {1} :
            /\ Len(given.types[v].dims) = Len(given.types[w].dims)
            /\ Broadcastable(given.types[v].dims, given.types[w].dims)
            /\ given' = Made(given, ElementwiseOp, <<v, w>>)
  /\ UNCHANGED <<lowered, stage>>

(* The nodes behind a Pool, as far as the next Conv. *)
RECURSIVE Before(_, _)
Before(g, ids) ==
  LET more == ids \cup UNION {Users(g, g.nodes[i].out) : i \in ids \ OfKind(g, "Conv")}
  IN IF more = ids THEN ids ELSE Before(g, more)
(* They can be sunk into: sink marks the conversion behind a Pool whoever  *)
(* reads it, and an operator that it cannot sink into panics.              *)
PoolsReadWell(g) ==
  \A i \in Before(g, OfKind(g, "Pool")) :
    /\ Kind(g, i) # "Opaque"
    /\ Kind(g, i) = "Reinterpret" => Product(g.types[g.nodes[i].out].dims) = Dims[2] \/ Len(g.types[g.nodes[i].out].dims) = 4

AddOutputs ==
  /\ stage = "building"
  /\ AllReaders \/ PoolsReadWell(given)
  /\ LET made == {n.out : n \in Range(given.nodes)}
         unread == {v \in made : Users(given, v) = {}}
     IN \E more \in {{}} \cup {{v} : v \in made \ unread} :
          /\ \A v \in unread \cup more : IsContiguous(given.types[v])
          /\ given' = FoldLeft(LAMBDA g, v : WithNode(g, [kind |-> "Output"], <<v>>, g.types[v]), given,
                               SelectSeq([v \in DOMAIN given.types |-> v], LAMBDA v : v \in unread \cup more))
  /\ stage' = "complete" /\ lowered' = given'

Insert == stage = "complete" /\ lowered' = Insertion(lowered) /\ stage' = "inserted" /\ UNCHANGED given
SinkAndFoldPass ==
  /\ stage = "inserted"
  /\ LET r == SinkAndFold(lowered)
     IN lowered' = r.g /\ stage' = (IF r.ok THEN "sunk" ELSE "panicked")
  /\ UNCHANGED given
Lower == stage = "sunk" /\ lowered' = Lowering(lowered) /\ stage' = "lowered" /\ UNCHANGED given

Next == AddNode \/ AddOutputs \/ Insert \/ SinkAndFoldPass \/ Lower
Spec == Init /\ [][Next]_vars

-----------------------------------------------------------------------------
(* The reference: a value is a tensor, its axes permuted. *)

Tensor(base, perm) == [base |-> base, perm |-> perm]
Identity(n) == [i \in 1..n |-> i]
Turned(t, perm) == Tensor(t.base, Permuted(t.perm, perm))
Inverse4(perm) == [i \in DOMAIN perm |-> CHOOSE j \in DOMAIN perm : perm[j] = i]
AsNchw(t, layout) == IF layout = "NHWC" THEN Turned(t, ToNchw) ELSE t
Laid(base, layout) == Tensor(base, IF layout = "NHWC" THEN ToNhwc ELSE Identity(4))
Viewed(t, views) ==
  FoldLeft(LAMBDA s, view : IF view[1] = "Reshape" THEN Tensor(<<"reshape", view[2], s>>, Identity(Len(view[2])))
                            ELSE Turned(s, view[2]), t, views)

(* An elementwise operator commutes with a permutation of all its operands. *)
RECURSIVE Meaning(_, _)
Meaning(g, v) ==
  IF v \in {1, 2} THEN Tensor(<<"given", v>>, Identity(4))
  ELSE LET n == g.nodes[CHOOSE i \in Definers(g, v) : TRUE]
           read == [x \in DOMAIN n.ins |-> Meaning(g, n.ins[x])]
           t == read[1]
       IN CASE n.op.kind \in {"Conv", "Pool"} -> Laid(<<n.op.kind, AsNchw(t, n.op.reads)>>, n.op.writes)
            [] n.op.kind = "NHWC2NCHW" -> Turned(t, ToNchw)
            [] n.op.kind \in {"Reinterpret", "Contiguous"} -> Viewed(t, n.op.views)
            [] n.op.kind = "Elementwise" ->
                 Tensor(<<"elementwise", [x \in DOMAIN read |->
                            <<read[x].base, [i \in DOMAIN t.perm |-> read[x].perm[Inverse4(t.perm)[i]]]>>]>>, t.perm)
            [] OTHER -> Tensor(<<n.op.kind, t>>, t.perm)

Outputs(g) == [x \in DOMAIN InOrder(g, OfKind(g, "Output")) |-> g.nodes[InOrder(g, OfKind(g, "Output"))[x]].ins[1]]

(* Every output of the graph is what it was: the same tensor in the same   *)
(* layout, contiguous and of the same dimensions, after each of the passes *)
(* ("Sink NHWC2NCHW through elementwise, fold into Conv").                 *)
OutputsMeanTheSame ==
  stage \in {"inserted", "sunk", "lowered"} =>
    /\ Len(Outputs(lowered)) = Len(Outputs(given))
    /\ \A x \in DOMAIN Outputs(given) :
         /\ Meaning(lowered, Outputs(lowered)[x]) = Meaning(given, Outputs(given)[x])
         /\ lowered.types[Outputs(lowered)[x]] = given.types[Outputs(given)[x]]

(* ShapeVerification after every pass: each value has the type, strides    *)
(* and all, that its operator gives it.                                    *)
DeclaredTypesHold ==
  stage \in {"inserted", "sunk", "lowered"} =>
    \A i \in DOMAIN lowered.nodes \ OfKind(lowered, "Output") :
      InferType(lowered, lowered.nodes[i]) = {lowered.types[lowered.nodes[i].out]}

(* No assertion and no unwrap of the pass fails. *)
NeverPanics == stage # "panicked"

(* "Fold into Conv, revert unfoldable": a conversion that is left has a     *)
(* reader that is no Conv, and what it converts is not a Conv's output     *)
(* that it alone reads.                                                    *)
ConversionsEarnTheirPlace ==
  stage = "sunk" =>
    \A i \in OfKind(lowered, "NHWC2NCHW") :
      LET n == lowered.nodes[i]
      IN /\ ~ (Users(lowered, n.out) \subseteq OfKind(lowered, "Conv"))
         /\ Definers(lowered, n.ins[1]) \subseteq OfKind(lowered, "Conv") =>
              ~ (Users(lowered, n.ins[1]) \subseteq OfKind(lowered, "NHWC2NCHW"))
===============================================================================
