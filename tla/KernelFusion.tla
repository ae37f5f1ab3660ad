----------------------------- MODULE KernelFusion -----------------------------
(***************************************************************************)
(* From nodes to kernels (src/schedule/kernel.rs, Schedule::new): every    *)
(* operator becomes a kernel, and elementwise operators whose results only *)
(* others of their group read become one kernel together.                  *)
(*                                                                         *)
(* The graph is that of OpGraph; op.type is the operator's type and op.ws  *)
(* the input slot of the scratch memory the CPU's code for it wants, or 0. *)
(* A kernel is [ins, outs, ops], ops being pairs of an operator and its    *)
(* arguments <<"input", k>> or <<"result", k>>; an opaque kernel has the   *)
(* one operator on all of its slots.                                       *)
(***************************************************************************)
EXTENDS OpGraph, TLC
LOCAL INSTANCE SequencesExt
LOCAL INSTANCE FiniteSetsExt

Elementwise(g, i) == g.nodes[i].op.type = "Elementwise" /\ Len(g.nodes[i].outs) = 1

(* The nodes that read a value, output nodes included (used_node). *)
Users(g, v) == {u[1] : u \in UsedAt(g, v)}

-----------------------------------------------------------------------------
(* try_fuse, on a partition of the elementwise nodes (UnionFind) *)

Group(parts, i) == CHOOSE s \in parts : i \in s
MergeGroups(parts, i, j) ==
  (parts \ {Group(parts, i), Group(parts, j)}) \cup {Group(parts, i) \cup Group(parts, j)}

TryFuse(g, parts, i) ==
  LET users == Users(g, g.nodes[i].outs[1])
  IN IF /\ users # {}
        /\ \A u \in users : Elementwise(g, u)
        /\ \A u, w \in users : Group(parts, u) = Group(parts, w)
     THEN MergeGroups(parts, i, CHOOSE u \in users : TRUE)
     ELSE parts

(* From the last elementwise node back to the first. *)
Groups(g, order) ==
  FoldLeft(LAMBDA parts, i : TryFuse(g, parts, i), {{i} : i \in {n \in Range(order) : Elementwise(g, n)}},
           Reverse(SelectSeq(order, LAMBDA i : Elementwise(g, i))))

-----------------------------------------------------------------------------
(* build_bundled_ops: the members in order; an argument is the result of a *)
(* member before, or an input of the kernel, each value once.              *)

Present(ins) == SelectSeq(ins, LAMBDA v : v # NoValue)

(* Mutant of Bundle: a value keeps the number of its first reader's slot. *)
Bundle_SlotNumbers(g, members) ==
  LET result(v) == {k \in DOMAIN members : g.nodes[members[k]].outs[1] = v}
      outer == SelectSeq(FlattenSeq([k \in DOMAIN members |-> Present(g.nodes[members[k]].ins)]),
                         LAMBDA v : result(v) = {})
      inputs == FoldLeft(LAMBDA s, v : IF v \in Range(s) THEN s ELSE Append(s, v), <<>>, outer)
      arg(v, x) == IF result(v) # {} THEN <<"result", CHOOSE k \in result(v) : TRUE>> ELSE <<"input", x>>
  IN [ins |-> inputs, outs |-> g.nodes[members[Len(members)]].outs,
      ops |-> [k \in DOMAIN members |->
                 <<g.nodes[members[k]].op,
                   [x \in DOMAIN Present(g.nodes[members[k]].ins) |->
                      arg(Present(g.nodes[members[k]].ins)[x], IF x < Len(inputs) THEN x ELSE Len(inputs))]>>]]
Bundle(g, members) ==
  LET result(v) == {k \in DOMAIN members : g.nodes[members[k]].outs[1] = v}
      outer == SelectSeq(FlattenSeq([k \in DOMAIN members |-> Present(g.nodes[members[k]].ins)]),
                         LAMBDA v : result(v) = {})
      inputs == FoldLeft(LAMBDA s, v : IF v \in Range(s) THEN s ELSE Append(s, v), <<>>, outer)
      arg(v) == IF result(v) # {} THEN <<"result", CHOOSE k \in result(v) : TRUE>>
                ELSE <<"input", CHOOSE x \in DOMAIN inputs : inputs[x] = v>>
  IN [ins |-> inputs, outs |-> g.nodes[members[Len(members)]].outs,
      ops |-> [k \in DOMAIN members |->
                 <<g.nodes[members[k]].op,
                   [x \in DOMAIN Present(g.nodes[members[k]].ins) |->
                      arg(Present(g.nodes[members[k]].ins)[x])]>>]]

(* A kernel of one node. *)
Single(n) ==
  [ins |-> n.ins, outs |-> n.outs,
   ops |-> << <<n.op, IF n.op.type = "Elementwise"
                      THEN LET slots == Ascending(InputSlots(n))
                           IN [x \in DOMAIN slots |-> <<"input", slots[x]>>]
                      ELSE [x \in DOMAIN n.ins |-> <<"input", x>>]>> >>]

(* set_node_input: a new value in a slot, None in those before it. *)
SetInput(n, slot, v) ==
  [n EXCEPT !.ins = [x \in 1..(IF Len(n.ins) > slot THEN Len(n.ins) ELSE slot) |->
                       IF x = slot THEN v ELSE IF x \in DOMAIN n.ins THEN n.ins[x] ELSE NoValue]]

(* The node with its workspace (CPU and hybrid targets): node i's is value *)
(* fresh + i.                                                              *)
WithWorkspace(g, i, cpu, fresh) ==
  IF cpu /\ g.nodes[i].op.ws # 0 THEN SetInput(g.nodes[i], g.nodes[i].op.ws, fresh + i) ELSE g.nodes[i]

(* KernelsBuilder::run: a group's kernel stands where its last member is.  *)
BuildKernels(g, cpu, fresh) ==
  LET order == TopologicalOrder(g)
      parts == Groups(g, order)
      group(i) == IF Elementwise(g, i) THEN SelectSeq(order, LAMBDA j : j \in Group(parts, i)) ELSE <<i>>
      places == SelectSeq(order, LAMBDA i : group(i)[Len(group(i))] = i)
  IN [n \in DOMAIN places |->
        IF Len(group(places[n])) > 1 THEN Bundle(g, group(places[n]))
        ELSE Single(WithWorkspace(g, places[n], cpu, fresh))]

(* What Schedule::output_aliases and the code generators take for a mere   *)
(* forward: matches_opaque!(kernel, Identity | Reinterpret).               *)
IsForward(k) ==
  Len(k.ops) = 1 /\ k.ops[1][1].type = "Opaque" /\ k.ops[1][1].name \in {"Identity", "Reinterpret"}

-----------------------------------------------------------------------------
(* The reference: the kernels run in order, on an environment of terms.    *)

Unknown == <<"unknown">>
Workspace == <<"workspace">>

(* The terms a kernel's operators compute, in order. *)
Results(k, env) ==
  LET at(v) == IF v = NoValue THEN <<"none">> ELSE IF v \in DOMAIN env THEN env[v] ELSE Unknown
      run(rs, op) ==
        Append(rs, <<"apply", op[1], [x \in DOMAIN op[2] |->
                       IF op[2][x][1] = "input" THEN at(k.ins[op[2][x][2]])
                       ELSE IF op[2][x][2] \in DOMAIN rs THEN rs[op[2][x][2]] ELSE Unknown]>>)
  IN FoldLeft(run, <<>>, k.ops)

EnvAfter(g, kernels, env0) ==
  FoldLeft(LAMBDA env, k :
             LET rs == Results(k, env)
                 r == rs[Len(rs)]
             IN [v \in DOMAIN env \cup Range(k.outs) |->
                   IF v \in Range(k.outs)
                   THEN Append(r, CHOOSE x \in DOMAIN k.outs : k.outs[x] = v) ELSE env[v]],
           env0, kernels)

-----------------------------------------------------------------------------
(* Four operators in a row of any kind over an input (value 1) and a       *)
(* tensor (value 2); their results are values 3 to 6, and the last one may *)
(* be listed first.                                                        *)

Op(name, type, ws) == [name |-> name, type |-> type, ws |-> ws]
Dummy == Op("Dummy", "Dummy", 0)
Node(op, ins, outs) == [op |-> op, ins |-> ins, outs |-> outs]

E == Op("Add", "Elementwise", 0)
Kinds == {E, Op("Gemm", "Opaque", 4), Op("Softmax", "Opaque", 0)}

Given(ops, ins, outputs, swap) ==
  [ nodes |-> << Node(Dummy, <<>>, <<1>>) >>
              \o [k \in 1..4 |-> LET j == IF swap THEN 5 - k ELSE k IN Node(ops[j], ins[j], <<2 + j>>)]
              \o [k \in DOMAIN outputs |-> Node(Dummy, <<outputs[k]>>, <<>>)],
    inputs |-> <<1>>, outputs |-> [k \in DOMAIN outputs |-> 5 + k],
    tensor |-> (2 :> "t") ]

Graphs ==
  { Given(<<o1, o2, o3, E>>, <<i1, i2, i3, i4>>, outputs, swap) :
      o1 \in Kinds, o2 \in Kinds, o3 \in Kinds,
      i1 \in {<<1, 2>>, <<1, NoValue, 2>>}, i2 \in {<<3>>, <<1, 3>>, <<2, 1>>},
      i3 \in {<<3, 4>>, <<4, 4>>, <<1, 4>>}, i4 \in {<<5, 4>>, <<3, 5>>, <<4, 3>>, <<5, 1>>},
      outputs \in {<<6>>, <<6, 5>>, <<4, 6>>}, swap \in BOOLEAN }

VARIABLES graph, cpu, kernels

Fresh == 6
Init == graph \in Graphs /\ cpu \in BOOLEAN /\ kernels = <<>>
Build ==
  /\ kernels = <<>>
  /\ kernels' = BuildKernels(graph, cpu, Fresh)
  /\ UNCHANGED <<graph, cpu>>
Spec == Init /\ [][Build]_<<graph, cpu, kernels>>

(* With an Identity as the last operator. *)
Identity == Op("Identity", "Elementwise", 0)
InitIdentity ==
  /\ graph \in {[g EXCEPT !.nodes[5].op = Identity, !.nodes[5].ins = <<4>>] : g \in {h \in Graphs : h.nodes[5].outs = <<6>>}}
  /\ cpu \in BOOLEAN
  /\ kernels = <<>>
SpecIdentity == InitIdentity /\ [][Build]_<<graph, cpu, kernels>>

(* A graph term without the slots that say nothing: an absent input of an  *)
(* elementwise operator, and a workspace.                                  *)
RECURSIVE Plain(_)
Plain(t) ==
  IF t[1] # "apply" THEN t
  ELSE LET as == t[3]
           trimmed == SelectSeq(as, LAMBDA a : a # <<"none">> /\ a # Workspace)
       IN <<"apply", t[2], [x \in DOMAIN trimmed |-> Plain(trimmed[x])]>>
RECURSIVE Meaning(_, _)
Meaning(g, v) ==
  IF v \in DOMAIN g.tensor THEN <<"initializer", g.tensor[v]>>
  ELSE IF InputAt(g, v) # 0 THEN <<"input", InputAt(g, v)>>
  ELSE LET n == g.nodes[Definer(g, v)]
           ins == Present(n.ins)
       IN <<"apply", n.op, [x \in DOMAIN ins |-> Meaning(g, ins[x])]>>

Start == [v \in {1, 2} \cup (Fresh + 1)..(Fresh + 6) |->
            IF v = 1 THEN <<"input", 1>> ELSE IF v = 2 THEN <<"initializer", "t">> ELSE Workspace]
After == EnvAfter(graph, kernels, Start)

(* The kernels, run in the order they are in, leave in every output what   *)
(* the graph says, whatever was fused (try_fuse, build_bundled_ops).       *)
KernelsComputeGraph ==
  kernels # <<>> =>
    \A n \in DOMAIN graph.outputs :
      LET v == OutputValues(graph)[n]
      IN v \in DOMAIN After /\ Plain(After[v]) = Meaning(graph, v)

(* Every operator is in exactly one kernel, once: nothing is computed      *)
(* twice and nothing is lost.                                              *)
EachOperatorOnce ==
  kernels # <<>> =>
    LET all == FlattenSeq([n \in DOMAIN kernels |-> [k \in DOMAIN kernels[n].ops |-> kernels[n].ops[k][1]]])
        count(op) == Cardinality({k \in DOMAIN all : all[k] = op})
    IN \A i \in Operators(graph) :
         count(graph.nodes[i].op) = Cardinality({j \in Operators(graph) : graph.nodes[j].op = graph.nodes[i].op})

(* No two kernels share a workspace, and a CUDA target has none.           *)
WorkspacesApart ==
  LET W == (Fresh + 1)..(Fresh + 6)
      of(n) == {x \in DOMAIN kernels[n].ins : kernels[n].ins[x] \in W}
  IN \A n \in DOMAIN kernels :
       /\ of(n) # {} => cpu
       /\ \A m \in DOMAIN kernels : m # n =>
            \A x \in of(n), y \in of(m) : kernels[n].ins[x] # kernels[m].ins[y]

(* A value that two different groups, or an output, read is not fused      *)
(* away, and one its group alone reads is.                                 *)
FusesAllItCan ==
  kernels # <<>> =>
    \A m, n \in DOMAIN kernels : m # n =>
      LET el(k) == \A o \in DOMAIN k.ops : k.ops[o][1].type = "Elementwise"
          v == kernels[m].outs[1]
      IN ~(/\ el(kernels[m]) /\ el(kernels[n])
           /\ v \in Range(kernels[n].ins)
           /\ \A i \in Users(graph, v) : ~ IsDummy(graph.nodes[i])
           /\ \A k \in DOMAIN kernels \ {n} : v \notin Range(kernels[k].ins))

(* "Map each value forwarded to a graph output through a chain of Identity *)
(* / Reinterpret kernels": a kernel that is only an Identity is one of     *)
(* those (Schedule::output_aliases).                                       *)
IdentityForwards ==
  \A n \in DOMAIN kernels :
    Len(kernels[n].ops) = 1 /\ kernels[n].ops[1][1].name = "Identity" => IsForward(kernels[n])
==============================================================================
