------------------------------- MODULE OpGraph -------------------------------
(***************************************************************************)
(* The operator graph the passes rewrite and kernels are built from        *)
(* (src/graph.rs), and what src/graph/utils.rs computes of it.             *)
(*                                                                         *)
(* A graph is a record                                                     *)
(*   nodes         a sequence of [op, ins, outs]: the node ids are its     *)
(*                 positions; an input that is not there is NoValue        *)
(*   inputs        the ids of its input nodes, in order                    *)
(*   outputs       the ids of its output nodes, in order                   *)
(*   tensor        the tensor of each initializer                          *)
(* op is a record whose field "type" is the operator's OperatorType; two   *)
(* operators with equal records compute the same.                          *)
(***************************************************************************)
EXTENDS Integers, Sequences, FiniteSets
LOCAL INSTANCE SequencesExt
LOCAL INSTANCE FiniteSetsExt

NoValue == 0

NodeIds(g) == DOMAIN g.nodes
IsDummy(n) == n.op.type = "Dummy"
Operators(g) == {i \in NodeIds(g) : ~ IsDummy(g.nodes[i])}
InputSlots(n) == {x \in DOMAIN n.ins : n.ins[x] # NoValue}
ValuesIn(n) == {n.ins[x] : x \in InputSlots(n)}

(* calc_value2xx: where each value is used and where it is defined. *)
UsedAt(g, v) ==
  {<<i, x>> \in UNION {{i} \X DOMAIN g.nodes[i].ins : i \in NodeIds(g)} : g.nodes[i].ins[x] = v}
DefinedAt(g, v) ==
  {<<i, x>> \in UNION {{i} \X DOMAIN g.nodes[i].outs : i \in NodeIds(g)} : g.nodes[i].outs[x] = v}
Definer(g, v) == (CHOOSE d \in DefinedAt(g, v) : TRUE)[1]

InputValues(g)  == [n \in DOMAIN g.inputs |-> g.nodes[g.inputs[n]].outs[1]]
OutputValues(g) == [n \in DOMAIN g.outputs |-> g.nodes[g.outputs[n]].ins[1]]

-----------------------------------------------------------------------------
(* simple_topological_order: depth first from each node in turn, along the *)
(* values to their users, a node being put down when all its users are;    *)
(* the order is what was put down, read backwards.                         *)

Successors(g, i) ==
  {j \in NodeIds(g) : \E x \in DOMAIN g.nodes[i].outs : g.nodes[i].outs[x] \in ValuesIn(g.nodes[j])}

Ascending(S) == SetToSortSeq(S, LAMBDA a, b : a < b)

RECURSIVE Dfs(_, _, _)

Dfs(g, i, st) ==
  IF i \in st.visited THEN st
  ELSE LET below == FoldLeft(LAMBDA s, j : Dfs(g, j, s),
                             [st EXCEPT !.visited = @ \cup {i}],
                             Ascending(Successors(g, i)))
       IN  IF IsDummy(g.nodes[i]) THEN below ELSE [below EXCEPT !.order = Append(@, i)]

TopologicalOrder(g) ==
  Reverse(FoldLeft(LAMBDA st, i : Dfs(g, i, st), [visited |-> {}, order |-> <<>>],
                   Ascending(Operators(g))).order)

-----------------------------------------------------------------------------
(* delete_nodes, at the end of a transformation: the nodes marked as       *)
(* deleted go, and the rest is numbered anew: operators first, then the    *)
(* input and the output nodes.                                             *)

DeleteNodes(g, deleted) ==
  LET kept == Ascending(Operators(g) \ deleted)
      order == kept \o g.inputs \o g.outputs
  IN  [g EXCEPT !.nodes = [k \in DOMAIN order |-> g.nodes[order[k]]],
                !.inputs = [k \in DOMAIN g.inputs |-> Len(kept) + k],
                !.outputs = [k \in DOMAIN g.outputs |-> Len(kept) + Len(g.inputs) + k]]

-----------------------------------------------------------------------------
(* compare_graphs_structural: two graphs are taken for equal when a        *)
(* bijection of their nodes and values can be grown from the outputs back. *)

InputAt(g, v) ==
  IF \E n \in DOMAIN g.inputs : InputValues(g)[n] = v
  THEN CHOOSE n \in DOMAIN g.inputs : InputValues(g)[n] = v /\ \A m \in 1..(n - 1) : InputValues(g)[m] # v
  ELSE 0

(* Bijective::add, on a set of pairs. *)
Fits(pairs, l, r) == \A p \in pairs : p[1] = l <=> p[2] = r

RECURSIVE Matched(_, _, _, _, _)

MatchFails == [ok |-> FALSE, values |-> {}, nodes |-> {}]
MatchValue(st, l, r) ==
  IF Fits(st.values, l, r) THEN [st EXCEPT !.values = @ \cup {<<l, r>>}] ELSE MatchFails

(* Mutant of MatchNode: inputs are compared as far as both nodes have them. *)
MatchNode_Zip(g, h, st, dl, dr) ==
  IF \E p \in st.nodes : p[1] = dl[1]
  THEN IF <<dl[1], dr[1]>> \in st.nodes THEN st ELSE MatchFails
  ELSE LET nl == g.nodes[dl[1]]
           nr == h.nodes[dr[1]]
           after == FoldLeft(LAMBDA s, x :
                      IF ~ s.ok THEN s
                      ELSE IF (nl.ins[x] = NoValue) # (nr.ins[x] = NoValue) THEN MatchFails
                      ELSE IF nl.ins[x] = NoValue THEN s
                      ELSE Matched(g, h, s, nl.ins[x], nr.ins[x]),
                      st, [x \in DOMAIN nl.ins \cap DOMAIN nr.ins |-> x])
       IN  IF nl.op = nr.op /\ after.ok /\ Fits(after.nodes, dl[1], dr[1])
           THEN [after EXCEPT !.nodes = @ \cup {<<dl[1], dr[1]>>}] ELSE MatchFails

(* The nodes behind two values: same operator, and inputs that match. *)
MatchNode(g, h, st, dl, dr) ==
  IF \E p \in st.nodes : p[1] = dl[1]
  THEN IF <<dl[1], dr[1]>> \in st.nodes THEN st ELSE MatchFails
  ELSE LET nl == g.nodes[dl[1]]
           nr == h.nodes[dr[1]]
       IN  IF nl.op # nr.op \/ Len(nl.ins) # Len(nr.ins) THEN MatchFails
           ELSE LET after == FoldLeft(LAMBDA s, x :
                               IF ~ s.ok THEN s
                               ELSE IF (nl.ins[x] = NoValue) # (nr.ins[x] = NoValue) THEN MatchFails
                               ELSE IF nl.ins[x] = NoValue THEN s
                               ELSE Matched(g, h, s, nl.ins[x], nr.ins[x]),
                               st, [x \in DOMAIN nl.ins |-> x])
                IN  IF after.ok /\ Fits(after.nodes, dl[1], dr[1])
                    THEN [after EXCEPT !.nodes = @ \cup {<<dl[1], dr[1]>>}] ELSE MatchFails

(* Initializers match when their tensors are equal. *)
Matched(g, h, st, l, r) ==
  IF <<l, r>> \in st.values THEN st
  ELSE IF l \in DOMAIN g.tensor \/ r \in DOMAIN h.tensor
  THEN IF l \in DOMAIN g.tensor /\ r \in DOMAIN h.tensor /\ g.tensor[l] = h.tensor[r]
       THEN MatchValue(st, l, r) ELSE MatchFails
  ELSE IF InputAt(g, l) # 0 \/ InputAt(h, r) # 0
  THEN IF InputAt(g, l) = InputAt(h, r) THEN MatchValue(st, l, r) ELSE MatchFails
  ELSE LET dl == CHOOSE d \in DefinedAt(g, l) : TRUE
           dr == CHOOSE d \in DefinedAt(h, r) : TRUE
           met == IF dl[2] # dr[2] THEN MatchFails ELSE MatchNode(g, h, st, dl, dr)
       IN  IF met.ok THEN MatchValue(met, l, r) ELSE MatchFails

StructurallyEqual(g, h) ==
  /\ Len(g.inputs) = Len(h.inputs) /\ Len(g.outputs) = Len(h.outputs)
  /\ FoldLeft(LAMBDA st, n : IF st.ok THEN Matched(g, h, st, OutputValues(g)[n], OutputValues(h)[n]) ELSE st,
              [ok |-> TRUE, values |-> {}, nodes |-> {}], [n \in DOMAIN g.outputs |-> n]).ok

-----------------------------------------------------------------------------
(* The reference: what a value is, as a term over the inputs and the       *)
(* initializers.                                                           *)

RECURSIVE Term(_, _)
Term(g, v) ==
  IF v = NoValue THEN <<"none">>
  ELSE IF v \in DOMAIN g.tensor THEN <<"initializer", g.tensor[v]>>
  ELSE IF InputAt(g, v) # 0 THEN <<"input", InputAt(g, v)>>
  ELSE LET d == CHOOSE d \in DefinedAt(g, v) : TRUE
           n == g.nodes[d[1]]
       IN  <<"apply", n.op, d[2], [x \in DOMAIN n.ins |-> Term(g, n.ins[x])]>>
=============================================================================
