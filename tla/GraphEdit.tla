------------------------------ MODULE GraphEdit ------------------------------
(***************************************************************************)
(* How a pass edits an operator graph (src/transform/modify.rs).  Every    *)
(* pass works through GraphOp, which keeps two indexes of the graph up to  *)
(* date while nodes come, change their inputs and are swept away:          *)
(* value2used, the input slots that read a value, and value2defined, the   *)
(* output slot that defines it.  The passes decide by these indexes which  *)
(* nodes may be fused, moved or dropped.                                   *)
(*                                                                         *)
(* The passes are free: any of the edits, in any order, on any operands    *)
(* that a pass can see and that leave the graph acyclic.                   *)
(***************************************************************************)
EXTENDS Integers, Sequences, FiniteSets

CONSTANTS
  MaxNodes,      (* bound on the nodes ever allocated *)
  MaxValue,      (* bound on the values               *)
  Initializers,  (* the values with a tensor          *)
  GivenNodes     (* the graphs a pass may start from  *)

NoValue == 0
Value == 1..MaxValue
Undefined == <<0, 0>>

VARIABLES
  nodes,     (* a sequence of [kind, ins, outs, value]; value is what an     *)
             (* Output node's operator names                                 *)
  deleted,   (* the nodes marked as deleted                                  *)
  used,      (* value2used                                                   *)
  defined    (* value2defined                                                *)

vars == <<nodes, deleted, used, defined>>

Ids == DOMAIN nodes
Alive == Ids \ deleted
IsDummy(i) == nodes[i].kind # "Operator"
Reads(ns, v) == {u \in UNION {{i} \X DOMAIN ns[i].ins : i \in DOMAIN ns} : ns[u[1]].ins[u[2]] = v}
Defines(ns, v) == {u \in UNION {{i} \X DOMAIN ns[i].outs : i \in DOMAIN ns} : ns[u[1]].outs[u[2]] = v}

(* SimpleGraphOp::new, calc_value2xx *)
Init ==
  /\ nodes \in GivenNodes
  /\ deleted = {}
  /\ used = [v \in Value |-> Reads(nodes, v)]
  /\ defined = [v \in Value |-> IF Defines(nodes, v) = {} THEN Undefined
                                ELSE CHOOSE u \in Defines(nodes, v) : TRUE]

(* The values a pass can name: what a live node defines, and tensors. *)
Visible(v) == v \in Initializers \/ (defined[v] # Undefined /\ defined[v][1] \in Alive)

(* The nodes whose results go into v. *)
Below(v) ==
  LET from(S) == {defined[w][1] : w \in {w \in UNION {{nodes[i].ins[x] : x \in DOMAIN nodes[i].ins} : i \in S} :
                                           w \in Value \ Initializers}} \ {0}
      down[n \in 0..MaxNodes] ==
        IF n = 0 THEN IF v \in Initializers THEN {} ELSE {defined[v][1]}
        ELSE LET D == down[n - 1] IN D \cup from(D)
  IN  down[MaxNodes]

Fresh(v) == v \notin Initializers /\ \A i \in Ids : \A x \in DOMAIN nodes[i].outs : nodes[i].outs[x] # v

-----------------------------------------------------------------------------
(* The edits. *)

(* register_new_node, with a new value for its output *)
RegisterNode(ins, v) ==
  /\ Len(nodes) < MaxNodes
  /\ nodes' = Append(nodes, [kind |-> "Operator", ins |-> ins, outs |-> <<v>>, value |-> NoValue])
  /\ used' = [w \in Value |-> used[w] \cup {<<Len(nodes) + 1, x>> : x \in {x \in DOMAIN ins : ins[x] = w}}]
  /\ defined' = [defined EXCEPT ![v] = <<Len(nodes) + 1, 1>>]
  /\ UNCHANGED deleted

(* Mutant of ReplaceInput: the slots are not moved to the new value. *)
ReplaceInput_Stale(old, new, S) ==
  /\ S # {}
  /\ nodes' = [i \in Ids |->
       [kind |-> nodes[i].kind, outs |-> nodes[i].outs,
        ins |-> [x \in DOMAIN nodes[i].ins |-> IF <<i, x>> \in S THEN new ELSE nodes[i].ins[x]],
        value |-> IF nodes[i].kind = "Output" /\ <<i, 1>> \in S THEN new ELSE nodes[i].value]]
  /\ used' = [used EXCEPT ![old] = @ \ S]
  /\ UNCHANGED <<deleted, defined>>

(* replace_input_value_if_without_typecheck: the chosen slots that read    *)
(* old read new instead.                                                   *)
ReplaceInput(old, new, S) ==
  /\ S # {}
  /\ nodes' = [i \in Ids |->
       [kind |-> nodes[i].kind, outs |-> nodes[i].outs,
        ins |-> [x \in DOMAIN nodes[i].ins |-> IF <<i, x>> \in S THEN new ELSE nodes[i].ins[x]],
        value |-> IF nodes[i].kind = "Output" /\ <<i, 1>> \in S THEN new ELSE nodes[i].value]]
  /\ used' = [[used EXCEPT ![old] = @ \ S] EXCEPT ![new] = @ \cup S]
  /\ UNCHANGED <<deleted, defined>>

(* set_node_input: the slot is added if need be. *)
SetInput(i, x, v) ==
  /\ i \in Alive /\ ~ IsDummy(i)
  /\ LET old == IF x \in DOMAIN nodes[i].ins THEN nodes[i].ins[x] ELSE NoValue
         padded == [y \in 1..(IF x > Len(nodes[i].ins) THEN x ELSE Len(nodes[i].ins)) |->
                      IF y = x THEN v ELSE IF y \in DOMAIN nodes[i].ins THEN nodes[i].ins[y] ELSE NoValue]
     IN  /\ nodes' = [nodes EXCEPT ![i].ins = padded]
         /\ used' = [w \in Value |-> (IF w = old THEN used[w] \ {<<i, x>>} ELSE used[w])
                                     \cup (IF w = v THEN {<<i, x>>} ELSE {})]
  /\ UNCHANGED <<deleted, defined>>

(* drop_node_input *)
DropInput(i, x) ==
  /\ i \in Alive /\ ~ IsDummy(i) /\ nodes[i].ins[x] # NoValue
  /\ nodes' = [nodes EXCEPT ![i].ins[x] = NoValue]
  /\ used' = [used EXCEPT ![nodes[i].ins[x]] = @ \ {<<i, x>>}]
  /\ UNCHANGED <<deleted, defined>>

(* used_nodes_dfs: the nodes the outputs are computed from. *)
Visited ==
  LET up[n \in 0..MaxNodes] ==
        IF n = 0 THEN {i \in Alive : nodes[i].kind = "Output"}
        ELSE LET U == up[n - 1]
             IN  U \cup {defined[v][1] : v \in UNION {{nodes[i].ins[x] : x \in DOMAIN nodes[i].ins} : i \in U}
                                               \ (Initializers \cup {NoValue})}
  IN  up[MaxNodes]

(* update_deleted_nodes, after every pass: what no output needs is marked, *)
(* and its slots leave value2used.  Its own outputs stay in value2defined: *)
(* the second loop (333-341) skips the nodes just marked and so clears     *)
(* only those of the inputs nobody reads.                                  *)
SweepDead ==
  LET dead == {i \in Alive \ Visited : ~ IsDummy(i)}
      lost == {i \in Alive \ Visited : IsDummy(i)}
  IN  /\ deleted' = deleted \cup dead
      /\ used' = [v \in Value |-> {u \in used[v] : u[1] \notin dead}]
      /\ defined' = [v \in Value |-> IF \E i \in lost : \E x \in DOMAIN nodes[i].outs : nodes[i].outs[x] = v
                                     THEN Undefined ELSE defined[v]]
      /\ UNCHANGED nodes

(* A pass picks the slots by their node (the predicate of                  *)
(* replace_input_value_if), among nodes the new value is not made from.    *)
Picked(old, P) == {u \in used[old] : u[1] \in P}

Next ==
  \/ \E a \in Value, b \in Value \cup {NoValue}, v \in Value :
       /\ Visible(a) /\ (b # NoValue => Visible(b)) /\ Fresh(v)
       /\ RegisterNode(IF b = NoValue THEN <<a>> ELSE <<a, b>>, v)
  \/ \E old, new \in Value : \E P \in SUBSET Alive :
       /\ old # new /\ Visible(new) /\ P \cap Below(new) = {}
       /\ ReplaceInput(old, new, Picked(old, P))
  \/ \E i \in Alive, x \in 1..2, v \in Value :
       Visible(v) /\ i \notin Below(v) /\ SetInput(i, x, v)
  \/ \E i \in Alive : \E x \in DOMAIN nodes[i].ins : DropInput(i, x)
  \/ SweepDead

Spec == Init /\ [][Next]_vars

-----------------------------------------------------------------------------
(* Properties. *)

NodeType ==
  [kind : {"Operator", "Input", "Output"}, ins : Seq(Value \cup {NoValue}), outs : Seq(Value),
   value : Value \cup {NoValue}]

TypeOK ==
  /\ nodes \in Seq(NodeType)
  /\ deleted \subseteq {i \in Ids : ~ IsDummy(i)}
  /\ used \in [Value -> SUBSET (Nat \X Nat)]
  /\ defined \in [Value -> Nat \X Nat]

(* value2used is the truth about the live nodes: a pass that asks who      *)
(* reads a value, or whether one node alone does, gets the answer of the   *)
(* graph, never of a node already swept or an input already replaced.      *)
UsedTrue ==
  \A v \in Value : used[v] = {u \in Reads(nodes, v) : u[1] \notin deleted}

(* value2defined is the truth about the live operators.                    *)
DefinedTrue ==
  \A i \in Alive : ~ IsDummy(i) =>
    \A x \in DOMAIN nodes[i].outs : defined[nodes[i].outs[x]] = <<i, x>>

(* What a live node reads, a live node defines or a tensor holds: the walk *)
(* of used_nodes_dfs never meets a value without a definition, nor a node  *)
(* marked as deleted, where it would panic.                                *)
ReadsDefined ==
  \A i \in Alive : \A x \in DOMAIN nodes[i].ins :
    LET v == nodes[i].ins[x]
    IN  v \in Initializers \cup {NoValue} \/ (defined[v] # Undefined /\ defined[v][1] \in Alive)

(* The operator of an Output node and its input slot name the same value   *)
(* (asserted in replace_input_value_if_without_typecheck), and the output  *)
(* is never swept.                                                         *)
OutputsKept ==
  \A i \in Ids : nodes[i].kind = "Output" => i \notin deleted /\ nodes[i].value = nodes[i].ins[1]
=============================================================================
