----------------------------- MODULE KernelGraph -----------------------------
(***************************************************************************)
(* The input of the schedulers: the kernels of a compiled graph and the    *)
(* values they exchange (struct Schedule in src/schedule.rs), with the     *)
(* derived tables: struct Deps (src/schedule/scheduler/common.rs) and the  *)
(* output aliases (Schedule::output_aliases).                              *)
(*                                                                         *)
(* Values are 1..n.  A graph is a record                                   *)
(*   kernels       a sequence of [op, ins, outs, dev], dev being the       *)
(*                 device the placement gives the kernel                   *)
(*   inputs, initializers, states, scalars   sets of values                *)
(*   outputs       a sequence of values                                    *)
(*   size          the byte size of each value                             *)
(*   target        "CPU", "CUDA" or "Hybrid" (options.target)              *)
(* Operators are told apart by what the schedulers ask of them: "Forward"  *)
(* is Identity or Reinterpret, "InPlace" a KV cache update, "Compute" any  *)
(* other kernel.  (No pass creates an explicit Operator::Transfer.)        *)
(***************************************************************************)
EXTENDS Integers, Sequences, FiniteSets

Device == {"CPU", "CUDA"}
KernelOp == {"Compute", "Forward", "InPlace"}

NoKernel == 0
NoValue == 0

Values(g) == DOMAIN g.size
Kernels(g) == DOMAIN g.kernels

-----------------------------------------------------------------------------
(* Deps::new *)

Reads(g, k, v) == \E i \in DOMAIN g.kernels[k].ins : g.kernels[k].ins[i] = v
Writes(g, k, v) == \E i \in DOMAIN g.kernels[k].outs : g.kernels[k].outs[i] = v

(* value2producer *)
Producer(g, v) ==
  IF \E k \in Kernels(g) : Writes(g, k, v)
  THEN CHOOSE k \in Kernels(g) : Writes(g, k, v)
  ELSE NoKernel

(* The inputs of all kernels, as pairs of a kernel and a position, and the *)
(* value each one reads.                                                   *)
Slots(g) == UNION {{k} \X DOMAIN g.kernels[k].ins : k \in Kernels(g)}
ReadAt(g, u) == g.kernels[u[1]].ins[u[2]]

(* Mutant of UsesCount: a kernel uses a value once, however often it names it. *)
UsesCount_Once(g, v) == Cardinality({k \in Kernels(g) : Reads(g, k, v)})

(* value_uses_count: a kernel that names a value twice uses it twice. *)
UsesCount(g, v) == Cardinality({u \in Slots(g) : ReadAt(g, u) = v})

(* kernel_preds and kernel_consumers *)
Preds(g, k) ==
  {p \in Kernels(g) \ {k} :
     \E i \in DOMAIN g.kernels[k].ins : Writes(g, p, g.kernels[k].ins[i])}
Consumers(g, k) == {c \in Kernels(g) : k \in Preds(g, c)}

Deps(g) == [producer  |-> [v \in Values(g) |-> Producer(g, v)],
            uses      |-> [v \in Values(g) |-> UsesCount(g, v)],
            preds     |-> [k \in Kernels(g) |-> Preds(g, k)],
            consumers |-> [k \in Kernels(g) |-> Consumers(g, k)]]

-----------------------------------------------------------------------------
(* Which values are the same bytes, and which graph output they land in. *)

(* The value v forwards, or NoValue (passthrough_input). *)
ForwardedFrom(g, v) ==
  LET k == Producer(g, v)
  IN  IF k # NoKernel /\ g.kernels[k].op = "Forward" /\ g.kernels[k].outs[1] = v
      THEN g.kernels[k].ins[1] ELSE NoValue

(* The value v is a copy of, through any number of forwards. *)
Origin(g, v) ==
  LET up[n \in 0..Len(g.kernels)] ==
        IF n = 0 THEN v
        ELSE LET w == up[n - 1]
                 pred == ForwardedFrom(g, w)
             IN  IF pred = NoValue THEN w ELSE pred
  IN  up[Len(g.kernels)]

IsOutput(g, v) == \E i \in DOMAIN g.outputs : g.outputs[i] = v

(* Mutant of OutputAliases: only the outputs themselves. *)
OutputAliases_NoChain(g) ==
  [v \in Values(g) |-> IF IsOutput(g, v) THEN v ELSE NoValue]

(* Schedule::output_aliases: the output each value is forwarded to, found  *)
(* by walking the forwards back from the outputs with a stack.  A value    *)
(* met again takes the newer target, but is not walked from again.         *)
WalkBack(g, st) ==
  LET v    == st.queue[Len(st.queue)]
      pred == ForwardedFrom(g, v)
      rest == SubSeq(st.queue, 1, Len(st.queue) - 1)
  IN  IF st.queue = <<>> THEN st
      ELSE IF pred = NoValue THEN [st EXCEPT !.queue = rest]
      ELSE [alias |-> [st.alias EXCEPT ![pred] = st.alias[v]],
            queue |-> IF st.alias[pred] = NoValue THEN Append(rest, pred) ELSE rest]

OutputAliases(g) ==
  LET len == Len(g.outputs) + Cardinality(Values(g))
      from == [alias |-> [v \in Values(g) |-> IF IsOutput(g, v) THEN v ELSE NoValue],
               queue |-> g.outputs]
      walk[n \in 0..len] == IF n = 0 THEN from ELSE WalkBack(g, walk[n - 1])
  IN  walk[len].alias

(* must_in_place_input: the KV cache a kernel updates in place, its first  *)
(* input.                                                                  *)
InPlaceInput(g, k) ==
  IF g.kernels[k].op = "InPlace" THEN g.kernels[k].ins[1] ELSE NoValue

(* QKVCACHE_UPDATE_SCALE: a quantizing update also writes the scales of    *)
(* the cache, its second input, which is no output of the kernel.          *)
ScaleInput(g, k) ==
  IF g.kernels[k].op = "InPlace" /\ Len(g.kernels[k].ins) > 1 /\ g.kernels[k].ins[2] \in g.states
  THEN g.kernels[k].ins[2] ELSE NoValue

-----------------------------------------------------------------------------
(* What the passes before the scheduler guarantee of a graph. *)

(* The kernels a kernel comes after. *)
Ancestors(g, k) ==
  LET up[j \in Kernels(g)] == Preds(g, j) \cup UNION {up[p] : p \in Preds(g, j)}
  IN  up[k]

(* Every session state belongs to one cache update.  The cache is read by  *)
(* the update alone, its scales also by kernels that come after the        *)
(* update: an attention reads the updated cache with them                  *)
(* (crates/llm/src/decoder.rs, apply_kv_cache).                            *)
StatesOwned(g) ==
  \A v \in g.states : \E u \in Kernels(g) :
     /\ v \in {InPlaceInput(g, u), ScaleInput(g, u)}
     /\ \A k \in Kernels(g) \ {u} : Reads(g, k, v) =>
          v = ScaleInput(g, u) /\ g.kernels[k].op = "Compute" /\ u \in Ancestors(g, k)

(* A value no kernel produces and that is neither an input, an initializer *)
(* nor a state: kernel construction adds one per kernel that needs scratch *)
(* memory.                                                                 *)
Workspaces(g) ==
  {v \in Values(g) : /\ Producer(g, v) = NoKernel
                     /\ v \notin g.inputs \cup g.initializers \cup g.states}

(* struct Schedule and struct Kernel (src/schedule.rs). *)
GraphType(g) ==
  /\ g.size \in Seq(Nat)
  /\ g.kernels \in Seq([op : KernelOp, ins : Seq(Values(g)), outs : Seq(Values(g)), dev : Device])
  /\ g.outputs \in Seq(Values(g))
  /\ g.inputs \cup g.initializers \cup g.states \cup g.scalars \subseteq Values(g)

(* Kernels are listed in topological order, every value has one source and *)
(* every workspace one reader.                                             *)
WellFormed(g) ==
  /\ GraphType(g)
  /\ \A k \in Kernels(g) :
       /\ g.kernels[k].ins # <<>> /\ g.kernels[k].outs # <<>>
       /\ \A p \in Preds(g, k) : p < k
       /\ g.kernels[k].op = "Forward" => Len(g.kernels[k].ins) = 1
       /\ g.kernels[k].op # "Compute" => Len(g.kernels[k].outs) = 1
       /\ g.kernels[k].op = "InPlace" => g.kernels[k].ins[1] \in g.states
       /\ \A i \in DOMAIN g.kernels[k].ins : ~ Writes(g, k, g.kernels[k].ins[i])
       /\ \A i, j \in DOMAIN g.kernels[k].outs : g.kernels[k].outs[i] = g.kernels[k].outs[j] => i = j
  /\ \A u, w \in Slots(g) : ReadAt(g, u) = ReadAt(g, w) /\ ReadAt(g, u) \in Workspaces(g) => u = w
  /\ \A v \in Values(g) :
       /\ Cardinality({k \in Kernels(g) : Writes(g, k, v)}) <= 1
       /\ v \in g.inputs \cup g.initializers \cup g.states => Producer(g, v) = NoKernel
       /\ ForwardedFrom(g, v) # NoValue => g.size[v] = g.size[ForwardedFrom(g, v)]
  /\ g.target = "CPU"  => \A k \in Kernels(g) : g.kernels[k].dev = "CPU"
  /\ g.target = "CUDA" => \A k \in Kernels(g) : g.kernels[k].dev = "CUDA"
  /\ StatesOwned(g)
  /\ g.scalars \subseteq g.inputs

(* Every value that is forwarded is forwarded to at most one graph output. *)
ForwardsApart(g) ==
  \A i, j \in DOMAIN g.outputs :
     Origin(g, g.outputs[i]) = Origin(g, g.outputs[j]) => i = j

(* Only the last output of a kernel may be one that nobody reads. *)
NoDeadSibling(g) ==
  \A k \in Kernels(g) : \A i \in 1..(Len(g.kernels[k].outs) - 1) :
     LET v == g.kernels[k].outs[i]
     IN  UsesCount(g, v) > 0 \/ IsOutput(g, v)

(* What a graph must have for its operands to be well placed: no unread      *)
(* output before another of its kernel; no state that is an input, an        *)
(* initializer or an output as well; the kernels that read a state on one    *)
(* device; no workspace forwarded, and a scalar only on the host.            *)
Placeable(g) ==
  /\ NoDeadSibling(g)
  /\ \A s \in g.states : s \notin g.inputs \cup g.initializers /\ ~ IsOutput(g, s)
  /\ \A s \in g.states : \A j, k \in Kernels(g) :
       Reads(g, j, s) /\ Reads(g, k, s) => g.kernels[j].dev = g.kernels[k].dev
  /\ \A k \in Kernels(g) : g.kernels[k].op = "Forward" =>
       /\ g.kernels[k].ins[1] \notin Workspaces(g)
       /\ g.kernels[k].ins[1] \in g.scalars => g.kernels[k].dev = "CPU"

(* Every graph output is computed by a kernel, not a stored value passed   *)
(* through.                                                                *)
OutputsComputed(g) ==
  \A i \in DOMAIN g.outputs :
     LET p == Producer(g, Origin(g, g.outputs[i]))
     IN  p # NoKernel /\ g.kernels[p].op # "InPlace"
=============================================================================
