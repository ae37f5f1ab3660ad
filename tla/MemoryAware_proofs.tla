-------------------------- MODULE MemoryAware_proofs --------------------------
(***************************************************************************)
(* What the memory-aware scheduler promises, proved for every set of well  *)
(* formed graphs, any number of streams and any alignment.                 *)
(***************************************************************************)
EXTENDS MemoryAware, Induction, FiniteSetTheorems

-----------------------------------------------------------------------------
(* The inductive invariant. *)

(* A kernel is being scheduled; its operands are being bound. *)
Binds == phase \in {"bind", "deliver", "release"}
Busy  == Binds \/ phase = "post"

(* The kernel's step is in the plan; all of schedule_kernel is behind it. *)
Emitted(k) == info[k].scheduled /\ (k = kid => ~ Binds)
Done(k)    == info[k].scheduled /\ (k = kid => ~ Busy)

(* The input u of a kernel has been consumed. *)
Consumed(u) ==
  /\ info[u[1]].scheduled
  /\ u[1] = kid => ~ Binds /\ (phase = "post" => u[2] < pos - Len(post_transfers))

ToCome(k)  == {p \in deps.preds[k] : ~ Done(p)}
Unread(v)  == {u \in Slots(graph) : ReadAt(graph, u) = v /\ ~ Consumed(u)}

(* What is scheduled never changes. *)
Given == graph \in Graphs /\ deps = Deps(graph) /\ output_alias = OutputAliases(graph)

(* Where the scheduler stands in the kernel it schedules. *)
Standing ==
  /\ Busy => kid \in Kernels(graph) /\ info[kid].scheduled
  /\ phase = "pick" => pos # 0
  /\ phase = "bind" => pos \in 1..(Len(Ins) + Len(Outs) + 1) /\ Len(bindings) = pos - 1
  /\ phase = "deliver" => pos \in (Len(Ins) + 1)..(Len(Ins) + Len(Outs)) /\ Len(bindings) = pos - 1
  /\ phase = "release" => pos \in (Len(Ins) + 1)..(Len(Ins) + Len(Outs)) /\ Len(bindings) = pos
  /\ phase = "post" => pos \in 1..(Len(post_transfers) + Len(Ins) + 1)
  /\ Binds => \A i \in DOMAIN bindings : i <= Len(Ins) => bindings[i].value = Ins[i]

(* The tables of the list scheduler count what is still to come. *)
Counts ==
  /\ \A k \in Kernels(graph) : pending[k] = Cardinality(ToCome(k))
  /\ ready = {k \in Kernels(graph) : ~ info[k].scheduled /\ \A p \in deps.preds[k] : Done(p)}
  /\ \A k \in Kernels(graph) : info[k].scheduled => \A p \in deps.preds[k] : Done(p)
  /\ \A k \in Kernels(graph) : info[k].order <= Len(graph.kernels)
  /\ \A v \in Values(graph) : remaining[v] = Cardinality(Unread(v))
  /\ phase = "planned" => ready = {}

IsStepOf(i, k) == steps[i].kind = "Kernel" /\ steps[i].kernel = k
Records(i, e)  == steps[i].kind # "SyncWait" /\ steps[i].event = e

(* The kernels' steps: one for each kernel emitted, after those of its      *)
(* predecessors.                                                            *)
KernelSteps ==
  /\ \A i, j \in DOMAIN steps : \A k \in Kernels(graph) : IsStepOf(i, k) /\ IsStepOf(j, k) => i = j
  /\ \A k \in Kernels(graph) : Emitted(k) => \E i \in DOMAIN steps : IsStepOf(i, k) /\ Records(i, info[k].event)
  /\ \A i \in DOMAIN steps : \A k \in Kernels(graph) : IsStepOf(i, k) =>
       /\ Emitted(k)
       /\ \A p \in deps.preds[k] : \E j \in 1..(i - 1) : IsStepOf(j, p)

(* The waits, and what they wait for. *)
Waits ==
  /\ \A x \in Values(graph) \X Tier : value_on_tier[x].place # NoPlace =>
       \E i \in DOMAIN steps : Records(i, value_on_tier[x].event)
  /\ steps # <<>> /\ steps[Len(steps)].kind = "SyncWait" =>
       Binds /\ steps[Len(steps)].stream = StreamNow
  /\ WaitsWellPlaced

IInv == Given /\ TypeOK /\ Standing /\ Counts /\ KernelSteps /\ Waits

-----------------------------------------------------------------------------
(* The graph and its tables. *)

(* A graph of Graphs has its types.                                          *)
LEMMA GraphTyped ==
  ASSUME Given
  PROVE  /\ WellFormed(graph) /\ GraphType(graph)
         /\ Len(graph.kernels) \in Nat /\ Kernels(graph) = 1..Len(graph.kernels)
         /\ Len(graph.size) \in Nat /\ Values(graph) = 1..Len(graph.size)
         /\ \A v \in Values(graph) : graph.size[v] \in Nat
<1>1. WellFormed(graph)
  BY GraphsAssumption DEF Given
<1>2. GraphType(graph)
  BY <1>1 DEF WellFormed
<1>3. graph.size \in Seq(Nat) /\ graph.kernels \in Seq([op : KernelOp, ins : Seq(Values(graph)), outs : Seq(Values(graph)), dev : Device])
  BY <1>2 DEF GraphType
<1>4. \A A : \A q \in Seq(A) : Len(q) \in Nat /\ DOMAIN q = 1..Len(q) /\ \A i \in DOMAIN q : q[i] \in A
  OBVIOUS
<1>5. Len(graph.size) \in Nat /\ Values(graph) = 1..Len(graph.size) /\ \A v \in Values(graph) : graph.size[v] \in Nat
  BY <1>3, <1>4, Zenon DEF Values
<1>6. Len(graph.kernels) \in Nat /\ Kernels(graph) = 1..Len(graph.kernels)
  BY <1>3, <1>4, Zenon DEF Kernels
<1> QED
  BY <1>1, <1>2, <1>5, <1>6

(* So do its kernels.                                                        *)
LEMMA KernelTyped ==
  ASSUME Given, NEW k \in Kernels(graph)
  PROVE  /\ graph.kernels[k] \in [op : KernelOp, ins : Seq(Values(graph)), outs : Seq(Values(graph)), dev : Device]
         /\ graph.kernels[k].ins \in Seq(Values(graph)) /\ Len(graph.kernels[k].ins) \in Nat \ {0}
         /\ DOMAIN graph.kernels[k].ins = 1..Len(graph.kernels[k].ins)
         /\ graph.kernels[k].outs \in Seq(Values(graph)) /\ Len(graph.kernels[k].outs) \in Nat \ {0}
         /\ DOMAIN graph.kernels[k].outs = 1..Len(graph.kernels[k].outs)
         /\ graph.kernels[k].dev \in Device
<1> DEFINE KT == [op : KernelOp, ins : Seq(Values(graph)), outs : Seq(Values(graph)), dev : Device]
<1>1. WellFormed(graph) /\ GraphType(graph)
  BY GraphTyped
<1>2. graph.kernels \in Seq(KT)
  BY <1>1 DEF GraphType
<1>3. graph.kernels[k] \in KT
  <2> HIDE DEF KT
  <2> QED
    BY <1>2 DEF Kernels
<1>4. graph.kernels[k].ins # <<>> /\ graph.kernels[k].outs # <<>>
  BY <1>1 DEF WellFormed
<1>5. ASSUME NEW A, NEW q \in Seq(A), q # <<>>
      PROVE  Len(q) \in Nat \ {0} /\ DOMAIN q = 1..Len(q)
  BY <1>5
<1>6. graph.kernels[k].ins \in Seq(Values(graph)) /\ graph.kernels[k].outs \in Seq(Values(graph))
  BY <1>3
<1> QED
  BY <1>3, <1>4, <1>5, <1>6, Zenon

LEMMA KernelsFinite ==
  ASSUME Given
  PROVE  IsFiniteSet(Kernels(graph)) /\ Cardinality(Kernels(graph)) = Len(graph.kernels)
<1>1. Len(graph.kernels) \in Nat /\ Kernels(graph) = 1..Len(graph.kernels)
  BY GraphTyped
<1>2. IsFiniteSet(1..Len(graph.kernels)) /\ Cardinality(1..Len(graph.kernels)) = Len(graph.kernels)
  BY <1>1, FS_Interval
<1> QED
  BY <1>1, <1>2

LEMMA ValuesFinite ==
  ASSUME Given
  PROVE  IsFiniteSet(Values(graph)) /\ Values(graph) \subseteq Nat
<1>1. Len(graph.size) \in Nat /\ Values(graph) = 1..Len(graph.size)
  BY GraphTyped
<1>2. IsFiniteSet(1..Len(graph.size))
  BY <1>1, FS_Interval
<1> QED
  BY <1>1, <1>2

(* Kernels are listed after their predecessors, of which there are finitely  *)
(* many (Deps::new).                                                         *)
LEMMA PredsFacts ==
  ASSUME Given, NEW k \in Kernels(graph)
  PROVE  /\ deps.preds[k] \subseteq Kernels(graph) /\ IsFiniteSet(deps.preds[k])
         /\ k \notin deps.preds[k] /\ \A p \in deps.preds[k] : p < k
         /\ deps.consumers[k] = {c \in Kernels(graph) : k \in deps.preds[c]}
<1>1. deps.preds[k] = Preds(graph, k) /\ deps.consumers[k] = Consumers(graph, k)
  BY DEF Given, Deps
<1>2. \A c \in Kernels(graph) : deps.preds[c] = Preds(graph, c)
  BY DEF Given, Deps
<1>3. Preds(graph, k) \subseteq Kernels(graph) /\ k \notin Preds(graph, k)
  BY DEF Preds
<1>4. \A p \in Preds(graph, k) : p < k
  <2>1. WellFormed(graph)
    BY GraphTyped
  <2> QED
    BY <2>1, Zenon DEF WellFormed
<1>5. IsFiniteSet(Kernels(graph))
  BY KernelsFinite
<1>6. IsFiniteSet(Preds(graph, k))
  BY <1>3, <1>5, FS_Subset
<1>7. Consumers(graph, k) = {c \in Kernels(graph) : k \in deps.preds[c]}
  BY <1>2 DEF Consumers
<1> QED
  BY <1>1, <1>3, <1>4, <1>6, <1>7

(* The inputs of the kernels: finitely many, each of a value of the graph.   *)
LEMMA SlotFacts ==
  ASSUME Given
  PROVE  /\ IsFiniteSet(Slots(graph))
         /\ \A u \in Slots(graph) : /\ u[1] \in Kernels(graph) /\ u[2] \in DOMAIN graph.kernels[u[1]].ins
                                     /\ u = <<u[1], u[2]>> /\ ReadAt(graph, u) \in Values(graph)
         /\ \A k \in Kernels(graph) : \A i \in DOMAIN graph.kernels[k].ins : <<k, i>> \in Slots(graph)
<1> DEFINE Of(k) == {k} \X DOMAIN graph.kernels[k].ins
<1>1. \A k \in Kernels(graph) : IsFiniteSet(Of(k))
  <2> SUFFICES ASSUME NEW k \in Kernels(graph) PROVE IsFiniteSet(Of(k))
    OBVIOUS
  <2>1. IsFiniteSet({k})
    BY FS_Singleton, Zenon
  <2>2. Len(graph.kernels[k].ins) \in Int /\ DOMAIN graph.kernels[k].ins = 1..Len(graph.kernels[k].ins)
    BY KernelTyped
  <2>5. Len(graph.kernels[k].ins) \in Int
    BY <2>2
  <2>3. IsFiniteSet(1..Len(graph.kernels[k].ins))
    BY <2>5, FS_Interval
  <2>4. IsFiniteSet(DOMAIN graph.kernels[k].ins)
    BY <2>2, <2>3
  <2> QED
    BY <2>1, <2>4, FS_Product
<1>2. IsFiniteSet({Of(k) : k \in Kernels(graph)})
  <2> DEFINE f == [k \in Kernels(graph) |-> Of(k)]
             T == {Of(k) : k \in Kernels(graph)}
  <2> HIDE DEF Of
  <2>1. f \in Surjection(Kernels(graph), T)
    BY DEF Surjection
  <2> HIDE DEF T
  <2> QED
    BY <2>1, KernelsFinite, FS_Surjection DEF T
<1>3. IsFiniteSet(UNION {Of(k) : k \in Kernels(graph)})
  BY <1>1, <1>2, FS_UNION
<1>4. ASSUME NEW u \in Slots(graph)
      PROVE  /\ u[1] \in Kernels(graph) /\ u[2] \in DOMAIN graph.kernels[u[1]].ins
             /\ u = <<u[1], u[2]>> /\ ReadAt(graph, u) \in Values(graph)
  <2>1. PICK k \in Kernels(graph) : u \in {k} \X DOMAIN graph.kernels[k].ins
    BY DEF Slots
  <2>2. u[1] = k /\ u[2] \in DOMAIN graph.kernels[k].ins /\ u = <<u[1], u[2]>>
    BY <2>1
  <2>3. graph.kernels[k].ins[u[2]] \in Values(graph)
    BY <2>2, KernelTyped
  <2> QED
    BY <2>2, <2>3 DEF ReadAt
<1>5. \A k \in Kernels(graph) : \A i \in DOMAIN graph.kernels[k].ins : <<k, i>> \in Slots(graph)
  BY DEF Slots
<1> QED
  BY <1>3, <1>4, <1>5 DEF Slots

(* A value is forwarded from a value of the graph or from none.              *)
LEMMA ForwardedTyped ==
  ASSUME Given, NEW v
  PROVE  ForwardedFrom(graph, v) \in Values(graph) \cup {NoValue}
<1> DEFINE k == Producer(graph, v)
<1>1. CASE k # NoKernel /\ graph.kernels[k].op = "Forward" /\ graph.kernels[k].outs[1] = v
  <2>1. \E j \in Kernels(graph) : Writes(graph, j, v)
    BY <1>1 DEF Producer
  <2>2. k = CHOOSE j \in Kernels(graph) : Writes(graph, j, v)
    BY <2>1 DEF Producer
  <2>3. k \in Kernels(graph)
    BY <2>1, <2>2, Zenon
  <2>4. graph.kernels[k].ins[1] \in Values(graph)
    BY <2>3, KernelTyped
  <2> QED
    BY <1>1, <2>4 DEF ForwardedFrom
<1>2. CASE ~ (k # NoKernel /\ graph.kernels[k].op = "Forward" /\ graph.kernels[k].outs[1] = v)
  BY <1>2 DEF ForwardedFrom
<1> QED
  BY <1>1, <1>2

(* What OutputAliases computes: the walk from the outputs.                   *)
WalkFrom(g) ==
  [alias |-> [v \in Values(g) |-> IF IsOutput(g, v) THEN v ELSE NoValue], queue |-> g.outputs]
WalkLength(g) == Len(g.outputs) + Cardinality(Values(g))
Walk(g) ==
  CHOOSE w : w = [n \in 0..WalkLength(g) |-> IF n = 0 THEN WalkFrom(g) ELSE WalkBack(g, w[n - 1])]

LEMMA AliasIsWalk ==
  ASSUME NEW g
  PROVE  OutputAliases(g) = Walk(g)[WalkLength(g)].alias
  BY DEF OutputAliases, Walk, WalkFrom, WalkLength

(* What holds of where the walk begins, and stays true as it goes on, holds  *)
(* where it ends (Schedule::output_aliases).                                 *)
LEMMA AliasOf ==
  ASSUME Given, NEW S, WalkFrom(graph) \in S, \A st \in S : WalkBack(graph, st) \in S
  PROVE  \E st \in S : output_alias = st.alias
<1> DEFINE x == WalkFrom(graph)
           N == WalkLength(graph)
           After(st) == WalkBack(graph, st)
           F == [st \in S |-> After(st)]
           Rec(e) == [n \in 0..N |-> IF n = 0 THEN x ELSE After(e[n - 1])]
<1>1. N \in Nat
  <2>1. graph.outputs \in Seq(Values(graph))
    BY GraphTyped DEF GraphType
  <2>2. IsFiniteSet(Values(graph))
    BY ValuesFinite
  <2>3. Cardinality(Values(graph)) \in Nat
    BY <2>2, FS_CardinalityType
  <2> QED
    BY <2>1, <2>3 DEF WalkLength
<1>2. x \in S
  OBVIOUS
<1>3. ASSUME NEW st \in S PROVE After(st) \in S
  OBVIOUS
<1>4. F \in [S -> S]
  <2> HIDE DEF After
  <2> QED
    BY <1>3
<1>5. PICK f \in [0..N -> S] : f[0] = x /\ \A n \in 1..N : f[n] = F[f[n - 1]]
  <2> HIDE DEF F, N, x
  <2>1. PICK f \in [0..N -> S] : Iterates(N, x, F, f)
    BY <1>1, <1>2, <1>4, IteratesExist
  <2> QED
    BY <2>1 DEF Iterates
<1>6. f = Rec(f)
  <2>1. ASSUME NEW n \in 0..N PROVE f[n] = Rec(f)[n]
    <3>1. CASE n = 0
      <4> HIDE DEF x, After, F
      <4> QED
        BY <1>5, <3>1
    <3>2. CASE n # 0
      <4>1. n \in 1..N /\ n - 1 \in 0..N
        BY <1>1, <3>2
      <4>2. f[n] = F[f[n - 1]] /\ f[n - 1] \in S
        <5> HIDE DEF F, x, N
        <5> QED
          BY <1>5, <4>1
      <4>3. f[n] = After(f[n - 1])
        <5> HIDE DEF After, x, N
        <5> QED
          BY <4>2
      <4> HIDE DEF After, x, N
      <4> QED
        BY <3>2, <4>3
    <3> QED
      BY <3>1, <3>2
  <2> HIDE DEF After, x, N
  <2> QED
    BY <1>5, <2>1
<1> DEFINE e == Walk(graph)
<1>7. e = Rec(e)
  <2>1. e = CHOOSE g : g = Rec(g)
    BY DEF Walk
  <2> HIDE DEF Rec, e
  <2> QED
    BY <1>6, <2>1
<1>8. OutputAliases(graph) = e[N].alias
  BY AliasIsWalk
<1>9. ASSUME NEW n \in 0..N PROVE e[n] \in S
  <2> DEFINE T == {m \in 0..N : e[m] \in S}
  <2>1. 0 \in T
    <3>1. 0 \in 0..N
      BY <1>1
    <3>2. e[0] = x
      <4> HIDE DEF x, e, N, After
      <4> QED
        BY <1>7, <3>1
    <3> HIDE DEF e, N, x
    <3> QED
      BY <1>2, <3>1, <3>2
  <2>2. ASSUME NEW m \in 0..(N - 1), m \in T PROVE m + 1 \in T
    <3>1. m + 1 \in 0..N /\ m + 1 # 0 /\ (m + 1) - 1 = m
      <4> HIDE DEF N, e
      <4> QED
        BY <1>1
    <3>2. e[m + 1] = After(e[m])
      <4> HIDE DEF x, e, N, After
      <4> QED
        BY <1>7, <3>1
    <3>3. e[m] \in S
      BY <2>2
    <3> HIDE DEF e, N, x, After
    <3> QED
      BY <1>3, <3>1, <3>2, <3>3
  <2>3. \A m \in 0..N : m \in T
    <3> HIDE DEF T, N
    <3> QED
      BY <1>1, <2>1, <2>2, UpTo
  <2> QED
    BY <2>3
<1>10. e[N] \in S
  <2>1. N \in 0..N
    <3> HIDE DEF N
    <3> QED
      BY <1>1
  <2> HIDE DEF e, N
  <2> QED
    BY <1>9, <2>1
<1> QED
  <2>1. output_alias = OutputAliases(graph)
    BY DEF Given
  <2> HIDE DEF e, N
  <2> QED
    BY <1>8, <1>10, <2>1

(* The walk has a type.                                                      *)
WalkState == [alias : [Values(graph) -> Values(graph) \cup {NoValue}], queue : Seq(Values(graph))]

LEMMA WalkTyped ==
  ASSUME Given
  PROVE  WalkFrom(graph) \in WalkState /\ \A st \in WalkState : WalkBack(graph, st) \in WalkState
<1> DEFINE A == Values(graph) \cup {NoValue}
           S == [alias : [Values(graph) -> A], queue : Seq(Values(graph))]
           x == WalkFrom(graph)
           After(st) == WalkBack(graph, st)
<1>2. x \in S
  <2>1. graph.outputs \in Seq(Values(graph))
    BY GraphTyped DEF GraphType
  <2>2. [v \in Values(graph) |-> IF IsOutput(graph, v) THEN v ELSE NoValue] \in [Values(graph) -> A]
    OBVIOUS
  <2> QED
    BY <2>1, <2>2 DEF WalkFrom
<1>3. ASSUME NEW st \in S PROVE After(st) \in S
  <2>0. st.alias \in [Values(graph) -> A] /\ st.queue \in Seq(Values(graph))
    OBVIOUS
  <2>1. CASE st.queue = <<>>
    BY <2>1 DEF WalkBack
  <2>2. CASE st.queue # <<>>
    <3> DEFINE v == st.queue[Len(st.queue)]
               pred == ForwardedFrom(graph, v)
               rest == SubSeq(st.queue, 1, Len(st.queue) - 1)
    <3>1. v \in Values(graph) /\ rest \in Seq(Values(graph))
      BY <2>0, <2>2
    <3>2. pred \in A
      BY ForwardedTyped
    <3>3. CASE pred = NoValue
      <4>1. After(st) = [st EXCEPT !.queue = rest]
        BY <2>2, <3>3 DEF WalkBack
      <4> HIDE DEF rest, v, A
      <4> QED
        BY <3>1, <4>1
    <3>4. CASE pred # NoValue
      <4>1. After(st) = [alias |-> [st.alias EXCEPT ![pred] = st.alias[v]],
                         queue |-> IF st.alias[pred] = NoValue THEN Append(rest, pred) ELSE rest]
        BY <2>2, <3>4 DEF WalkBack
      <4>2. pred \in Values(graph) /\ st.alias[v] \in A
        BY <2>0, <3>1, <3>2, <3>4
      <4>3. [st.alias EXCEPT ![pred] = st.alias[v]] \in [Values(graph) -> A]
        <5> HIDE DEF A, v, pred
        <5> QED
          BY <2>0, <4>2
      <4>4. (IF st.alias[pred] = NoValue THEN Append(rest, pred) ELSE rest) \in Seq(Values(graph))
        <5> HIDE DEF rest, pred
        <5> QED
          BY <3>1, <4>2
      <4> HIDE DEF rest, v, pred, A, After
      <4> QED
        BY <4>1, <4>3, <4>4
    <3> QED
      BY <3>3, <3>4
  <2> QED
    BY <2>1, <2>2
<1> QED
  <2>1. S = WalkState
    BY DEF WalkState
  <2> HIDE DEF S
  <2> QED
    BY <1>2, <1>3, <2>1

(* The output a value is forwarded to is a value of the graph or none        *)
(* (Schedule::output_aliases).                                               *)
LEMMA AliasTyped ==
  ASSUME Given
  PROVE  output_alias \in [Values(graph) -> Values(graph) \cup {NoValue}]
<1>1. PICK st \in WalkState : output_alias = st.alias
  BY WalkTyped, AliasOf
<1> QED
  BY <1>1 DEF WalkState

-----------------------------------------------------------------------------
(* Types. *)

LEMMA ReplaceTyped ==
  ASSUME NEW A, NEW q \in Seq(A), NEW i, NEW x, i \in DOMAIN q => x \in A
  PROVE  [q EXCEPT ![i] = x] \in Seq(A)
<1> DEFINE n == Len(q)
           r == [q EXCEPT ![i] = x]
<1>1. n \in Nat /\ DOMAIN q = 1..n /\ q \in [1..n -> A]
  OBVIOUS
<1>2. r \in [1..n -> A]
  <2> HIDE DEF n
  <2> QED
    BY <1>1
<1>3. [1..n -> A] \subseteq Seq(A)
  <2> HIDE DEF n
  <2> QED
    BY <1>1
<1> QED
  BY <1>2, <1>3

(* The calls of the chunk allocator keep the types of its tables.            *)
LEMMA AllocTyped ==
  ASSUME NEW ch \in Seq(ChunkState), NEW fr \in [FreeList -> Seq(Nat)],
         NEW t \in Tier, NEW s \in Stream, NEW size \in Nat, NEW uses \in Nat
  PROVE  /\ NextChunk(ch, fr, t, s) \in Nat
         /\ AllocChunks(ch, fr, t, s, size, uses) \in Seq(ChunkState)
         /\ PopFree(fr, t, s) \in [FreeList -> Seq(Nat)]
<1> DEFINE l == <<t, s>>
           q == fr[l]
           c == NextChunk(ch, fr, t, s)
<1>1. l \in FreeList /\ q \in Seq(Nat)
  BY DEF FreeList
<1>2. Len(ch) \in Nat
  OBVIOUS
<1>3. c \in Nat
  <2>1. CASE q # <<>>
    <3>1. q[Len(q)] \in Nat
      <4> HIDE DEF q
      <4> QED
        BY <1>1, <2>1
    <3> QED
      BY <2>1, <3>1 DEF NextChunk
  <2>2. CASE q = <<>>
    BY <1>2, <2>2 DEF NextChunk
  <2> QED
    BY <2>1, <2>2
<1>4. AllocChunks(ch, fr, t, s, size, uses) \in Seq(ChunkState)
  <2>1. CASE c > Len(ch)
    <3>1. [tier |-> t, size |-> size, live |-> uses] \in ChunkState
      BY DEF ChunkState
    <3>2. AllocChunks(ch, fr, t, s, size, uses) = Append(ch, [tier |-> t, size |-> size, live |-> uses])
      BY <2>1 DEF AllocChunks
    <3> HIDE DEF c
    <3> QED
      BY <3>1, <3>2
  <2>2. CASE ~ (c > Len(ch))
    <3> DEFINE x == [tier |-> ch[c].tier,
                     size |-> IF size > ch[c].size THEN size ELSE ch[c].size,
                     live |-> ch[c].live + uses]
    <3>1. AllocChunks(ch, fr, t, s, size, uses) = [ch EXCEPT ![c] = x]
      BY <2>2 DEF AllocChunks
    <3>2. c \in DOMAIN ch => x \in ChunkState
      <4> SUFFICES ASSUME c \in DOMAIN ch PROVE x \in ChunkState
        OBVIOUS
      <4>1. ch[c] \in ChunkState
        OBVIOUS
      <4> HIDE DEF c
      <4> QED
        BY <4>1 DEF ChunkState
    <3> HIDE DEF x, c
    <3>3. [ch EXCEPT ![c] = x] \in Seq(ChunkState)
      BY <3>2, ReplaceTyped
    <3> QED
      BY <3>1, <3>3
  <2> QED
    BY <2>1, <2>2
<1>5. PopFree(fr, t, s) \in [FreeList -> Seq(Nat)]
  <2>1. CASE q # <<>>
    <3>1. SubSeq(q, 1, Len(q) - 1) \in Seq(Nat)
      <4> HIDE DEF q
      <4> QED
        BY <1>1, <2>1
    <3>2. PopFree(fr, t, s) = [fr EXCEPT ![l] = SubSeq(q, 1, Len(q) - 1)]
      BY <2>1 DEF PopFree
    <3> HIDE DEF l, q
    <3> QED
      BY <3>1, <3>2
  <2>2. CASE q = <<>>
    BY <2>2 DEF PopFree
  <2> QED
    BY <2>1, <2>2
<1> QED
  BY <1>3, <1>4, <1>5

LEMMA AddUsesTyped ==
  ASSUME NEW ch \in Seq(ChunkState), NEW c, NEW n \in Nat
  PROVE  AddUsesTo(ch, c, n) \in Seq(ChunkState)
<1>1. c \in DOMAIN ch => ch[c] \in ChunkState
  OBVIOUS
<1>2. c \in DOMAIN ch => [ch[c] EXCEPT !.live = @ + n] \in ChunkState
  <2>1. \A y \in ChunkState : [y EXCEPT !.live = @ + n] \in ChunkState
    BY DEF ChunkState
  <2> QED
    BY <1>1, <2>1
<1>3. AddUsesTo(ch, c, n) = [ch EXCEPT ![c] = [ch[c] EXCEPT !.live = @ + n]]
  BY DEF AddUsesTo
<1> DEFINE x == [ch[c] EXCEPT !.live = @ + n]
<1> HIDE DEF x
<1> QED
  BY <1>2, <1>3, ReplaceTyped DEF x

LEMMA ConsumeTyped ==
  ASSUME NEW ch \in Seq(ChunkState), NEW c
  PROVE  ConsumeIn(ch, c) \in Seq(ChunkState)
<1>1. c \in DOMAIN ch => ch[c] \in ChunkState
  OBVIOUS
<1>2. c \in DOMAIN ch => [ch[c] EXCEPT !.live = Decrement(@)] \in ChunkState
  <2>1. \A y \in ChunkState : [y EXCEPT !.live = Decrement(@)] \in ChunkState
    BY DEF ChunkState, Decrement
  <2> QED
    BY <1>1, <2>1
<1>3. ConsumeIn(ch, c) = [ch EXCEPT ![c] = [ch[c] EXCEPT !.live = Decrement(@)]]
  BY DEF ConsumeIn
<1> DEFINE x == [ch[c] EXCEPT !.live = Decrement(@)]
<1> HIDE DEF x
<1> QED
  BY <1>2, <1>3, ReplaceTyped DEF x

LEMMA FreeTyped ==
  ASSUME NEW ch, NEW fr \in [FreeList -> Seq(Nat)], NEW c \in Nat, NEW s
  PROVE  FreeIfDead(fr, ch, c, s) \in [FreeList -> Seq(Nat)]
<1> DEFINE l == <<ch[c].tier, s>>
           q == Append(fr[l], c)
<1>1. l \in FreeList => q \in Seq(Nat)
  <2> HIDE DEF l
  <2> QED
    OBVIOUS
<1>2. FreeOn(fr, ch, c, s) = [fr EXCEPT ![l] = q]
  BY DEF FreeOn
<1>3. FreeOn(fr, ch, c, s) \in [FreeList -> Seq(Nat)]
  <2> HIDE DEF l, q
  <2> QED
    BY <1>1, <1>2
<1> QED
  BY <1>3 DEF FreeIfDead

(* Of the kernel being scheduled: its stream, its device, its operands.      *)
LEMMA NowTyped ==
  ASSUME Given, TypeOK, Standing, Busy
  PROVE  /\ kid \in Kernels(graph) /\ StreamNow \in Stream /\ DeviceNow \in Device /\ TierNow \in Tier
         /\ DeviceOfTier(TierNow) = DeviceNow /\ info[kid].event \in Nat
         /\ Ins \in Seq(Values(graph)) /\ Len(Ins) \in Nat \ {0} /\ DOMAIN Ins = 1..Len(Ins)
         /\ Outs \in Seq(Values(graph)) /\ Len(Outs) \in Nat \ {0} /\ DOMAIN Outs = 1..Len(Outs)
         /\ \A i \in 1..Len(Ins) : Ins[i] \in Values(graph)
         /\ \A i \in 1..Len(Outs) : Outs[i] \in Values(graph)
<1>1. kid \in Kernels(graph)
  BY DEF Standing
<1>2. info[kid] \in [order : Nat, stream : Stream, event : Nat, scheduled : BOOLEAN]
  BY <1>1 DEF TypeOK
<1>3. StreamNow \in Stream /\ info[kid].event \in Nat
  BY <1>2 DEF StreamNow
<1>4. DeviceNow \in Device
  BY <1>1, KernelTyped DEF DeviceNow, Kernel
<1>5. TierNow \in Tier /\ DeviceOfTier(TierNow) = DeviceNow
  BY <1>4, TierAssumption DEF TierNow, TierOfDevice, DeviceOfTier, Device
<1>6. /\ Ins \in Seq(Values(graph)) /\ Len(Ins) \in Nat \ {0} /\ DOMAIN Ins = 1..Len(Ins)
      /\ Outs \in Seq(Values(graph)) /\ Len(Outs) \in Nat \ {0} /\ DOMAIN Outs = 1..Len(Outs)
  BY <1>1, KernelTyped, Zenon DEF Ins, Outs, Kernel
<1>7. (\A i \in 1..Len(Ins) : Ins[i] \in Values(graph)) /\ (\A i \in 1..Len(Outs) : Outs[i] \in Values(graph))
  BY <1>6
<1> QED
  BY <1>1, <1>3, <1>4, <1>5, <1>6, <1>7, Zenon

(* Places, bindings and steps.                                               *)
LEMMA PlacesTyped ==
  ASSUME Given
  PROVE  /\ NoPlace \in Place
         /\ \A c \in Nat : ChunkPlace(c) \in Place /\ OutputPlace(c) \in Place
         /\ \A v \in Values(graph) : InputPlace(v) \in Place /\ SessionState(v) \in Place /\ Initializer(v) \in Place
         /\ \A v \in Values(graph) : \A r \in {"Input", "Output", "Workspace"} : \A p \in Place :
               Binding(v, r, p) \in BindingType
  BY ValuesFinite DEF Place, BindingType, NoPlace, ChunkPlace, OutputPlace, InputPlace, SessionState,
     Initializer, Binding

LEMMA StepsTyped ==
  ASSUME NEW dev \in Device, NEW s \in Stream, NEW e \in Nat
  PROVE  /\ SyncWait(dev, s, e) \in StepType
         /\ \A b, c \in BindingType : Transfer(dev, s, e, b, c) \in StepType
         /\ \A k \in Nat : \A bs \in Seq(BindingType) : KernelStep(k, dev, s, e, bs) \in StepType
<1>1. SyncWait(dev, s, e) \in StepType
  <2>1. <<>> \in Seq(BindingType)
    OBVIOUS
  <2> QED
    BY <2>1 DEF SyncWait, StepType, NoKernel
<1>2. ASSUME NEW b \in BindingType, NEW c \in BindingType
      PROVE  Transfer(dev, s, e, b, c) \in StepType
  <2>1. <<b, c>> \in Seq(BindingType)
    OBVIOUS
  <2> QED
    BY <2>1 DEF Transfer, StepType, NoKernel
<1>3. ASSUME NEW k \in Nat, NEW bs \in Seq(BindingType)
      PROVE  KernelStep(k, dev, s, e, bs) \in StepType
  BY DEF KernelStep, StepType
<1> QED
  BY <1>1, <1>2, <1>3

(* The place the first input of the kernel is bound to, and the one its      *)
(* output takes over (try_in_place_identity, must_in_place_place).           *)
LEMMA FirstBound ==
  ASSUME Given, TypeOK, Standing, Binds, pos > Len(Ins)
  PROVE  /\ \E i \in DOMAIN bindings : BoundPlace(Ins[1]) = bindings[i].place
         /\ \A i \in DOMAIN bindings : bindings[i] \in BindingType /\ bindings[i].place \in Place
         /\ BoundPlace(Ins[1]) \in Place /\ GivenPlace \in Place
<1>1. bindings \in Seq(BindingType) /\ Len(Ins) \in Nat \ {0} /\ pos \in Nat
  BY NowTyped DEF TypeOK, Busy
<1>2. Len(bindings) \in Nat /\ DOMAIN bindings = 1..Len(bindings) /\ Len(bindings) >= pos - 1
  BY <1>1 DEF Standing, Binds
<1>3. 1 \in DOMAIN bindings /\ bindings[1].value = Ins[1]
  <2>1. 1 \in DOMAIN bindings /\ 1 <= Len(Ins)
    BY <1>1, <1>2
  <2>2. \A i \in DOMAIN bindings : i <= Len(Ins) => bindings[i].value = Ins[i]
    BY DEF Standing
  <2> QED
    BY <2>1, <2>2
<1> DEFINE P(i) == bindings[i].value = Ins[1] /\ \A j \in 1..(i - 1) : bindings[j].value # Ins[1]
           w == CHOOSE i \in DOMAIN bindings : P(i)
<1>4. P(1)
  BY <1>3
<1>5. w \in DOMAIN bindings
  <2> HIDE DEF P
  <2> QED
    BY <1>3, <1>4
<1>6. \A i \in DOMAIN bindings : bindings[i] \in BindingType
  BY <1>1
<1>7. \A i \in DOMAIN bindings : bindings[i].place \in Place
  BY <1>6 DEF BindingType
<1>8. BoundPlace(Ins[1]) = bindings[w].place
  BY DEF BoundPlace
<1>9. BoundPlace(Ins[1]) \in Place
  <2> HIDE DEF w
  <2> QED
    BY <1>5, <1>7, <1>8
<1>10. NoPlace \in Place
  BY PlacesTyped
<1>11. ForwardPlace \in Place
  BY <1>9, <1>10 DEF ForwardPlace
<1>12. InPlacePlace \in Place
  BY <1>9, <1>10 DEF InPlacePlace, InPlaceInput, Ins, Kernel
<1>13. GivenPlace \in Place
  BY <1>11, <1>12 DEF GivenPlace
<1> HIDE DEF w
<1> QED
  BY <1>5, <1>6, <1>7, <1>8, <1>9, <1>13

-----------------------------------------------------------------------------
(* The first state. *)

LEMMA InitGiven == Init => Given
  BY DEF Init, Given

LEMMA InitTypes == Init => TypeOK
<1> SUFFICES ASSUME Init PROVE TypeOK
  OBVIOUS
<1>1. Given
  BY InitGiven
<1>2. phase = "pick" /\ kid = NoKernel /\ pos = 1 /\ next_event = 0
  BY DEF Init
<1>3. bindings \in Seq(BindingType) /\ post_transfers \in Seq([src : BindingType, dst : BindingType])
      /\ chunks \in Seq(ChunkState) /\ steps \in Seq(StepType)
  BY DEF Init
<1>4. free \in [FreeList -> Seq(Nat)]
  BY DEF Init, NoFree
<1>5. value2place \in [Values(graph) -> Place]
  BY <1>1, PlacesTyped DEF Init
<1>6. remaining \in [Values(graph) -> Nat]
  <2>1. remaining = [v \in Values(graph) |-> UsesCount(graph, v)]
    BY <1>1 DEF Init, Given, Deps
  <2>2. ASSUME NEW v \in Values(graph) PROVE UsesCount(graph, v) \in Nat
    <3>1. IsFiniteSet({u \in Slots(graph) : ReadAt(graph, u) = v})
      BY <1>1, SlotFacts, FS_Subset
    <3> QED
      BY <3>1, FS_CardinalityType DEF UsesCount
  <2> QED
    BY <2>1, <2>2
<1>7. 0 \in Stream /\ 0 \in Nat
  BY StreamAssumption
<1>8. value_on_tier \in [Values(graph) \X Tier -> [place : Place, event : Nat, stream : Stream]]
  BY <1>1, <1>7, PlacesTyped DEF Init
<1>9. pending \in [Kernels(graph) -> Nat]
  <2>1. \A k \in Kernels(graph) : Cardinality(deps.preds[k]) \in Nat
    BY <1>1, PredsFacts, FS_CardinalityType
  <2> QED
    BY <2>1 DEF Init
<1>10. ready \subseteq Kernels(graph)
  BY DEF Init
<1>11. info \in [Kernels(graph) -> [order : Nat, stream : Stream, event : Nat, scheduled : BOOLEAN]]
  BY <1>7 DEF Init, NoInfo
<1>12. load \in [Stream -> Nat]
  BY DEF Init
<1> QED
  BY <1>2, <1>3, <1>4, <1>5, <1>6, <1>8, <1>9, <1>10, <1>11, <1>12 DEF TypeOK

LEMMA InitIInv == Init => IInv
<1> SUFFICES ASSUME Init PROVE IInv
  OBVIOUS
<1>1. Given /\ TypeOK
  BY InitGiven, InitTypes
<1>2. phase = "pick" /\ kid = NoKernel /\ pos = 1 /\ steps = <<>> /\ bindings = <<>>
  BY DEF Init
<1>3. ~ Busy /\ ~ Binds
  BY <1>2 DEF Busy, Binds
<1>4. \A k \in Kernels(graph) : info[k] = NoInfo
  BY DEF Init
<1>5. \A k \in Kernels(graph) : ~ info[k].scheduled /\ info[k].order = 0
  BY <1>4 DEF NoInfo
<1>6. Standing
  BY <1>2, <1>3 DEF Standing
<1>7. Counts
  <2>1. ASSUME NEW k \in Kernels(graph) PROVE pending[k] = Cardinality(ToCome(k))
    <3>1. ToCome(k) = deps.preds[k]
      BY <1>1, <1>5, PredsFacts DEF ToCome, Done
    <3> QED
      BY <3>1 DEF Init
  <2>2. ready = {k \in Kernels(graph) : ~ info[k].scheduled /\ \A p \in deps.preds[k] : Done(p)}
    <3>1. \A k \in Kernels(graph) : \A p \in deps.preds[k] : ~ Done(p)
      BY <1>1, <1>5, PredsFacts DEF Done
    <3>2. ready = {k \in Kernels(graph) : deps.preds[k] = {}}
      BY DEF Init
    <3> QED
      BY <1>5, <3>1, <3>2
  <2>3. \A k \in Kernels(graph) : info[k].order <= Len(graph.kernels)
    BY <1>1, <1>5, GraphTyped
  <2>4. ASSUME NEW v \in Values(graph) PROVE remaining[v] = Cardinality(Unread(v))
    <3>1. Unread(v) = {u \in Slots(graph) : ReadAt(graph, u) = v}
      BY <1>1, <1>5, SlotFacts DEF Unread, Consumed
    <3>2. remaining[v] = UsesCount(graph, v)
      BY DEF Init, Deps
    <3> QED
      BY <3>1, <3>2 DEF UsesCount
  <2> QED
    BY <1>2, <1>5, <2>1, <2>2, <2>3, <2>4 DEF Counts
<1>8. KernelSteps
  BY <1>2, <1>5 DEF KernelSteps, Emitted
<1>9. Waits
  <2>1. \A x \in Values(graph) \X Tier : value_on_tier[x].place = NoPlace
    BY DEF Init
  <2>2. WaitsWellPlaced
    BY <1>2 DEF WaitsWellPlaced
  <2> QED
    BY <1>2, <2>1, <2>2 DEF Waits
<1> QED
  BY <1>1, <1>6, <1>7, <1>8, <1>9 DEF IInv

-----------------------------------------------------------------------------
(* What a step leaves alone. *)

LEMMA GivenStays ==
  ASSUME Given, UNCHANGED input
  PROVE  Given'
  BY DEF Given, input

LEMMA CountsStay ==
  ASSUME Given, Counts, UNCHANGED <<graph, deps, pending, ready, info, remaining>>,
         \A k \in Kernels(graph) : Done(k)' <=> Done(k),
         \A u \in Slots(graph) : Consumed(u)' <=> Consumed(u),
         phase' = "planned" => ready = {}
  PROVE  Counts'
<1>1. \A k \in Kernels(graph) : deps.preds[k] \subseteq Kernels(graph)
  BY PredsFacts
<1>2. \A k \in Kernels(graph) : ToCome(k)' = ToCome(k)
  BY <1>1 DEF ToCome
<1>3. \A v : Unread(v)' = Unread(v)
  BY DEF Unread
<1>4. \A k \in Kernels(graph) : (\A p \in deps.preds[k] : Done(p)') <=> (\A p \in deps.preds[k] : Done(p))
  BY <1>1
<1>5. (\A k \in Kernels(graph) : pending[k] = Cardinality(ToCome(k)))'
  BY <1>2 DEF Counts
<1>6. (ready = {k \in Kernels(graph) : ~ info[k].scheduled /\ \A p \in deps.preds[k] : Done(p)})'
  BY <1>4 DEF Counts
<1>7. (\A k \in Kernels(graph) : info[k].scheduled => \A p \in deps.preds[k] : Done(p))'
  BY <1>4 DEF Counts
<1>8. (\A v \in Values(graph) : remaining[v] = Cardinality(Unread(v)))'
  BY <1>3 DEF Counts
<1>9. (\A k \in Kernels(graph) : info[k].order <= Len(graph.kernels))'
  BY DEF Counts
<1> QED
  BY <1>5, <1>6, <1>7, <1>8, <1>9 DEF Counts

(* No step of a kernel is added.                                             *)
NoKernelAdded ==
  /\ Len(steps) <= Len(steps')
  /\ \A i \in 1..Len(steps) : steps'[i] = steps[i]
  /\ \A i \in 1..Len(steps') : i > Len(steps) => steps'[i].kind # "Kernel"

LEMMA KernelStepsStay ==
  ASSUME Given, KernelSteps, steps \in Seq(StepType), steps' \in Seq(StepType), NoKernelAdded,
         UNCHANGED <<graph, deps>>,
         \A k \in Kernels(graph) : Emitted(k)' <=> Emitted(k),
         \A k \in Kernels(graph) : Emitted(k) => info'[k].event = info[k].event
  PROVE  KernelSteps'
<1>1. /\ Len(steps) \in Nat /\ DOMAIN steps = 1..Len(steps)
      /\ Len(steps') \in Nat /\ DOMAIN steps' = 1..Len(steps')
  OBVIOUS
<1>2. \A i \in DOMAIN steps : i \in DOMAIN steps' /\ steps'[i] = steps[i]
  BY <1>1 DEF NoKernelAdded
<1>3. \A i \in DOMAIN steps' : steps'[i].kind = "Kernel" => i \in DOMAIN steps /\ steps'[i] = steps[i]
  BY <1>1 DEF NoKernelAdded
<1>4. \A i \in DOMAIN steps' : \A k : IsStepOf(i, k)' <=> i \in DOMAIN steps /\ IsStepOf(i, k)
  BY <1>2, <1>3 DEF IsStepOf
<1>5. \A i \in DOMAIN steps : \A e : Records(i, e)' <=> Records(i, e)
  BY <1>2 DEF Records
<1>6. (\A i, j \in DOMAIN steps : \A k \in Kernels(graph) : IsStepOf(i, k) /\ IsStepOf(j, k) => i = j)'
  BY <1>4 DEF KernelSteps
<1>7. ASSUME NEW k \in Kernels(graph), Emitted(k)'
      PROVE  \E i \in DOMAIN steps' : IsStepOf(i, k)' /\ Records(i, info[k].event)'
  <2>1. PICK i \in DOMAIN steps : IsStepOf(i, k) /\ Records(i, info[k].event)
    BY <1>7 DEF KernelSteps
  <2>2. info'[k].event = info[k].event
    BY <1>7
  <2>3. Records(i, info[k].event)'
    BY <1>2, <2>1, <2>2 DEF Records
  <2> QED
    BY <1>2, <1>4, <2>1, <2>3
<1>8. ASSUME NEW i \in DOMAIN steps', NEW k \in Kernels(graph), IsStepOf(i, k)'
      PROVE  Emitted(k)' /\ \A p \in deps.preds[k] : \E j \in 1..(i - 1) : IsStepOf(j, p)'
  <2>1. i \in DOMAIN steps /\ IsStepOf(i, k)
    BY <1>4, <1>8
  <2>2. Emitted(k)'
    BY <2>1 DEF KernelSteps
  <2>3. ASSUME NEW p \in deps.preds[k] PROVE \E j \in 1..(i - 1) : IsStepOf(j, p)'
    <3>1. PICK j \in 1..(i - 1) : IsStepOf(j, p)
      BY <2>1 DEF KernelSteps
    <3>2. j \in DOMAIN steps
      BY <1>1, <2>1
    <3>3. IsStepOf(j, p)'
      BY <1>2, <1>4, <3>1, <3>2
    <3> QED
      BY <3>3
  <2> QED
    BY <2>2, <2>3
<1> QED
  BY <1>6, <1>7, <1>8 DEF KernelSteps

LEMMA WaitsStay ==
  ASSUME Waits, UNCHANGED <<graph, value_on_tier, steps>>,
         steps # <<>> /\ steps[Len(steps)].kind = "SyncWait" => Binds' /\ StreamNow' = StreamNow
  PROVE  Waits'
<1>1. WaitsWellPlaced'
  BY DEF Waits, WaitsWellPlaced
<1>2. (\A x \in Values(graph) \X Tier : value_on_tier[x].place # NoPlace =>
        \E i \in DOMAIN steps : Records(i, value_on_tier[x].event))'
  BY DEF Waits, Records
<1> QED
  BY <1>1, <1>2 DEF Waits

(* One step is added: a wait names an event that is recorded, and the step   *)
(* after a wait stands on the stream that waits.                             *)
LEMMA WaitsAppend ==
  ASSUME Waits, steps \in Seq(StepType), NEW x, steps' = Append(steps, x), UNCHANGED graph,
         x.kind = "SyncWait" =>
           Binds' /\ x.stream = StreamNow' /\ \E i \in DOMAIN steps : Records(i, x.event),
         steps # <<>> /\ steps[Len(steps)].kind = "SyncWait" => x.stream = steps[Len(steps)].stream,
         \A y \in Values(graph) \X Tier : value_on_tier'[y].place # NoPlace =>
           \/ value_on_tier'[y] = value_on_tier[y]
           \/ x.kind # "SyncWait" /\ x.event = value_on_tier'[y].event
  PROVE  Waits'
<1>0. PICK n \in Nat : n = Len(steps)
  OBVIOUS
<1>1. n \in Nat /\ DOMAIN steps = 1..n /\ Len(steps') = n + 1 /\ DOMAIN steps' = 1..(n + 1)
  BY <1>0
<1>2. (\A i \in 1..n : steps'[i] = steps[i]) /\ steps'[n + 1] = x
  BY <1>1
<1>3. ASSUME NEW y \in Values(graph) \X Tier, value_on_tier'[y].place # NoPlace
      PROVE  \E i \in DOMAIN steps' : Records(i, value_on_tier[y].event)'
  <2>1. CASE value_on_tier'[y] = value_on_tier[y]
    <3>1. PICK i \in DOMAIN steps : Records(i, value_on_tier[y].event)
      BY <1>3, <2>1 DEF Waits
    <3>2. Records(i, value_on_tier[y].event)' /\ i \in DOMAIN steps'
      BY <1>1, <1>2, <2>1, <3>1 DEF Records
    <3> QED
      BY <3>2
  <2>2. CASE x.kind # "SyncWait" /\ x.event = value_on_tier'[y].event
    <3>1. n + 1 \in DOMAIN steps' /\ Records(n + 1, value_on_tier[y].event)'
      BY <1>1, <1>2, <2>2 DEF Records
    <3> QED
      BY <3>1
  <2> QED
    BY <1>3, <2>1, <2>2
<1>4. steps' # <<>> /\ steps'[Len(steps')] = x
  BY <1>1, <1>2
<1>5. ASSUME NEW i \in DOMAIN steps', steps'[i].kind = "SyncWait"
      PROVE  /\ \E j \in 1..(i - 1) : steps'[j].kind # "SyncWait" /\ steps'[j].event = steps'[i].event
             /\ \A j \in (i + 1)..Len(steps') :
                  (\A m \in (i + 1)..(j - 1) : steps'[m].kind = "SyncWait") => steps'[j].stream = steps'[i].stream
  <2>1. CASE i = n + 1
    <3>1. PICK j \in DOMAIN steps : Records(j, x.event)
      BY <1>2, <1>5, <2>1
    <3>2. j \in 1..(i - 1) /\ steps'[j].kind # "SyncWait" /\ steps'[j].event = steps'[i].event
      BY <1>1, <1>2, <2>1, <3>1 DEF Records
    <3>3. (i + 1)..Len(steps') = {}
      BY <1>1, <2>1
    <3> QED
      BY <3>2, <3>3
  <2>2. CASE i # n + 1
    <3>1. i \in 1..n /\ steps'[i] = steps[i]
      BY <1>1, <1>2, <2>2
    <3>2. PICK j \in 1..(i - 1) : steps[j].kind # "SyncWait" /\ steps[j].event = steps[i].event
      BY <1>1, <1>5, <3>1 DEF Waits, WaitsWellPlaced
    <3>3. j \in 1..n /\ steps'[j] = steps[j]
      BY <1>1, <1>2, <3>1
    <3>4. ASSUME NEW d \in (i + 1)..Len(steps'), \A m \in (i + 1)..(d - 1) : steps'[m].kind = "SyncWait"
          PROVE  steps'[d].stream = steps'[i].stream
      <4>1. \A m \in (i + 1)..(d - 1) : m \in 1..n /\ steps[m].kind = "SyncWait"
        <5> SUFFICES ASSUME NEW m \in (i + 1)..(d - 1) PROVE m \in 1..n /\ steps[m].kind = "SyncWait"
          OBVIOUS
        <5>1. m \in 1..n
          BY <1>1, <3>1
        <5> QED
          BY <1>2, <3>4, <5>1
      <4>2. CASE d <= n
        <5>1. d \in (i + 1)..n /\ d \in 1..n /\ n = Len(steps)
          BY <1>0, <1>1, <3>1, <4>2
        <5>2. steps[d].stream = steps[i].stream
          BY <1>1, <1>5, <3>1, <4>1, <5>1 DEF Waits, WaitsWellPlaced
        <5> QED
          BY <1>2, <3>1, <5>1, <5>2
      <4>3. CASE d = n + 1 /\ i = n
        BY <1>0, <1>1, <1>2, <1>5, <3>1, <4>3
      <4>4. CASE d = n + 1 /\ i # n
        <5>1. n \in (i + 1)..(d - 1) /\ n \in (i + 1)..n
          BY <1>1, <3>1, <4>4
        <5>2. steps[n].kind = "SyncWait" /\ steps # <<>>
          BY <1>0, <1>1, <4>1, <5>1
        <5>3. \A m \in (i + 1)..(n - 1) : steps[m].kind = "SyncWait"
          BY <1>1, <4>1, <4>4
        <5>4. steps[n].stream = steps[i].stream
          BY <1>0, <1>1, <1>5, <3>1, <5>1, <5>3 DEF Waits, WaitsWellPlaced
        <5>5. x.stream = steps[n].stream
          BY <1>0, <5>2
        <5> QED
          BY <1>2, <3>1, <4>4, <5>4, <5>5
      <4> QED
        BY <1>1, <3>1, <4>2, <4>3, <4>4
    <3> QED
      BY <3>1, <3>2, <3>3, <3>4
  <2> QED
    BY <2>1, <2>2
<1>6. WaitsWellPlaced'
  BY <1>5 DEF WaitsWellPlaced
<1> QED
  BY <1>3, <1>4, <1>6 DEF Waits

LEMMA BindingStays ==
  ASSUME Binds, Binds', UNCHANGED <<kid, info>>
  PROVE  /\ Busy /\ Busy' /\ phase # "planned" /\ phase' # "planned"
         /\ \A k : (Done(k)' <=> Done(k)) /\ (Emitted(k)' <=> Emitted(k))
         /\ \A u : Consumed(u)' <=> Consumed(u)
  BY DEF Binds, Busy, Done, Emitted, Consumed

(* A step of bind_kernel.                                                    *)
LEMMA BindKeeps ==
  ASSUME IInv, Binds, Binds', UNCHANGED <<input, kid, remaining, order>>,
         TypeOK', Standing', Waits', NoKernelAdded
  PROVE  IInv'
<1>1. UNCHANGED <<graph, deps, info, pending, ready>>
  BY DEF input, order
<1>2. Given /\ TypeOK /\ Counts /\ KernelSteps
  BY DEF IInv
<1>3. Given'
  BY <1>2, GivenStays
<1>4. /\ \A k \in Kernels(graph) : (Done(k)' <=> Done(k)) /\ (Emitted(k)' <=> Emitted(k))
      /\ \A u \in Slots(graph) : Consumed(u)' <=> Consumed(u)
      /\ phase' # "planned"
  BY <1>1, BindingStays
<1>5. Counts'
  BY <1>1, <1>2, <1>4, CountsStay
<1>6. KernelSteps'
  <2>1. steps \in Seq(StepType) /\ steps' \in Seq(StepType)
    BY <1>2 DEF TypeOK
  <2> QED
    BY <1>1, <1>2, <1>4, <2>1, KernelStepsStay
<1> QED
  BY <1>3, <1>5, <1>6 DEF IInv

-----------------------------------------------------------------------------
(* bind_kernel: the inputs. *)

LEMMA NothingAdded ==
  ASSUME steps \in Seq(StepType), UNCHANGED steps
  PROVE  NoKernelAdded
  BY DEF NoKernelAdded

LEMMA StepAdded ==
  ASSUME steps \in Seq(StepType), NEW x \in StepType, x.kind # "Kernel", steps' = Append(steps, x)
  PROVE  NoKernelAdded /\ steps' \in Seq(StepType)
  BY DEF NoKernelAdded

(* One more input is bound.                                                  *)
LEMMA OperandBound ==
  ASSUME IInv, BindingInput, NEW p \in Place, NEW role \in {"Input", "Output", "Workspace"},
         Bind(Ins[pos], role, p),
         UNCHANGED <<input, phase, kid, post_transfers, remaining, order>>,
         chunks' \in Seq(ChunkState), free' \in [FreeList -> Seq(Nat)],
         value2place' \in [Values(graph) -> Place],
         value_on_tier' \in [Values(graph) \X Tier -> [place : Place, event : Nat, stream : Stream]],
         next_event' \in Nat, steps' \in Seq(StepType), NoKernelAdded, Waits'
  PROVE  IInv'
<1>1. Given /\ TypeOK /\ Standing /\ Binds /\ Busy /\ phase = "bind"
  BY DEF IInv, BindingInput, Binds, Busy
<1>2. UNCHANGED <<graph, deps, output_alias, info, pending, ready, load, phase, kid>> /\ Binds'
  BY <1>1 DEF input, order, Binds
<1>3. Ins[pos] \in Values(graph) /\ pos \in 1..Len(Ins) /\ Len(Ins) \in Nat /\ Len(Outs) \in Nat
  BY <1>1, NowTyped DEF BindingInput, Standing
<1>4. Binding(Ins[pos], role, p) \in BindingType /\ Binding(Ins[pos], role, p).value = Ins[pos]
  BY <1>1, <1>3, PlacesTyped DEF Binding
<1>5. bindings \in Seq(BindingType) /\ Len(bindings) = pos - 1
  BY <1>1 DEF TypeOK, Standing
<1>6. bindings' = Append(bindings, Binding(Ins[pos], role, p)) /\ pos' = pos + 1
  BY DEF Bind
<1>7. bindings' \in Seq(BindingType) /\ Len(bindings') = pos /\ DOMAIN bindings' = 1..pos
      /\ bindings'[pos].value = Ins[pos] /\ \A i \in 1..(pos - 1) : bindings'[i] = bindings[i]
  <2> DEFINE b == Binding(Ins[pos], role, p)
  <2>1. bindings' = Append(bindings, b) /\ b \in BindingType /\ b.value = Ins[pos]
    BY <1>4, <1>6
  <2> HIDE DEF b
  <2> QED
    BY <1>3, <1>5, <2>1
<1>8. TypeOK'
  <2>1. pos' \in Nat
    BY <1>3, <1>6
  <2> QED
    BY <1>1, <1>2, <1>7, <2>1 DEF TypeOK
<1>9. Standing'
  <2>1. Ins' = Ins /\ Outs' = Outs
    BY <1>2 DEF Ins, Outs, Kernel
  <2>2. \A i \in 1..(pos - 1) : i <= Len(Ins) => bindings[i].value = Ins[i]
    BY <1>1, <1>3, <1>5 DEF Standing
  <2>3. \A i \in DOMAIN bindings' : i <= Len(Ins) => bindings'[i].value = Ins[i]
    <3> SUFFICES ASSUME NEW i \in 1..pos, i <= Len(Ins) PROVE bindings'[i].value = Ins[i]
      BY <1>7
    <3>1. CASE i = pos
      BY <1>7, <3>1
    <3>2. CASE i \in 1..(pos - 1)
      BY <1>7, <2>2, <3>2
    <3> QED
      BY <1>3, <3>1, <3>2
  <2>4. pos' \in 1..(Len(Ins) + Len(Outs) + 1) /\ Len(bindings') = pos' - 1
    BY <1>3, <1>6, <1>7
  <2>5. kid' \in Kernels(graph') /\ info'[kid'].scheduled
    BY <1>1, <1>2 DEF Standing
  <2> QED
    BY <1>1, <1>2, <2>1, <2>3, <2>4, <2>5 DEF Standing
<1> QED
  BY <1>1, <1>2, <1>8, <1>9, BindKeeps

LEMMA BindInitializerKeeps == IInv /\ BindInitializer => IInv'
<1> SUFFICES ASSUME IInv, BindInitializer PROVE IInv'
  OBVIOUS
<1>1. /\ Given /\ TypeOK /\ Standing /\ Binds /\ Busy
      /\ BindingInput /\ Bind(Ins[pos], "Input", Initializer(Ins[pos]))
  BY DEF IInv, BindInitializer, BindingInput, Binds, Busy
<1>2. UNCHANGED <<input, phase, kid, post_transfers, chunks, free, value2place, remaining,
                  value_on_tier, order, next_event, steps>>
  BY DEF BindInitializer, alloc
<1>3. Ins[pos] \in Values(graph)
  BY <1>1, NowTyped DEF BindingInput, Standing
<1>4. Initializer(Ins[pos]) \in Place
  BY <1>1, <1>3, PlacesTyped
<1>5. UNCHANGED <<graph, info, kid>> /\ Binds' /\ StreamNow' = StreamNow
  BY <1>1, <1>2 DEF input, order, Binds, StreamNow
<1>6. Waits'
  BY <1>2, <1>5, WaitsStay DEF IInv
<1>7. NoKernelAdded
  BY <1>1, <1>2, NothingAdded DEF TypeOK
<1> QED
  BY <1>1, <1>2, <1>4, <1>5, <1>6, <1>7, OperandBound DEF TypeOK

LEMMA BindStoredKeeps == IInv /\ BindStored => IInv'
<1> SUFFICES ASSUME IInv, BindStored PROVE IInv'
  OBVIOUS
<1>1. /\ Given /\ TypeOK /\ Standing /\ Binds /\ Busy
      /\ BindingInput /\ Bind(Ins[pos], "Input", value2place[Ins[pos]])
  BY DEF IInv, BindStored, BindingInput, Binds, Busy
<1>2. UNCHANGED <<input, phase, kid, post_transfers, chunks, free, value2place, remaining,
                  value_on_tier, order, next_event, steps>>
  BY DEF BindStored, alloc
<1>3. Ins[pos] \in Values(graph)
  BY <1>1, NowTyped DEF BindingInput, Standing
<1>4. value2place[Ins[pos]] \in Place
  BY <1>1, <1>3 DEF TypeOK
<1>5. UNCHANGED <<graph, info, kid>> /\ Binds' /\ StreamNow' = StreamNow
  BY <1>1, <1>2 DEF input, order, Binds, StreamNow
<1>6. Waits'
  BY <1>2, <1>5, WaitsStay DEF IInv
<1>7. NoKernelAdded
  BY <1>1, <1>2, NothingAdded DEF TypeOK
<1> QED
  BY <1>1, <1>2, <1>4, <1>5, <1>6, <1>7, OperandBound DEF TypeOK

LEMMA BindWorkspaceKeeps == IInv /\ BindWorkspace => IInv'
<1> SUFFICES ASSUME IInv, BindWorkspace PROVE IInv'
  OBVIOUS
<1> DEFINE v == Ins[pos]
           c == NextChunk(chunks, free, TierNow, StreamNow)
<1>1. /\ Given /\ TypeOK /\ Standing /\ Binds /\ Busy
      /\ BindingInput /\ Bind(v, "Workspace", ChunkPlace(c))
  BY DEF IInv, BindWorkspace, BindingInput, Binds, Busy
<1>2. /\ UNCHANGED <<input, phase, kid, post_transfers, remaining, value_on_tier, order, next_event, steps>>
      /\ chunks' = AllocChunks(chunks, free, TierNow, StreamNow, graph.size[v], remaining[v])
      /\ free' = PopFree(free, TierNow, StreamNow)
      /\ value2place' = [value2place EXCEPT ![v] = ChunkPlace(c)]
  BY DEF BindWorkspace
<1>3. v \in Values(graph) /\ TierNow \in Tier /\ StreamNow \in Stream
  BY <1>1, NowTyped DEF BindingInput, Standing
<1>4. graph.size[v] \in Nat /\ remaining[v] \in Nat
  BY <1>1, <1>3, GraphTyped DEF TypeOK
<1>5. chunks \in Seq(ChunkState) /\ free \in [FreeList -> Seq(Nat)] /\ value2place \in [Values(graph) -> Place]
  BY <1>1 DEF TypeOK
<1> HIDE DEF c, v
<1>6. c \in Nat /\ chunks' \in Seq(ChunkState) /\ free' \in [FreeList -> Seq(Nat)]
  BY <1>2, <1>3, <1>4, <1>5, AllocTyped DEF c
<1>7. ChunkPlace(c) \in Place
  BY <1>1, <1>6, PlacesTyped
<1>8. value2place' \in [Values(graph) -> Place]
  BY <1>2, <1>3, <1>5, <1>7
<1>9. UNCHANGED <<graph, info, kid>> /\ Binds' /\ StreamNow' = StreamNow
  BY <1>1, <1>2 DEF input, order, Binds, StreamNow
<1>10. Waits'
  BY <1>2, <1>9, WaitsStay DEF IInv
<1>11. NoKernelAdded
  BY <1>1, <1>2, NothingAdded DEF TypeOK
<1>12. value_on_tier' \in [Values(graph) \X Tier -> [place : Place, event : Nat, stream : Stream]]
       /\ next_event' \in Nat /\ steps' \in Seq(StepType)
  BY <1>1, <1>2 DEF TypeOK
<1> QED
  BY <1>1, <1>2, <1>6, <1>7, <1>8, <1>10, <1>11, <1>12, OperandBound DEF v

LEMMA UseCopyKeeps == IInv /\ UseCopy => IInv'
<1> SUFFICES ASSUME IInv, UseCopy PROVE IInv'
  OBVIOUS
<1> DEFINE y == <<Ins[pos], TierNow>>
           copy == value_on_tier[y]
           x == SyncWait(DeviceNow, StreamNow, copy.event)
<1>1. /\ Given /\ TypeOK /\ Standing /\ Binds /\ Busy /\ Waits
      /\ BindingInput /\ Bind(Ins[pos], "Input", copy.place) /\ copy.place # NoPlace
  BY DEF IInv, UseCopy, BindingInput, Binds, Busy, Copied
<1>2. /\ UNCHANGED <<input, phase, kid, post_transfers, free, value2place, remaining,
                     value_on_tier, order, next_event>>
      /\ chunks' = AddUsesTo(chunks, copy.place.id, 1)
      /\ steps' = IF copy.stream # StreamNow THEN Append(steps, x) ELSE steps
  BY DEF UseCopy
<1>3. Ins[pos] \in Values(graph) /\ TierNow \in Tier /\ StreamNow \in Stream /\ DeviceNow \in Device
  BY <1>1, NowTyped DEF BindingInput, Standing
<1>4. y \in Values(graph) \X Tier
  BY <1>3
<1>5. copy \in [place : Place, event : Nat, stream : Stream]
  BY <1>1, <1>4 DEF TypeOK
<1>6. copy.place \in Place /\ copy.event \in Nat
  BY <1>5
<1>7. chunks' \in Seq(ChunkState)
  BY <1>1, <1>2, AddUsesTyped DEF TypeOK
<1>8. x \in StepType /\ x.kind = "SyncWait" /\ x.stream = StreamNow /\ x.event = copy.event
  BY <1>3, <1>6, StepsTyped DEF SyncWait
<1>9. UNCHANGED <<graph, info, kid>> /\ Binds' /\ StreamNow' = StreamNow
  BY <1>1, <1>2 DEF input, order, Binds, StreamNow
<1>10. steps \in Seq(StepType)
  BY <1>1 DEF TypeOK
<1>11. NoKernelAdded /\ steps' \in Seq(StepType) /\ Waits'
  <2>1. CASE copy.stream # StreamNow
    <3>1. steps' = Append(steps, x)
      BY <1>2, <2>1
    <3>2. \E i \in DOMAIN steps : Records(i, x.event)
      BY <1>1, <1>4, <1>8 DEF Waits
    <3>3. steps # <<>> /\ steps[Len(steps)].kind = "SyncWait" => x.stream = steps[Len(steps)].stream
      BY <1>1, <1>8 DEF Waits
    <3>4. \A z \in Values(graph) \X Tier : value_on_tier'[z] = value_on_tier[z]
      BY <1>2
    <3> HIDE DEF x
    <3>5. NoKernelAdded /\ steps' \in Seq(StepType)
      BY <1>8, <1>10, <3>1, StepAdded
    <3>6. Waits'
      BY <1>1, <1>8, <1>9, <1>10, <3>1, <3>2, <3>3, <3>4, WaitsAppend
    <3> QED
      BY <3>5, <3>6
  <2>2. CASE copy.stream = StreamNow
    <3>1. UNCHANGED steps
      BY <1>2, <2>2
    <3>2. Waits'
      BY <1>1, <1>2, <1>9, <3>1, WaitsStay
    <3> QED
      BY <1>10, <3>1, <3>2, NothingAdded
  <2> QED
    BY <2>1, <2>2
<1>12. /\ free' \in [FreeList -> Seq(Nat)] /\ value2place' \in [Values(graph) -> Place]
       /\ value_on_tier' \in [Values(graph) \X Tier -> [place : Place, event : Nat, stream : Stream]]
       /\ next_event' \in Nat
  BY <1>1, <1>2 DEF TypeOK
<1> HIDE DEF copy, x, y
<1> QED
  BY <1>1, <1>2, <1>6, <1>7, <1>11, <1>12, OperandBound

LEMMA MakeCopyKeeps == IInv /\ MakeCopy => IInv'
<1> SUFFICES ASSUME IInv, MakeCopy PROVE IInv'
  OBVIOUS
<1> DEFINE v == Ins[pos]
           y == <<v, TierNow>>
           c == NextChunk(chunks, free, TierNow, StreamNow)
           p == ChunkPlace(c)
           x == Transfer(DeviceOfTier(TierNow), StreamNow, next_event,
                         Binding(v, "Input", value2place[v]), Binding(v, "Output", p))
           copy == [place |-> p, event |-> next_event, stream |-> StreamNow]
<1>1. /\ Given /\ TypeOK /\ Standing /\ Binds /\ Busy /\ Waits
      /\ BindingInput /\ Bind(v, "Input", p)
  BY DEF IInv, MakeCopy, BindingInput, Binds, Busy
<1>2. /\ UNCHANGED <<input, phase, kid, post_transfers, value2place, remaining, order>>
      /\ chunks' = AllocChunks(chunks, free, TierNow, StreamNow, graph.size[v], 1)
      /\ free' = PopFree(free, TierNow, StreamNow)
      /\ steps' = Append(steps, x)
      /\ value_on_tier' = [value_on_tier EXCEPT ![y] = copy]
      /\ next_event' = next_event + 1
  BY DEF MakeCopy
<1>3. v \in Values(graph) /\ TierNow \in Tier /\ StreamNow \in Stream /\ DeviceOfTier(TierNow) \in Device
  BY <1>1, NowTyped DEF BindingInput, Standing
<1>4. graph.size[v] \in Nat /\ next_event \in Nat /\ value2place[v] \in Place
  BY <1>1, <1>3, GraphTyped DEF TypeOK
<1>5. chunks \in Seq(ChunkState) /\ free \in [FreeList -> Seq(Nat)] /\ value2place \in [Values(graph) -> Place]
      /\ value_on_tier \in [Values(graph) \X Tier -> [place : Place, event : Nat, stream : Stream]]
      /\ steps \in Seq(StepType)
  BY <1>1 DEF TypeOK
<1>6. c \in Nat /\ chunks' \in Seq(ChunkState) /\ free' \in [FreeList -> Seq(Nat)]
  <2> HIDE DEF v
  <2> QED
    BY <1>2, <1>3, <1>4, <1>5, AllocTyped
<1>7. p \in Place
  <2> HIDE DEF c
  <2> QED
    BY <1>1, <1>6, PlacesTyped
<1>8. x \in StepType
  <2>1. Binding(v, "Input", value2place[v]) \in BindingType /\ Binding(v, "Output", p) \in BindingType
    <3> HIDE DEF v, p
    <3> QED
      BY <1>1, <1>3, <1>4, <1>7, PlacesTyped
  <2> HIDE DEF v, p
  <2> QED
    BY <1>3, <1>4, <2>1, StepsTyped
<1>9. x.kind = "Transfer" /\ x.stream = StreamNow /\ x.event = next_event
  BY DEF Transfer
<1>10. UNCHANGED <<graph, info, kid>> /\ Binds' /\ StreamNow' = StreamNow
  BY <1>1, <1>2 DEF input, order, Binds, StreamNow
<1>11. y \in Values(graph) \X Tier
  BY <1>3
<1>12. copy \in [place : Place, event : Nat, stream : Stream] /\ copy.event = next_event
  <2> HIDE DEF p
  <2> QED
    BY <1>3, <1>4, <1>7
<1> HIDE DEF v, c, p, x, copy, y
<1>13. NoKernelAdded /\ steps' \in Seq(StepType)
  BY <1>2, <1>5, <1>8, <1>9, StepAdded
<1>14. value_on_tier' \in [Values(graph) \X Tier -> [place : Place, event : Nat, stream : Stream]]
       /\ \A z \in Values(graph) \X Tier : value_on_tier'[z] = IF z = y THEN copy ELSE value_on_tier[z]
  BY <1>2, <1>5, <1>11, <1>12
<1>15. Waits'
  <2>1. steps # <<>> /\ steps[Len(steps)].kind = "SyncWait" => x.stream = steps[Len(steps)].stream
    BY <1>1, <1>9 DEF Waits
  <2>2. \A z \in Values(graph) \X Tier :
          value_on_tier'[z] = value_on_tier[z] \/ (x.kind # "SyncWait" /\ x.event = value_on_tier'[z].event)
    BY <1>9, <1>12, <1>14
  <2> QED
    BY <1>1, <1>2, <1>5, <1>9, <1>10, <2>1, <2>2, WaitsAppend
<1>16. next_event' \in Nat /\ value2place' \in [Values(graph) -> Place]
  BY <1>2, <1>4, <1>5
<1>17. BindingInput /\ Bind(Ins[pos], "Input", p) /\ phase' = phase
  BY <1>1, <1>2 DEF v
<1> QED
  BY <1>2, <1>6, <1>7, <1>13, <1>14, <1>15, <1>16, <1>17, OperandBound

-----------------------------------------------------------------------------
(* bind_kernel: the outputs. *)

LEMMA OutTyped ==
  ASSUME Given, TypeOK, Standing, Binds, pos \in (Len(Ins) + 1)..(Len(Ins) + Len(Outs))
  PROVE  /\ Out \in Values(graph) /\ Out \in Nat
         /\ output_alias[Out] # NoValue => output_alias[Out] \in Nat /\ OutputPlace(output_alias[Out]) \in Place
         /\ remaining[Out] \in Nat /\ graph.size[Out] \in Nat /\ value2place[Out] \in Place
<1>1. Busy
  BY DEF Busy
<1>2. Len(Ins) \in Nat /\ Len(Outs) \in Nat /\ \A i \in 1..Len(Outs) : Outs[i] \in Values(graph)
  BY <1>1, NowTyped
<1>3. Out \in Values(graph)
  BY <1>2 DEF Out
<1>4. Values(graph) \subseteq Nat
  BY ValuesFinite
<1>5. output_alias[Out] # NoValue => output_alias[Out] \in Nat
  BY <1>3, <1>4, AliasTyped
<1>6. \A n \in Nat : OutputPlace(n) \in Place
  BY PlacesTyped
<1>7. graph.size[Out] \in Nat
  BY <1>3, GraphTyped
<1>8. remaining[Out] \in Nat /\ value2place[Out] \in Place
  BY <1>3 DEF TypeOK
<1> QED
  BY <1>3, <1>4, <1>5, <1>6, <1>7, <1>8

(* The output is placed.                                                     *)
LEMMA OutputPut ==
  ASSUME IInv, BindingOutput, NEW p \in Place, PutOutput(p),
         chunks' \in Seq(ChunkState), free' \in [FreeList -> Seq(Nat)]
  PROVE  IInv'
<1>1. Given /\ TypeOK /\ Standing /\ Binds /\ Busy /\ phase = "bind"
  BY DEF IInv, BindingOutput, Binds, Busy
<1>2. /\ UNCHANGED <<input, kid, pos, bindings, post_transfers, remaining, value_on_tier, order, next_event, steps>>
      /\ value2place' = [value2place EXCEPT ![Out] = p] /\ phase' = "deliver"
  BY DEF PutOutput
<1>3. UNCHANGED <<graph, deps, output_alias, info, pending, ready, load>> /\ Binds' /\ StreamNow' = StreamNow
  BY <1>2 DEF input, order, Binds, StreamNow
<1>4. pos \in (Len(Ins) + 1)..(Len(Ins) + Len(Outs))
  BY <1>1, NowTyped DEF Standing, BindingOutput
<1>5. Out \in Values(graph)
  BY <1>1, <1>4, OutTyped
<1>6. value2place' \in [Values(graph) -> Place]
  BY <1>1, <1>2, <1>5 DEF TypeOK
<1>7. TypeOK'
  BY <1>1, <1>2, <1>3, <1>6 DEF TypeOK
<1>8. Standing'
  <2>1. Ins' = Ins /\ Outs' = Outs
    BY <1>2, <1>3 DEF Ins, Outs, Kernel
  <2> QED
    BY <1>1, <1>2, <1>3, <1>4, <2>1 DEF Standing
<1>9. Waits'
  BY <1>2, <1>3, WaitsStay DEF IInv
<1>10. NoKernelAdded
  BY <1>1, <1>2, NothingAdded DEF TypeOK
<1> QED
  BY <1>1, <1>2, <1>3, <1>7, <1>8, <1>9, <1>10, BindKeeps

LEMMA PlaceInPlaceKeeps == IInv /\ PlaceInPlace => IInv'
<1> SUFFICES ASSUME IInv, PlaceInPlace PROVE IInv'
  OBVIOUS
<1>1. /\ Given /\ TypeOK /\ Standing /\ Binds /\ BindingOutput /\ PutOutput(GivenPlace)
  BY DEF IInv, PlaceInPlace, BindingOutput, Binds
<1>2. /\ chunks' = IF IsChunk(GivenPlace) THEN AddUsesTo(chunks, GivenPlace.id, remaining[Out]) ELSE chunks
      /\ free' = free
  BY DEF PlaceInPlace
<1>3. pos > Len(Ins) /\ pos \in (Len(Ins) + 1)..(Len(Ins) + Len(Outs))
  BY <1>1, NowTyped DEF Standing, BindingOutput, Busy
<1>4. GivenPlace \in Place /\ remaining[Out] \in Nat
  BY <1>1, <1>3, FirstBound, OutTyped
<1>5. chunks \in Seq(ChunkState) /\ free \in [FreeList -> Seq(Nat)]
  BY <1>1 DEF TypeOK
<1>6. chunks' \in Seq(ChunkState)
  BY <1>2, <1>4, <1>5, AddUsesTyped
<1> QED
  BY <1>1, <1>2, <1>4, <1>5, <1>6, OutputPut

LEMMA PlaceOnOutputKeeps == IInv /\ PlaceOnOutput => IInv'
<1> SUFFICES ASSUME IInv, PlaceOnOutput PROVE IInv'
  OBVIOUS
<1>1. /\ Given /\ TypeOK /\ Standing /\ Binds /\ BindingOutput /\ PutOutput(OutputPlace(output_alias[Out]))
      /\ UNCHANGED <<chunks, free>> /\ output_alias[Out] # NoValue
  BY DEF IInv, PlaceOnOutput, BindingOutput, Binds, alloc, ToOutputBuffer
<1>2. pos \in (Len(Ins) + 1)..(Len(Ins) + Len(Outs))
  BY <1>1, NowTyped DEF Standing, BindingOutput, Busy
<1>3. OutputPlace(output_alias[Out]) \in Place
  BY <1>1, <1>2, OutTyped
<1> QED
  BY <1>1, <1>3, OutputPut DEF TypeOK

LEMMA PlaceOnChunkKeeps == IInv /\ PlaceOnChunk => IInv'
<1> SUFFICES ASSUME IInv, PlaceOnChunk PROVE IInv'
  OBVIOUS
<1> DEFINE c == NextChunk(chunks, free, TierNow, StreamNow)
<1>1. /\ Given /\ TypeOK /\ Standing /\ Binds /\ Busy /\ BindingOutput /\ PutOutput(ChunkPlace(c))
      /\ chunks' = AllocChunks(chunks, free, TierNow, StreamNow, graph.size[Out], remaining[Out])
      /\ free' = PopFree(free, TierNow, StreamNow)
  BY DEF IInv, PlaceOnChunk, BindingOutput, Binds, Busy
<1>2. pos \in (Len(Ins) + 1)..(Len(Ins) + Len(Outs))
  BY <1>1, NowTyped DEF Standing, BindingOutput
<1>3. graph.size[Out] \in Nat /\ remaining[Out] \in Nat /\ TierNow \in Tier /\ StreamNow \in Stream
  BY <1>1, <1>2, OutTyped, NowTyped
<1>4. chunks \in Seq(ChunkState) /\ free \in [FreeList -> Seq(Nat)]
  BY <1>1 DEF TypeOK
<1> HIDE DEF c
<1>5. c \in Nat /\ chunks' \in Seq(ChunkState) /\ free' \in [FreeList -> Seq(Nat)]
  BY <1>1, <1>3, <1>4, AllocTyped DEF c
<1>6. ChunkPlace(c) \in Place
  BY <1>1, <1>5, PlacesTyped
<1> QED
  BY <1>1, <1>5, <1>6, OutputPut

LEMMA DeliverOutputKeeps == IInv /\ DeliverOutput => IInv'
<1> SUFFICES ASSUME IInv, DeliverOutput PROVE IInv'
  OBVIOUS
<1> DEFINE b == Binding(Out, "Output", value2place[Out])
           pt == [src |-> Binding(Out, "Input", value2place[Out]),
                  dst |-> Binding(Out, "Output", OutputPlace(output_alias[Out]))]
<1>1. /\ Given /\ TypeOK /\ Standing /\ Binds /\ Busy /\ phase = "deliver"
  BY DEF IInv, DeliverOutput, Binds, Busy
<1>2. /\ chunks' = IF MustDeliver /\ IsChunk(value2place[Out])
                   THEN AddUsesTo(chunks, value2place[Out].id, 1) ELSE chunks
      /\ post_transfers' = IF MustDeliver THEN Append(post_transfers, pt) ELSE post_transfers
      /\ bindings' = Append(bindings, b)
      /\ phase' = "release"
      /\ UNCHANGED <<input, kid, pos, free, value2place, remaining, value_on_tier, order, next_event, steps>>
  BY DEF DeliverOutput
<1>3. UNCHANGED <<graph, deps, output_alias, info, pending, ready, load>> /\ Binds' /\ StreamNow' = StreamNow
  BY <1>2 DEF input, order, Binds, StreamNow
<1>4. pos \in (Len(Ins) + 1)..(Len(Ins) + Len(Outs)) /\ Len(bindings) = pos - 1 /\ Len(Ins) \in Nat
      /\ Len(Outs) \in Nat
  BY <1>1, NowTyped DEF Standing
<1>5. Out \in Values(graph) /\ value2place[Out] \in Place
      /\ (output_alias[Out] # NoValue => OutputPlace(output_alias[Out]) \in Place)
  BY <1>1, <1>4, OutTyped
<1>6. b \in BindingType
  BY <1>1, <1>5, PlacesTyped
<1>7. MustDeliver => pt \in [src : BindingType, dst : BindingType]
  BY <1>1, <1>5, PlacesTyped DEF MustDeliver
<1> HIDE DEF b, pt
<1>8. bindings' \in Seq(BindingType) /\ Len(bindings') = pos /\ DOMAIN bindings' = 1..pos
      /\ \A i \in 1..(pos - 1) : bindings'[i] = bindings[i]
  BY <1>1, <1>2, <1>4, <1>6 DEF TypeOK
<1>9. post_transfers' \in Seq([src : BindingType, dst : BindingType])
  <2> DEFINE PT == [src : BindingType, dst : BindingType]
  <2>1. post_transfers \in Seq(PT) /\ (MustDeliver => pt \in PT)
    BY <1>1, <1>7 DEF TypeOK
  <2> HIDE DEF PT
  <2>2. post_transfers' \in Seq(PT)
    BY <1>2, <2>1
  <2> QED
    BY <2>2 DEF PT
<1>10. chunks' \in Seq(ChunkState)
  BY <1>1, <1>2, AddUsesTyped DEF TypeOK
<1>11. TypeOK'
  BY <1>1, <1>2, <1>3, <1>8, <1>9, <1>10 DEF TypeOK
<1>12. Standing'
  <2>1. Ins' = Ins /\ Outs' = Outs
    BY <1>2, <1>3 DEF Ins, Outs, Kernel
  <2>2. \A i \in DOMAIN bindings' : i <= Len(Ins) => bindings'[i].value = Ins[i]
    <3> SUFFICES ASSUME NEW i \in 1..pos, i <= Len(Ins) PROVE bindings'[i].value = Ins[i]
      BY <1>8
    <3>1. i \in 1..(pos - 1) /\ i \in DOMAIN bindings
      BY <1>1, <1>4 DEF TypeOK
    <3> QED
      BY <1>1, <1>8, <3>1 DEF Standing
  <2>3. kid \in Kernels(graph) /\ info[kid].scheduled
    BY <1>1 DEF Standing
  <2> QED
    BY <1>2, <1>3, <1>4, <1>8, <2>1, <2>2, <2>3 DEF Standing
<1>13. Waits'
  BY <1>2, <1>3, WaitsStay DEF IInv
<1>14. NoKernelAdded
  BY <1>1, <1>2, NothingAdded DEF TypeOK
<1> QED
  BY <1>1, <1>2, <1>3, <1>11, <1>12, <1>13, <1>14, BindKeeps

LEMMA ReleaseOutputKeeps == IInv /\ ReleaseOutput => IInv'
<1> SUFFICES ASSUME IInv, ReleaseOutput PROVE IInv'
  OBVIOUS
<1>1. /\ Given /\ TypeOK /\ Standing /\ Binds /\ Busy /\ phase = "release"
  BY DEF IInv, ReleaseOutput, Binds, Busy
<1>2. /\ free' = IF IsChunk(value2place[Out])
                 THEN FreeIfDead(free, chunks, value2place[Out].id, StreamNow) ELSE free
      /\ phase' = "bind" /\ pos' = pos + 1
      /\ UNCHANGED <<input, kid, bindings, post_transfers, chunks, value2place, remaining, value_on_tier,
                     order, next_event, steps>>
  BY DEF ReleaseOutput
<1>3. UNCHANGED <<graph, deps, output_alias, info, pending, ready, load>> /\ Binds' /\ StreamNow' = StreamNow
  BY <1>2 DEF input, order, Binds, StreamNow
<1>4. pos \in (Len(Ins) + 1)..(Len(Ins) + Len(Outs)) /\ Len(bindings) = pos /\ Len(Ins) \in Nat
      /\ Len(Outs) \in Nat
  BY <1>1, NowTyped DEF Standing
<1>5. value2place[Out] \in Place
  BY <1>1, <1>4, OutTyped
<1>6. value2place[Out].id \in Nat
  BY <1>5 DEF Place
<1>7. free' \in [FreeList -> Seq(Nat)]
  BY <1>1, <1>2, <1>6, FreeTyped DEF TypeOK
<1>8. TypeOK'
  BY <1>1, <1>2, <1>3, <1>4, <1>7 DEF TypeOK
<1>9. Standing'
  <2>1. Ins' = Ins /\ Outs' = Outs
    BY <1>2, <1>3 DEF Ins, Outs, Kernel
  <2>2. pos' \in 1..(Len(Ins) + Len(Outs) + 1) /\ Len(bindings') = pos' - 1
    BY <1>2, <1>4
  <2>3. \A i \in DOMAIN bindings' : i <= Len(Ins) => bindings'[i].value = Ins[i]
    BY <1>1, <1>2 DEF Standing
  <2>4. kid \in Kernels(graph) /\ info[kid].scheduled
    BY <1>1 DEF Standing
  <2> QED
    BY <1>2, <1>3, <2>1, <2>2, <2>3, <2>4 DEF Standing
<1>10. Waits'
  BY <1>2, <1>3, WaitsStay DEF IInv
<1>11. NoKernelAdded
  BY <1>1, <1>2, NothingAdded DEF TypeOK
<1> QED
  BY <1>1, <1>2, <1>3, <1>8, <1>9, <1>10, <1>11, BindKeeps

-----------------------------------------------------------------------------
(* The rest of schedule_kernel. *)

LEMMA SlotsAreCounted ==
  ASSUME Given
  PROVE  \A u \in Slots(graph) : u[1] \in Kernels(graph) /\ u[2] \in Nat \ {0} /\ u[2] \in 1..Len(graph.kernels[u[1]].ins)
<1> SUFFICES ASSUME NEW u \in Slots(graph)
             PROVE  u[1] \in Kernels(graph) /\ u[2] \in Nat \ {0} /\ u[2] \in 1..Len(graph.kernels[u[1]].ins)
  OBVIOUS
<1>1. u[1] \in Kernels(graph) /\ u[2] \in DOMAIN graph.kernels[u[1]].ins
  BY SlotFacts
<1>2. Len(graph.kernels[u[1]].ins) \in Nat /\ DOMAIN graph.kernels[u[1]].ins = 1..Len(graph.kernels[u[1]].ins)
  BY <1>1, KernelTyped
<1> QED
  BY <1>1, <1>2

LEMMA EmitStepKeeps == IInv /\ EmitStep => IInv'
<1> SUFFICES ASSUME IInv, EmitStep PROVE IInv'
  OBVIOUS
<1> DEFINE x == KernelStep(kid, DeviceNow, StreamNow, info[kid].event, bindings)
<1>1. /\ Given /\ TypeOK /\ Standing /\ Counts /\ KernelSteps /\ Waits /\ Binds /\ Busy /\ phase = "bind"
  BY DEF IInv, EmitStep, Binds, Busy
<1>2. /\ steps' = Append(steps, x) /\ phase' = "post" /\ pos' = 1
      /\ UNCHANGED <<input, kid, bindings, post_transfers, chunks, free, value2place, remaining,
                     value_on_tier, order, next_event>>
  BY DEF EmitStep, alloc
<1>3. UNCHANGED <<graph, deps, output_alias, info, pending, ready, load>> /\ StreamNow' = StreamNow /\ ~ Binds' /\ Busy'
  BY <1>2 DEF input, order, Binds, StreamNow, Busy
<1>4. kid \in Kernels(graph) /\ StreamNow \in Stream /\ DeviceNow \in Device /\ info[kid].event \in Nat
      /\ Len(Ins) \in Nat
  BY <1>1, NowTyped
<1>5. kid \in Nat /\ info[kid].scheduled
  BY <1>1, <1>4, GraphTyped DEF Standing
<1>6. bindings \in Seq(BindingType) /\ steps \in Seq(StepType)
      /\ post_transfers \in Seq([src : BindingType, dst : BindingType])
  BY <1>1 DEF TypeOK
<1>7. x \in StepType
  BY <1>4, <1>5, <1>6, StepsTyped
<1>8. x.kind = "Kernel" /\ x.kernel = kid /\ x.event = info[kid].event /\ x.stream = StreamNow
  BY DEF KernelStep
<1> HIDE DEF x
<1>9. TypeOK'
  <2>1. steps' \in Seq(StepType)
    BY <1>2, <1>6, <1>7
  <2> QED
    BY <1>1, <1>2, <1>3, <2>1 DEF TypeOK
<1>10. Standing'
  <2>1. Ins' = Ins /\ Outs' = Outs
    BY <1>2, <1>3 DEF Ins, Outs, Kernel
  <2>2. Len(post_transfers) \in Nat
    BY <1>6
  <2>3. pos' \in 1..(Len(post_transfers') + Len(Ins') + 1)
    BY <1>2, <1>4, <2>1, <2>2
  <2> QED
    BY <1>2, <1>3, <1>4, <1>5, <2>3 DEF Standing
<1>11. \A k : Done(k)' <=> Done(k)
  BY <1>1, <1>2, <1>3 DEF Done
<1>12. \A u \in Slots(graph) : Consumed(u)' <=> Consumed(u)
  <2>1. \A u \in Slots(graph) : u[2] \in Nat \ {0}
    BY <1>1, SlotsAreCounted
  <2>2. Len(post_transfers) \in Nat
    BY <1>6
  <2> QED
    BY <1>1, <1>2, <1>3, <2>1, <2>2 DEF Consumed
<1>13. Counts'
  BY <1>1, <1>2, <1>3, <1>11, <1>12, CountsStay
<1>14. KernelSteps'
  <2>0. PICK n \in Nat : n = Len(steps)
    BY <1>6
  <2>1. /\ DOMAIN steps = 1..n /\ DOMAIN steps' = 1..(n + 1)
        /\ (\A i \in 1..n : steps'[i] = steps[i]) /\ steps'[n + 1] = x
    BY <1>2, <1>6, <2>0
  <2>2. \A k : Emitted(k)' <=> Emitted(k) \/ k = kid
    BY <1>1, <1>2, <1>3, <1>5 DEF Emitted
  <2>3. ~ Emitted(kid)
    BY <1>1 DEF Emitted
  <2>4. \A i \in 1..n : \A k : IsStepOf(i, k)' <=> IsStepOf(i, k)
    BY <2>1 DEF IsStepOf
  <2>5. \A k : IsStepOf(n + 1, k)' <=> k = kid
    BY <1>8, <2>1 DEF IsStepOf
  <2>6. \A i \in 1..n : ~ IsStepOf(i, kid)
    BY <1>4, <2>1, <2>3 DEF KernelSteps, IInv
  <2>7. ASSUME NEW i \in DOMAIN steps', NEW j \in DOMAIN steps', NEW k \in Kernels(graph),
               IsStepOf(i, k)', IsStepOf(j, k)'
        PROVE  i = j
    <3>1. CASE k = kid
      <4>1. i = n + 1 /\ j = n + 1
        BY <2>1, <2>4, <2>6, <2>7, <3>1
      <4> QED
        BY <4>1
    <3>2. CASE k # kid
      <4>1. i \in 1..n /\ j \in 1..n
        BY <2>1, <2>5, <2>7, <3>2
      <4> QED
        BY <1>1, <2>1, <2>4, <2>7, <4>1 DEF KernelSteps
    <3> QED
      BY <3>1, <3>2
  <2>8. ASSUME NEW k \in Kernels(graph), Emitted(k)'
        PROVE  \E i \in DOMAIN steps' : IsStepOf(i, k)' /\ Records(i, info[k].event)'
    <3>1. CASE k = kid
      <4>1. n + 1 \in DOMAIN steps' /\ IsStepOf(n + 1, k)'
        BY <2>1, <2>5, <3>1
      <4>2. Records(n + 1, info[k].event)'
        BY <1>3, <1>8, <2>1, <3>1 DEF Records
      <4> QED
        BY <4>1, <4>2
    <3>2. CASE k # kid
      <4>1. PICK i \in DOMAIN steps : IsStepOf(i, k) /\ Records(i, info[k].event)
        BY <1>1, <2>2, <2>8, <3>2 DEF KernelSteps
      <4>2. i \in DOMAIN steps' /\ IsStepOf(i, k)'
        BY <2>1, <2>4, <4>1
      <4>3. Records(i, info[k].event)'
        BY <1>3, <2>1, <4>1 DEF Records
      <4> QED
        BY <4>2, <4>3
    <3> QED
      BY <3>1, <3>2
  <2>9. ASSUME NEW i \in DOMAIN steps', NEW k \in Kernels(graph), IsStepOf(i, k)'
        PROVE  Emitted(k)' /\ \A p \in deps.preds[k] : \E j \in 1..(i - 1) : IsStepOf(j, p)'
    <3>1. CASE i = n + 1
      <4>1. k = kid
        BY <2>5, <2>9, <3>1
      <4>2. ASSUME NEW p \in deps.preds[kid] PROVE \E j \in 1..(i - 1) : IsStepOf(j, p)'
        <5>1. p \in Kernels(graph)
          BY <1>1, <1>4, PredsFacts
        <5>2. Done(p)
          BY <1>1, <1>4, <1>5 DEF Counts
        <5>3. Emitted(p)
          BY <1>1, <5>2 DEF Done, Emitted
        <5>4. PICK j \in DOMAIN steps : IsStepOf(j, p)
          BY <1>1, <5>1, <5>3 DEF KernelSteps
        <5>5. j \in 1..(i - 1) /\ IsStepOf(j, p)'
          BY <2>1, <2>4, <3>1, <5>4
        <5> QED
          BY <5>5
      <4>3. Emitted(k)'
        BY <2>2, <4>1
      <4> QED
        BY <4>1, <4>2, <4>3
    <3>2. CASE i # n + 1
      <4>1. i \in 1..n /\ IsStepOf(i, k)
        BY <2>1, <2>4, <2>9, <3>2
      <4>2. Emitted(k) /\ \A p \in deps.preds[k] : \E j \in 1..(i - 1) : IsStepOf(j, p)
        BY <1>1, <2>1, <4>1 DEF KernelSteps
      <4>3. \A j \in 1..(i - 1) : j \in 1..n
        BY <4>1
      <4> QED
        BY <2>2, <2>4, <4>2, <4>3
    <3> QED
      BY <3>1, <3>2
  <2>10. (\A i, j \in DOMAIN steps : \A k \in Kernels(graph) : IsStepOf(i, k) /\ IsStepOf(j, k) => i = j)'
    BY <1>3, <2>7
  <2>11. (\A k \in Kernels(graph) : Emitted(k) => \E i \in DOMAIN steps : IsStepOf(i, k) /\ Records(i, info[k].event))'
    BY <1>3, <2>8
  <2>12. (\A i \in DOMAIN steps : \A k \in Kernels(graph) : IsStepOf(i, k) =>
            Emitted(k) /\ \A p \in deps.preds[k] : \E j \in 1..(i - 1) : IsStepOf(j, p))'
    BY <1>3, <2>9
  <2> QED
    BY <2>10, <2>11, <2>12 DEF KernelSteps
<1>15. Waits'
  <2>1. steps # <<>> /\ steps[Len(steps)].kind = "SyncWait" => x.stream = steps[Len(steps)].stream
    BY <1>1, <1>8 DEF Waits
  <2>2. x.kind # "SyncWait"
    BY <1>8
  <2> QED
    BY <1>1, <1>2, <1>3, <1>6, <2>1, <2>2, WaitsAppend
<1>16. Given'
  BY <1>1, <1>2, GivenStays
<1> QED
  BY <1>9, <1>10, <1>13, <1>14, <1>15, <1>16 DEF IInv

(* Outside bind_kernel the last step of the plan is no wait.                 *)
LEMMA NotWaiting ==
  ASSUME Waits, ~ Binds
  PROVE  steps = <<>> \/ steps[Len(steps)].kind # "SyncWait"
  BY DEF Waits

(* A read of a place is consumed.                                            *)
LEMMA ConsumePlaceTyped ==
  ASSUME TypeOK, NEW p \in Place, ConsumePlace(p)
  PROVE  chunks' \in Seq(ChunkState) /\ free' \in [FreeList -> Seq(Nat)]
<1>1. chunks \in Seq(ChunkState) /\ free \in [FreeList -> Seq(Nat)] /\ p.id \in Nat
  BY DEF TypeOK, Place
<1>2. CASE IsChunk(p)
  <2>1. chunks' = ConsumeIn(chunks, p.id) /\ free' = FreeIfDead(free, chunks', p.id, StreamNow)
    BY <1>2 DEF ConsumePlace
  <2>2. chunks' \in Seq(ChunkState)
    BY <1>1, <2>1, ConsumeTyped
  <2>3. free' \in [FreeList -> Seq(Nat)]
    BY <1>1, <2>1, FreeTyped
  <2> QED
    BY <2>2, <2>3
<1>3. CASE ~ IsChunk(p)
  <2>1. chunks' = chunks /\ free' = free
    BY <1>3 DEF ConsumePlace, alloc
  <2> QED
    BY <1>1, <2>1
<1> QED
  BY <1>2, <1>3

LEMMA PostTransferKeeps == IInv /\ PostTransfer => IInv'
<1> SUFFICES ASSUME IInv, PostTransfer PROVE IInv'
  OBVIOUS
<1> DEFINE pt == post_transfers[pos]
           x == Transfer(DeviceNow, StreamNow, next_event, pt.src, pt.dst)
           PT == [src : BindingType, dst : BindingType]
<1>1. /\ Given /\ TypeOK /\ Standing /\ Counts /\ KernelSteps /\ Waits /\ ~ Binds /\ Busy /\ phase = "post"
  BY DEF IInv, PostTransfer, Binds, Busy
<1>2. /\ steps' = Append(steps, x) /\ ConsumePlace(pt.src.place) /\ pos <= Len(post_transfers)
      /\ next_event' = next_event + 1 /\ pos' = pos + 1
      /\ UNCHANGED <<input, phase, kid, bindings, post_transfers, value2place, remaining, value_on_tier, order>>
  BY DEF PostTransfer
<1>3. /\ UNCHANGED <<graph, deps, output_alias, info, pending, ready, load>> /\ StreamNow' = StreamNow
      /\ ~ Binds' /\ Busy' /\ phase' = "post"
  BY <1>1, <1>2 DEF input, order, Binds, StreamNow, Busy
<1>4. kid \in Kernels(graph) /\ StreamNow \in Stream /\ DeviceNow \in Device /\ Len(Ins) \in Nat
  BY <1>1, NowTyped
<1>5. post_transfers \in Seq(PT) /\ steps \in Seq(StepType) /\ next_event \in Nat
  BY <1>1 DEF TypeOK
<1>6. Len(post_transfers) \in Nat
  <2> HIDE DEF PT
  <2> QED
    BY <1>5
<1>7. pos \in 1..Len(post_transfers)
  BY <1>1, <1>2, <1>4, <1>6 DEF Standing
<1>8. pt \in PT
  <2> HIDE DEF PT
  <2> QED
    BY <1>5, <1>7
<1>9. pt.src \in BindingType /\ pt.dst \in BindingType /\ pt.src.place \in Place
  <2> HIDE DEF pt
  <2> QED
    BY <1>8 DEF BindingType
<1> HIDE DEF pt
<1>10. x \in StepType
  BY <1>4, <1>5, <1>9, StepsTyped
<1>11. x.kind = "Transfer"
  BY DEF Transfer
<1> HIDE DEF x
<1>12. chunks' \in Seq(ChunkState) /\ free' \in [FreeList -> Seq(Nat)]
  BY <1>1, <1>2, <1>9, ConsumePlaceTyped
<1>13. steps' \in Seq(StepType) /\ NoKernelAdded
  BY <1>2, <1>5, <1>10, <1>11, StepAdded
<1>14. TypeOK'
  BY <1>1, <1>2, <1>3, <1>5, <1>7, <1>12, <1>13 DEF TypeOK
<1>15. Standing'
  <2>1. Ins' = Ins
    BY <1>2, <1>3 DEF Ins, Kernel
  <2>2. pos' \in 1..(Len(post_transfers') + Len(Ins') + 1)
    BY <1>2, <1>4, <1>6, <1>7, <2>1
  <2>3. kid \in Kernels(graph) /\ info[kid].scheduled
    BY <1>1 DEF Standing
  <2> QED
    BY <1>2, <1>3, <2>2, <2>3 DEF Standing
<1>16. \A k : (Done(k)' <=> Done(k)) /\ (Emitted(k)' <=> Emitted(k))
  BY <1>1, <1>2, <1>3 DEF Done, Emitted
<1>17. \A u \in Slots(graph) : Consumed(u)' <=> Consumed(u)
  <2>1. \A u \in Slots(graph) : u[2] \in Nat \ {0}
    BY <1>1, SlotsAreCounted
  <2>2. \A n \in Nat \ {0} : ~ (n < pos - Len(post_transfers)) /\ ~ (n < pos' - Len(post_transfers'))
    BY <1>2, <1>6, <1>7
  <2> QED
    BY <1>1, <1>2, <1>3, <2>1, <2>2 DEF Consumed
<1>18. Counts'
  BY <1>1, <1>2, <1>3, <1>16, <1>17, CountsStay
<1>19. KernelSteps'
  BY <1>1, <1>3, <1>5, <1>13, <1>16, KernelStepsStay
<1>20. Waits'
  <2>1. x.kind # "SyncWait" /\ ~ (steps # <<>> /\ steps[Len(steps)].kind = "SyncWait")
    BY <1>1, <1>11, NotWaiting
  <2> QED
    BY <1>1, <1>2, <1>3, <1>5, <2>1, WaitsAppend
<1>21. Given'
  BY <1>1, <1>2, GivenStays
<1> QED
  BY <1>14, <1>15, <1>18, <1>19, <1>20, <1>21 DEF IInv

LEMMA UnreadFacts ==
  ASSUME Given, NEW v
  PROVE  IsFiniteSet(Unread(v)) /\ Cardinality(Unread(v)) \in Nat
         /\ \A u \in Unread(v) : Cardinality(Unread(v) \ {u}) = Cardinality(Unread(v)) - 1 /\ Cardinality(Unread(v)) > 0
<1>1. IsFiniteSet(Unread(v))
  BY SlotFacts, FS_Subset DEF Unread
<1>2. Cardinality(Unread(v)) \in Nat
  BY <1>1, FS_CardinalityType
<1>3. ASSUME NEW u \in Unread(v)
      PROVE  Cardinality(Unread(v) \ {u}) = Cardinality(Unread(v)) - 1 /\ Cardinality(Unread(v)) > 0
  <2>1. Cardinality(Unread(v) \ {u}) = Cardinality(Unread(v)) - 1
    BY <1>1, FS_RemoveElement
  <2>2. Cardinality(Unread(v)) # 0
    BY <1>1, FS_EmptySet
  <2> QED
    BY <1>2, <2>1, <2>2
<1> QED
  BY <1>1, <1>2, <1>3

(* The input the scheduler stands at is consumed.                            *)
LEMMA InputConsumed ==
  ASSUME Given, TypeOK, Standing, ConsumeInput, NEW i, NEW v, NEW u,
         i = pos - Len(post_transfers), v = Ins[i], u = <<kid, i>>
  PROVE  /\ remaining' = [remaining EXCEPT ![v] = @ - 1] /\ ConsumePlace(value2place[v])
         /\ pos > Len(post_transfers) /\ pos <= Len(post_transfers) + Len(Ins) /\ pos' = pos + 1
         /\ UNCHANGED <<input, phase, kid, bindings, post_transfers, value2place, value_on_tier, order, next_event, steps>>
         /\ UNCHANGED <<graph, deps, output_alias, info, pending, ready, load>> /\ StreamNow' = StreamNow
         /\ ~ Binds /\ Busy /\ phase = "post" /\ ~ Binds' /\ Busy' /\ phase' = "post"
         /\ kid \in Kernels(graph) /\ Len(Ins) \in Nat /\ Len(post_transfers) \in Nat /\ pos \in Nat
         /\ i \in 1..Len(Ins) /\ pos' - Len(post_transfers') = i + 1 /\ v \in Values(graph)
         /\ u \in Slots(graph) /\ ReadAt(graph, u) = v /\ u[1] = kid /\ u[2] = i
         /\ ~ Consumed(u) /\ \A w \in Slots(graph) : Consumed(w)' <=> Consumed(w) \/ w = u
<1>1. ~ Binds /\ Busy /\ phase = "post"
  BY DEF ConsumeInput, Binds, Busy
<1>2. /\ remaining' = [remaining EXCEPT ![v] = @ - 1] /\ ConsumePlace(value2place[v])
      /\ pos > Len(post_transfers) /\ pos <= Len(post_transfers) + Len(Ins) /\ pos' = pos + 1
      /\ UNCHANGED <<input, phase, kid, bindings, post_transfers, value2place, value_on_tier, order, next_event, steps>>
  BY DEF ConsumeInput
<1>3. /\ UNCHANGED <<graph, deps, output_alias, info, pending, ready, load>> /\ StreamNow' = StreamNow
      /\ ~ Binds' /\ Busy' /\ phase' = "post"
  BY <1>1, <1>2 DEF input, order, Binds, StreamNow, Busy
<1>4. kid \in Kernels(graph) /\ Len(Ins) \in Nat /\ DOMAIN Ins = 1..Len(Ins) /\ \A j \in 1..Len(Ins) : Ins[j] \in Values(graph)
  BY <1>1, NowTyped
<1>5. post_transfers \in Seq([src : BindingType, dst : BindingType]) /\ steps \in Seq(StepType) /\ pos \in Nat
      /\ remaining \in [Values(graph) -> Nat] /\ value2place \in [Values(graph) -> Place]
  BY <1>1 DEF TypeOK
<1>6. Len(post_transfers) \in Nat
  BY <1>5
<1>7. i \in 1..Len(Ins) /\ pos' - Len(post_transfers') = i + 1
  BY <1>2, <1>4, <1>5, <1>6
<1>8. u \in Slots(graph) /\ ReadAt(graph, u) = v /\ u[1] = kid /\ u[2] = i
  <2>1. Ins = graph.kernels[kid].ins
    BY DEF Ins, Kernel
  <2>2. u[1] = kid /\ u[2] = i
    OBVIOUS
  <2>3. i \in DOMAIN graph.kernels[kid].ins
    BY <1>4, <1>7, <2>1
  <2>4. u \in Slots(graph)
    BY <1>1, <1>4, <2>3, SlotFacts
  <2> QED
    BY <2>1, <2>2, <2>4 DEF ReadAt
<1>9. v \in Values(graph)
  BY <1>4, <1>7
<1>10. info[kid].scheduled
  BY <1>1 DEF Standing
<1>11. ~ Consumed(u)
  BY <1>1, <1>7, <1>8, <1>10 DEF Consumed
<1>12. \A w \in Slots(graph) : Consumed(w)' <=> Consumed(w) \/ w = u
  <2> SUFFICES ASSUME NEW w \in Slots(graph) PROVE Consumed(w)' <=> Consumed(w) \/ w = u
    OBVIOUS
  <2>1. w = <<w[1], w[2]>> /\ w[2] \in Nat
    BY <1>1, SlotFacts, SlotsAreCounted
  <2>2. CASE w[1] # kid
    BY <1>1, <1>2, <1>3, <1>8, <2>1, <2>2 DEF Consumed
  <2>3. CASE w[1] = kid
    <3>1. Consumed(w) <=> w[2] < i
      BY <1>1, <1>10, <2>3 DEF Consumed
    <3>2. Consumed(w)' <=> w[2] < pos' - Len(post_transfers')
      BY <1>2, <1>3, <1>10, <2>3 DEF Consumed
    <3>3. w = u <=> w[2] = i
      BY <2>1, <2>3
    <3> QED
      BY <1>7, <2>1, <3>1, <3>2, <3>3
  <2> QED
    BY <2>2, <2>3
<1> QED
  BY <1>1, <1>2, <1>3, <1>4, <1>5, <1>6, <1>7, <1>8, <1>9, <1>11, <1>12

LEMMA ConsumeInputKeeps == IInv /\ ConsumeInput => IInv'
<1> SUFFICES ASSUME IInv, ConsumeInput PROVE IInv'
  OBVIOUS
<1>0. PICK i, v, u : i = pos - Len(post_transfers) /\ v = Ins[i] /\ u = <<kid, i>>
  OBVIOUS
<1>1. /\ Given /\ TypeOK /\ Standing /\ Counts /\ KernelSteps /\ Waits
  BY DEF IInv
<1>2. /\ remaining' = [remaining EXCEPT ![v] = @ - 1] /\ ConsumePlace(value2place[v])
      /\ pos > Len(post_transfers) /\ pos <= Len(post_transfers) + Len(Ins) /\ pos' = pos + 1
      /\ UNCHANGED <<input, phase, kid, bindings, post_transfers, value2place, value_on_tier, order, next_event, steps>>
  BY <1>0, <1>1, InputConsumed
<1>3. /\ UNCHANGED <<graph, deps, output_alias, info, pending, ready, load>> /\ StreamNow' = StreamNow
      /\ ~ Binds /\ Busy /\ phase = "post" /\ ~ Binds' /\ Busy' /\ phase' = "post"
  BY <1>0, <1>1, InputConsumed
<1>4. kid \in Kernels(graph) /\ Len(Ins) \in Nat /\ info[kid].scheduled
  BY <1>1, <1>3, NowTyped DEF Standing
<1>5. post_transfers \in Seq([src : BindingType, dst : BindingType]) /\ steps \in Seq(StepType) /\ pos \in Nat
      /\ remaining \in [Values(graph) -> Nat] /\ value2place \in [Values(graph) -> Place]
  BY <1>1 DEF TypeOK
<1>6. /\ Len(post_transfers) \in Nat /\ i \in 1..Len(Ins) /\ v \in Values(graph)
      /\ u \in Slots(graph) /\ ReadAt(graph, u) = v /\ u[1] = kid /\ u[2] = i
      /\ ~ Consumed(u) /\ \A w \in Slots(graph) : Consumed(w)' <=> Consumed(w) \/ w = u
  BY <1>0, <1>1, InputConsumed
<1>13. u \in Unread(v) /\ Unread(v)' = Unread(v) \ {u} /\ \A w : w # v => Unread(w)' = Unread(w)
  BY <1>3, <1>6 DEF Unread
<1>14. \A w \in Values(graph) : remaining[w] = Cardinality(Unread(w))
  BY <1>1 DEF Counts
<1>15. \A w \in Values(graph) : remaining'[w] = Cardinality(Unread(w)') /\ remaining'[w] \in Nat
  <2> SUFFICES ASSUME NEW w \in Values(graph)
               PROVE  remaining'[w] = Cardinality(Unread(w)') /\ remaining'[w] \in Nat
    OBVIOUS
  <2>1. CASE w = v
    <3>1. remaining'[w] = remaining[v] - 1
      BY <1>2, <1>5, <1>6, <2>1
    <3>2. Cardinality(Unread(v) \ {u}) = Cardinality(Unread(v)) - 1 /\ Cardinality(Unread(v)) > 0
          /\ Cardinality(Unread(v)) \in Nat
      BY <1>1, <1>13, UnreadFacts
    <3>3. Unread(w)' = Unread(v) \ {u} /\ remaining[v] = Cardinality(Unread(v))
      BY <1>6, <1>13, <1>14, <2>1
    <3>4. Cardinality(Unread(w)') = Cardinality(Unread(v)) - 1
      BY <3>2, <3>3
    <3> QED
      BY <3>1, <3>2, <3>3, <3>4
  <2>2. CASE w # v
    <3>1. remaining'[w] = remaining[w]
      BY <1>2, <1>5, <2>2
    <3> QED
      BY <1>5, <1>13, <1>14, <2>2, <3>1
  <2> QED
    BY <2>1, <2>2
<1>16. chunks' \in Seq(ChunkState) /\ free' \in [FreeList -> Seq(Nat)]
  <2>1. value2place[v] \in Place
    BY <1>5, <1>6
  <2> QED
    BY <1>1, <1>2, <2>1, ConsumePlaceTyped
<1>17. TypeOK'
  <2>1. remaining' \in [Values(graph) -> Nat]
    BY <1>2, <1>5, <1>15
  <2>2. pos' \in Nat
    BY <1>2, <1>5
  <2> QED
    BY <1>1, <1>2, <1>3, <1>16, <2>1, <2>2 DEF TypeOK
<1>18. Standing'
  <2>1. Ins' = Ins
    BY <1>2, <1>3 DEF Ins, Kernel
  <2>2. pos' \in 1..(Len(post_transfers') + Len(Ins') + 1)
    BY <1>2, <1>4, <1>5, <1>6, <2>1
  <2> QED
    BY <1>2, <1>3, <1>4, <2>2 DEF Standing
<1>19. \A k : (Done(k)' <=> Done(k)) /\ (Emitted(k)' <=> Emitted(k))
  BY <1>1, <1>2, <1>3 DEF Done, Emitted
<1>20. Counts'
  <2>1. \A k \in Kernels(graph) : deps.preds[k] \subseteq Kernels(graph)
    BY <1>1, PredsFacts
  <2>2. \A k \in Kernels(graph) : ToCome(k)' = ToCome(k)
    BY <1>3, <1>19, <2>1 DEF ToCome
  <2>3. (\A k \in Kernels(graph) : pending[k] = Cardinality(ToCome(k)))'
    BY <1>1, <1>3, <2>2 DEF Counts
  <2>4. \A k \in Kernels(graph) : (\A p \in deps.preds[k] : Done(p)') <=> (\A p \in deps.preds[k] : Done(p))
    BY <1>19
  <2>5. (ready = {k \in Kernels(graph) : ~ info[k].scheduled /\ \A p \in deps.preds[k] : Done(p)})'
    BY <1>1, <1>3, <2>4 DEF Counts
  <2>6. (\A k \in Kernels(graph) : info[k].scheduled => \A p \in deps.preds[k] : Done(p))'
    BY <1>1, <1>3, <2>4 DEF Counts
  <2>7. (\A k \in Kernels(graph) : info[k].order <= Len(graph.kernels))'
    BY <1>1, <1>3 DEF Counts
  <2>8. (\A w \in Values(graph) : remaining[w] = Cardinality(Unread(w)))'
    BY <1>3, <1>15
  <2> QED
    BY <1>3, <2>3, <2>5, <2>6, <2>7, <2>8 DEF Counts
<1>21. KernelSteps'
  <2>1. NoKernelAdded
    BY <1>2, <1>5, NothingAdded
  <2>2. steps' \in Seq(StepType)
    BY <1>2, <1>5
  <2> QED
    BY <1>1, <1>3, <1>5, <1>19, <2>1, <2>2, KernelStepsStay
<1>22. Waits'
  BY <1>1, <1>2, <1>3, NotWaiting, WaitsStay
<1>23. Given'
  BY <1>1, <1>2, GivenStays
<1> QED
  BY <1>17, <1>18, <1>20, <1>21, <1>22, <1>23 DEF IInv

(* The kernel is done, and its consumers come one predecessor closer.        *)
LEMMA AdvanceReadyKeeps == IInv /\ AdvanceReady => IInv'
<1> SUFFICES ASSUME IInv, AdvanceReady PROVE IInv'
  OBVIOUS
<1>1. /\ Given /\ TypeOK /\ Standing /\ Counts /\ KernelSteps /\ Waits /\ ~ Binds /\ Busy /\ phase = "post"
  BY DEF IInv, AdvanceReady, Binds, Busy
<1>2. /\ pending' = [k \in Kernels(graph) |-> IF k \in deps.consumers[kid] THEN pending[k] - 1 ELSE pending[k]]
      /\ ready' = ready \cup {k \in deps.consumers[kid] : pending'[k] = 0}
      /\ phase' = "pick" /\ pos' = 1 /\ pos > Len(post_transfers) + Len(Ins)
      /\ UNCHANGED <<input, kid, bindings, post_transfers, chunks, free, value2place, remaining,
                     value_on_tier, info, load, next_event, steps>>
  BY DEF AdvanceReady, alloc
<1>3. UNCHANGED <<graph, deps, output_alias>> /\ ~ Binds' /\ ~ Busy' /\ StreamNow' = StreamNow
  BY <1>2 DEF input, Binds, Busy, StreamNow
<1>4. kid \in Kernels(graph) /\ Len(Ins) \in Nat /\ info[kid].scheduled
  BY <1>1, NowTyped DEF Standing
<1>5. pending \in [Kernels(graph) -> Nat] /\ ready \subseteq Kernels(graph) /\ pos \in Nat
      /\ post_transfers \in Seq([src : BindingType, dst : BindingType]) /\ steps \in Seq(StepType)
  BY <1>1 DEF TypeOK
<1>6. Len(post_transfers) \in Nat
  BY <1>5
<1>7. \A k : (Done(k)' <=> Done(k) \/ k = kid) /\ (Emitted(k)' <=> Emitted(k))
  BY <1>1, <1>2, <1>3, <1>4 DEF Done, Emitted
<1>8. ~ Done(kid)
  BY <1>1 DEF Done
<1>9. \A u \in Slots(graph) : Consumed(u)' <=> Consumed(u)
  <2> SUFFICES ASSUME NEW u \in Slots(graph) PROVE Consumed(u)' <=> Consumed(u)
    OBVIOUS
  <2>1. CASE u[1] # kid
    BY <1>2, <1>3, <2>1 DEF Consumed
  <2>2. CASE u[1] = kid
    <3>1. u[2] \in 1..Len(Ins)
      BY <1>1, <2>2, SlotsAreCounted DEF Ins, Kernel
    <3>2. u[2] < pos - Len(post_transfers)
      BY <1>2, <1>4, <1>5, <1>6, <3>1
    <3> QED
      BY <1>1, <1>2, <1>3, <1>4, <2>2, <3>2 DEF Consumed
  <2> QED
    BY <2>1, <2>2
<1>10. \A k \in Kernels(graph) : deps.preds[k] \subseteq Kernels(graph) /\ IsFiniteSet(deps.preds[k])
  BY <1>1, PredsFacts
<1>11. deps.consumers[kid] = {c \in Kernels(graph) : kid \in deps.preds[c]}
  BY <1>1, <1>4, PredsFacts
<1>12. \A k \in Kernels(graph) : ToCome(k)' = ToCome(k) \ {kid} /\ IsFiniteSet(ToCome(k))
  <2> SUFFICES ASSUME NEW k \in Kernels(graph)
               PROVE  ToCome(k)' = ToCome(k) \ {kid} /\ IsFiniteSet(ToCome(k))
    OBVIOUS
  <2>1. ToCome(k)' = ToCome(k) \ {kid}
    BY <1>3, <1>7 DEF ToCome
  <2>2. ToCome(k) \subseteq deps.preds[k]
    BY DEF ToCome
  <2> QED
    BY <1>10, <2>1, <2>2, FS_Subset
<1>13. \A k \in Kernels(graph) : pending[k] = Cardinality(ToCome(k))
  BY <1>1 DEF Counts
<1>14. \A k \in Kernels(graph) : pending'[k] = Cardinality(ToCome(k)') /\ pending'[k] \in Nat
  <2> SUFFICES ASSUME NEW k \in Kernels(graph)
               PROVE  pending'[k] = Cardinality(ToCome(k)') /\ pending'[k] \in Nat
    OBVIOUS
  <2>1. Cardinality(ToCome(k)) \in Nat /\ Cardinality(ToCome(k)') \in Nat
    <3>1. IsFiniteSet(ToCome(k)) /\ IsFiniteSet(ToCome(k) \ {kid})
      BY <1>12, FS_Subset
    <3> QED
      BY <1>12, <3>1, FS_CardinalityType
  <2>2. CASE kid \in deps.preds[k]
    <3>1. kid \in ToCome(k)
      BY <1>8, <2>2 DEF ToCome
    <3>2. Cardinality(ToCome(k)') = Cardinality(ToCome(k)) - 1
      BY <1>12, <3>1, FS_RemoveElement
    <3>3. pending'[k] = pending[k] - 1
      BY <1>2, <1>11, <2>2
    <3> QED
      BY <1>13, <2>1, <3>2, <3>3
  <2>3. CASE kid \notin deps.preds[k]
    <3>1. ToCome(k)' = ToCome(k)
      BY <1>12, <2>3 DEF ToCome
    <3>2. pending'[k] = pending[k]
      BY <1>2, <1>11, <2>3
    <3> QED
      BY <1>13, <2>1, <3>1, <3>2
  <2> QED
    BY <2>2, <2>3
<1>15. \A k \in Kernels(graph) : pending'[k] = 0 <=> \A p \in deps.preds[k] : Done(p)'
  <2> SUFFICES ASSUME NEW k \in Kernels(graph)
               PROVE  pending'[k] = 0 <=> \A p \in deps.preds[k] : Done(p)'
    OBVIOUS
  <2>1. IsFiniteSet(ToCome(k)')
    BY <1>12, FS_Subset
  <2>2. pending'[k] = 0 <=> ToCome(k)' = {}
    BY <1>14, <2>1, FS_EmptySet
  <2> QED
    BY <1>3, <2>2 DEF ToCome
<1>16. ready = {k \in Kernels(graph) : ~ info[k].scheduled /\ \A p \in deps.preds[k] : Done(p)}
       /\ \A k \in Kernels(graph) : info[k].scheduled => \A p \in deps.preds[k] : Done(p)
  BY <1>1 DEF Counts
<1>17. ready' = {k \in Kernels(graph) : ~ info[k].scheduled /\ \A p \in deps.preds[k] : Done(p)'}
  <2>1. ASSUME NEW k \in ready' PROVE k \in Kernels(graph) /\ ~ info[k].scheduled /\ \A p \in deps.preds[k] : Done(p)'
    <3>1. CASE k \in ready
      BY <1>7, <1>16, <3>1
    <3>2. CASE k \in deps.consumers[kid] /\ pending'[k] = 0
      BY <1>8, <1>11, <1>15, <1>16, <3>2
    <3> QED
      BY <1>2, <2>1, <3>1, <3>2
  <2>2. ASSUME NEW k \in Kernels(graph), ~ info[k].scheduled, \A p \in deps.preds[k] : Done(p)'
        PROVE  k \in ready'
    <3>1. CASE kid \in deps.preds[k]
      BY <1>2, <1>11, <1>15, <2>2, <3>1
    <3>2. CASE kid \notin deps.preds[k]
      BY <1>2, <1>7, <1>16, <2>2, <3>2
    <3> QED
      BY <3>1, <3>2
  <2> QED
    BY <2>1, <2>2
<1>18. TypeOK'
  <2>1. pending' \in [Kernels(graph) -> Nat]
    BY <1>2, <1>14
  <2>2. ready' \subseteq Kernels(graph)
    BY <1>17
  <2> QED
    BY <1>1, <1>2, <1>3, <2>1, <2>2 DEF TypeOK
<1>19. Standing'
  BY <1>2, <1>3 DEF Standing
<1>20. Counts'
  <2>1. (\A k \in Kernels(graph) : pending[k] = Cardinality(ToCome(k)))'
    BY <1>3, <1>14
  <2>2. (ready = {k \in Kernels(graph) : ~ info[k].scheduled /\ \A p \in deps.preds[k] : Done(p)})'
    BY <1>2, <1>3, <1>17
  <2>3. (\A k \in Kernels(graph) : info[k].scheduled => \A p \in deps.preds[k] : Done(p))'
    BY <1>2, <1>3, <1>7, <1>16
  <2>4. (\A k \in Kernels(graph) : info[k].order <= Len(graph.kernels))'
    BY <1>1, <1>2, <1>3 DEF Counts
  <2>5. (\A v \in Values(graph) : remaining[v] = Cardinality(Unread(v)))'
    <3>1. \A v : Unread(v)' = Unread(v)
      BY <1>3, <1>9 DEF Unread
    <3> QED
      BY <1>1, <1>2, <1>3, <3>1 DEF Counts
  <2>6. phase' # "planned"
    BY <1>2
  <2> QED
    BY <2>1, <2>2, <2>3, <2>4, <2>5, <2>6 DEF Counts
<1>21. KernelSteps'
  <2>1. NoKernelAdded
    BY <1>2, <1>5, NothingAdded
  <2>2. steps' \in Seq(StepType)
    BY <1>2, <1>5
  <2> QED
    BY <1>1, <1>2, <1>3, <1>5, <1>7, <2>1, <2>2, KernelStepsStay
<1>22. Waits'
  BY <1>1, <1>2, <1>3, NotWaiting, WaitsStay
<1>23. Given'
  BY <1>1, <1>2, GivenStays
<1> QED
  BY <1>18, <1>19, <1>20, <1>21, <1>22, <1>23 DEF IInv

-----------------------------------------------------------------------------
(* The end of run, and the choice of the next kernel. *)

(* A graph output is transferred to its buffer, or is there already.         *)
LEMMA FinalizeOutputKeeps == IInv /\ FinalizeOutput => IInv'
<1> SUFFICES ASSUME IInv, FinalizeOutput PROVE IInv'
  OBVIOUS
<1>0. PICK v, p : v = graph.outputs[pos] /\ p = deps.producer[v]
  OBVIOUS
<1> DEFINE dev == IF p = NoKernel THEN "CPU" ELSE graph.kernels[p].dev
           s   == IF p = NoKernel THEN 0 ELSE info[p].stream
           src == Binding(v, "Input", value2place[v])
           dst == Binding(v, "Output", OutputPlace(v))
           x   == Transfer(dev, s, next_event, src, dst)
<1>1. /\ Given /\ TypeOK /\ Standing /\ Counts /\ KernelSteps /\ Waits /\ ~ Binds /\ ~ Busy /\ phase = "pick"
  BY DEF IInv, FinalizeOutput, Binds, Busy
<1>2. /\ \/ UNCHANGED <<steps, next_event>>
         \/ steps' = Append(steps, x) /\ next_event' = next_event + 1
      /\ pos <= Len(graph.outputs) /\ pos' = pos + 1
      /\ UNCHANGED <<input, phase, kid, bindings, post_transfers, chunks, free, value2place, remaining,
                     value_on_tier, order>>
  BY <1>0, Zenon DEF FinalizeOutput, alloc
<1>3. /\ UNCHANGED <<graph, deps, output_alias, info, pending, ready, load>>
      /\ ~ Binds' /\ ~ Busy' /\ phase' = "pick" /\ phase' # "planned"
  BY <1>1, <1>2 DEF input, order, Binds, Busy
<1>4. steps \in Seq(StepType) /\ next_event \in Nat /\ pos \in Nat /\ value2place \in [Values(graph) -> Place]
      /\ info \in [Kernels(graph) -> [order : Nat, stream : Stream, event : Nat, scheduled : BOOLEAN]]
  BY <1>1 DEF TypeOK
<1>5. steps' \in Seq(StepType) /\ next_event' \in Nat /\ NoKernelAdded /\ Waits'
  <2>1. CASE UNCHANGED <<steps, next_event>>
    BY <1>1, <1>2, <1>3, <1>4, <2>1, NotWaiting, NothingAdded, WaitsStay
  <2>2. CASE steps' = Append(steps, x) /\ next_event' = next_event + 1
    <3>1. x \in StepType
      <4>1. graph.outputs \in Seq(Values(graph))
        BY <1>1, GraphTyped DEF GraphType
      <4>2. v \in Values(graph)
        BY <1>0, <1>1, <1>2, <1>4, <4>1 DEF Standing
      <4>3. p \in Kernels(graph) \cup {NoKernel}
        BY <1>0, <1>1, <4>2 DEF Given, Deps, Producer
      <4>4. NoKernel \notin Kernels(graph) /\ Values(graph) \subseteq Nat
        BY <1>1, GraphTyped, ValuesFinite DEF NoKernel
      <4>5. dev \in Device
        BY <1>1, <4>3, KernelTyped DEF Device
      <4>6. s \in Stream
        BY <1>4, <4>3, StreamAssumption
      <4>7. src \in BindingType /\ dst \in BindingType
        BY <1>1, <1>4, <4>2, <4>4, PlacesTyped
      <4> HIDE DEF dev, s, src, dst
      <4> QED
        BY <1>4, <4>5, <4>6, <4>7, StepsTyped
    <3>2. x.kind = "Transfer"
      BY DEF Transfer
    <3> HIDE DEF x
    <3>3. x.kind # "SyncWait" /\ ~ (steps # <<>> /\ steps[Len(steps)].kind = "SyncWait")
      BY <1>1, <3>2, NotWaiting
    <3>4. Waits'
      BY <1>1, <1>2, <1>3, <1>4, <2>2, <3>3, WaitsAppend
    <3> QED
      BY <1>4, <2>2, <3>1, <3>2, <3>4, StepAdded
  <2> QED
    BY <1>2, <2>1, <2>2
<1>6. TypeOK'
  BY <1>1, <1>2, <1>3, <1>4, <1>5 DEF TypeOK
<1>7. Standing'
  BY <1>2, <1>3, <1>4 DEF Standing, Binds, Busy
<1>8. /\ \A k : (Done(k)' <=> Done(k)) /\ (Emitted(k)' <=> Emitted(k))
      /\ \A u : Consumed(u)' <=> Consumed(u)
  BY <1>1, <1>2, <1>3 DEF Done, Emitted, Consumed
<1>9. Counts'
  BY <1>1, <1>2, <1>3, <1>8, CountsStay
<1>10. KernelSteps'
  BY <1>1, <1>3, <1>4, <1>5, <1>8, KernelStepsStay
<1>11. Given'
  BY <1>1, <1>2, GivenStays
<1> QED
  BY <1>5, <1>6, <1>7, <1>9, <1>10, <1>11 DEF IInv

LEMMA FinishPlanKeeps == IInv /\ FinishPlan => IInv'
<1> SUFFICES ASSUME IInv, FinishPlan PROVE IInv'
  OBVIOUS
<1>1. /\ Given /\ TypeOK /\ Standing /\ Counts /\ KernelSteps /\ Waits /\ ~ Binds /\ ~ Busy /\ phase = "pick"
      /\ ready = {}
  BY DEF IInv, FinishPlan, Binds, Busy
<1>2. /\ phase' = "planned"
      /\ UNCHANGED <<input, kid, pos, bindings, post_transfers, chunks, free, value2place, remaining,
                     value_on_tier, order, next_event, steps>>
  BY DEF FinishPlan, alloc
<1>3. UNCHANGED <<graph, deps, output_alias, info, pending, ready, load>> /\ ~ Binds' /\ ~ Busy'
  BY <1>2 DEF input, order, Binds, Busy
<1>4. TypeOK'
  BY <1>1, <1>2, <1>3 DEF TypeOK
<1>5. Standing'
  BY <1>2, <1>3 DEF Standing
<1>6. /\ \A k : (Done(k)' <=> Done(k)) /\ (Emitted(k)' <=> Emitted(k))
      /\ \A u : Consumed(u)' <=> Consumed(u)
  BY <1>1, <1>2, <1>3 DEF Done, Emitted, Consumed
<1>7. Counts'
  BY <1>1, <1>2, <1>3, <1>6, CountsStay
<1>8. KernelSteps'
  <2>1. steps \in Seq(StepType) /\ steps' \in Seq(StepType)
    BY <1>1, <1>2 DEF TypeOK
  <2>2. NoKernelAdded
    BY <1>2, <2>1, NothingAdded
  <2> QED
    BY <1>1, <1>3, <1>6, <2>1, <2>2, KernelStepsStay
<1>9. Waits'
  BY <1>1, <1>2, <1>3, NotWaiting, WaitsStay
<1>10. Given'
  BY <1>1, <1>2, GivenStays
<1> QED
  BY <1>4, <1>5, <1>7, <1>8, <1>9, <1>10 DEF IInv

(* A kernel runs on a stream there is (pick_stream).                         *)
LEMMA PickStreamTyped ==
  ASSUME Given, TypeOK, Counts, NEW k \in Kernels(graph)
  PROVE  PickStream(k) \in Stream
<1> DEFINE latest == CHOOSE p \in deps.preds[k] : \A q \in deps.preds[k] : info[q].order <= info[p].order
           idx    == 0..(StreamCount(graph) - 1)
           least  == CHOOSE s \in idx : \A r \in idx : load[s] < load[r] \/ (load[s] = load[r] /\ s <= r)
<1>1. info \in [Kernels(graph) -> [order : Nat, stream : Stream, event : Nat, scheduled : BOOLEAN]]
      /\ load \in [Stream -> Nat]
  BY DEF TypeOK
<1>2. deps.preds[k] \subseteq Kernels(graph)
  BY PredsFacts
<1>3. CASE deps.preds[k] # {}
  <2> DEFINE S == {Len(graph.kernels) - info[p].order : p \in deps.preds[k]}
  <2>1. Len(graph.kernels) \in Nat /\ \A p \in deps.preds[k] : info[p].order \in Nat /\ info[p].order <= Len(graph.kernels)
    BY <1>1, <1>2, GraphTyped DEF Counts
  <2>2. S \in SUBSET Nat /\ S # {}
    BY <1>3, <2>1
  <2>3. PICK n \in S : \A m \in S : n <= m
    BY <2>2, LeastNatural
  <2>4. PICK p \in deps.preds[k] : n = Len(graph.kernels) - info[p].order
    BY <2>3
  <2>5. \A q \in deps.preds[k] : info[q].order <= info[p].order
    <3> SUFFICES ASSUME NEW q \in deps.preds[k] PROVE info[q].order <= info[p].order
      OBVIOUS
    <3>1. n <= Len(graph.kernels) - info[q].order
      BY <2>3
    <3> QED
      BY <2>1, <2>4, <3>1
  <2>6. latest \in deps.preds[k]
    BY <2>5
  <2>7. info[latest].stream \in Stream
    <3> HIDE DEF latest
    <3> QED
      BY <1>1, <1>2, <2>6
  <2> QED
    BY <1>3, <2>7 DEF PickStream
<1>4. CASE deps.preds[k] = {}
  <2>1. NumStreams \in Nat \ {0} /\ Stream = 0..(NumStreams - 1)
    BY StreamAssumption
  <2>2. StreamCount(graph) \in 1..NumStreams
    BY <2>1 DEF StreamCount
  <2>3. idx \subseteq Stream /\ idx \subseteq Nat /\ 0 \in idx
    BY <2>1, <2>2
  <2> HIDE DEF idx
  <2> DEFINE S == {load[s] : s \in idx}
  <2>4. S \in SUBSET Nat /\ S # {}
    BY <1>1, <2>3
  <2>5. PICK n \in S : \A m \in S : n <= m
    BY <2>4, LeastNatural
  <2> DEFINE U == {s \in idx : load[s] = n}
  <2>6. U \in SUBSET Nat /\ U # {}
    BY <2>3, <2>5
  <2>7. PICK s \in U : \A r \in U : s <= r
    BY <2>6, LeastNatural
  <2>8. \A r \in idx : load[s] < load[r] \/ (load[s] = load[r] /\ s <= r)
    <3> SUFFICES ASSUME NEW r \in idx PROVE load[s] < load[r] \/ (load[s] = load[r] /\ s <= r)
      OBVIOUS
    <3>1. load[s] = n /\ n <= load[r] /\ load[r] \in Nat /\ n \in Nat
      BY <1>1, <2>3, <2>4, <2>5, <2>7
    <3>2. load[r] = n => s <= r
      BY <2>7
    <3> QED
      BY <3>1, <3>2
  <2>9. least \in idx
    BY <2>7, <2>8
  <2> QED
    BY <1>4, <2>3, <2>9 DEF PickStream, idx
<1> QED
  BY <1>3, <1>4

(* What is emitted before a kernel: waits on its stream for events of its    *)
(* predecessors (schedule_kernel).                                           *)
LEMMA WaitsForFacts ==
  ASSUME Given, TypeOK, NEW k \in Kernels(graph), NEW s \in Stream, NEW waits \in WaitsFor(k, s)
  PROVE  /\ waits \in Seq(StepType)
         /\ \A i \in 1..Len(waits) : /\ waits[i].kind = "SyncWait" /\ waits[i].stream = s /\ waits[i].bindings = <<>>
                                     /\ \E p \in deps.preds[k] : waits[i].event = info[p].event
<1> DEFINE others == {p \in deps.preds[k] : info[p].stream # s}
           n == Cardinality(others)
           W(f) == [i \in DOMAIN f |-> SyncWait(graph.kernels[k].dev, s, info[f[i]].event)]
<1>1. PICK f \in [1..n -> others] : waits = W(f)
  BY Zenon DEF WaitsFor
<1>2. n \in Nat
  <2>1. deps.preds[k] \subseteq Kernels(graph) /\ IsFiniteSet(deps.preds[k])
    BY PredsFacts
  <2>2. IsFiniteSet(others)
    BY <2>1, FS_Subset
  <2> QED
    BY <2>2, FS_CardinalityType
<1> HIDE DEF n
<1>3. \A p \in others : p \in deps.preds[k] /\ info[p].event \in Nat
  <2>1. deps.preds[k] \subseteq Kernels(graph)
    BY PredsFacts
  <2> QED
    BY <2>1 DEF TypeOK
<1> HIDE DEF others
<1>4. \A i \in 1..n : f[i] \in others
  OBVIOUS
<1>5. waits = [i \in 1..n |-> SyncWait(graph.kernels[k].dev, s, info[f[i]].event)]
  BY <1>1
<1>6. \A i \in 1..n : /\ waits[i] \in StepType /\ waits[i].kind = "SyncWait" /\ waits[i].stream = s /\ waits[i].bindings = <<>>
                      /\ waits[i].event = info[f[i]].event
  <2> SUFFICES ASSUME NEW i \in 1..n
               PROVE  /\ waits[i] \in StepType /\ waits[i].kind = "SyncWait" /\ waits[i].stream = s /\ waits[i].bindings = <<>>
                      /\ waits[i].event = info[f[i]].event
    OBVIOUS
  <2>1. graph.kernels[k].dev \in Device /\ info[f[i]].event \in Nat
    BY <1>3, <1>4, KernelTyped
  <2>2. waits[i] = SyncWait(graph.kernels[k].dev, s, info[f[i]].event)
    BY <1>5
  <2>3. waits[i] \in StepType
    BY <2>1, <2>2, StepsTyped
  <2> QED
    BY <2>2, <2>3 DEF SyncWait
<1>7. waits \in [1..n -> StepType]
  BY <1>5, <1>6
<1>8. waits \in Seq(StepType) /\ Len(waits) = n
  BY <1>2, <1>7
<1> QED
  BY <1>3, <1>4, <1>6, <1>8

(* Two sequences one after the other.                                        *)
LEMMA Joined ==
  ASSUME NEW A, NEW p \in Seq(A), NEW q \in Seq(A)
  PROVE  /\ p \o q \in Seq(A) /\ Len(p) \in Nat /\ Len(q) \in Nat
         /\ DOMAIN p = 1..Len(p) /\ DOMAIN (p \o q) = 1..(Len(p) + Len(q)) /\ Len(p \o q) = Len(p) + Len(q)
         /\ \A i \in 1..Len(p) : (p \o q)[i] = p[i]
         /\ \A i \in 1..(Len(p) + Len(q)) : i > Len(p) => i - Len(p) \in 1..Len(q) /\ (p \o q)[i] = q[i - Len(p)]
  OBVIOUS

(* The waits are all that is added: every one names an event that is         *)
(* recorded, and they stand on the stream of the kernel they are for.        *)
LEMMA WaitsJoined ==
  ASSUME Waits, ~ Binds, Binds', steps \in Seq(StepType), NEW q \in Seq(StepType), steps' = steps \o q,
         \A i \in 1..Len(q) : /\ q[i].kind = "SyncWait" /\ q[i].stream = StreamNow'
                              /\ \E j \in DOMAIN steps : Records(j, q[i].event),
         UNCHANGED <<graph, value_on_tier>>
  PROVE  Waits'
<1>0. PICK n, m : n = Len(steps) /\ m = Len(q)
  OBVIOUS
<1>1. /\ n \in Nat /\ m \in Nat /\ DOMAIN steps = 1..n /\ DOMAIN steps' = 1..(n + m) /\ Len(steps') = n + m
      /\ (\A i \in 1..n : steps'[i] = steps[i])
      /\ \A i \in 1..(n + m) : i > n => i - n \in 1..m /\ steps'[i] = q[i - n]
  BY <1>0, Joined, Zenon
<1>2. \A i \in 1..(n + m) : i > n => /\ steps'[i].kind = "SyncWait" /\ steps'[i].stream = StreamNow'
                                      /\ \E j \in 1..n : Records(j, steps'[i].event)
  BY <1>0, <1>1
<1>3. n = 0 \/ steps[n].kind # "SyncWait"
  BY <1>0, <1>1, NotWaiting
<1>4. \A i \in 1..n : \A e : Records(i, e)' <=> Records(i, e)
  BY <1>1 DEF Records
<1>5. (\A x \in Values(graph) \X Tier : value_on_tier[x].place # NoPlace =>
         \E i \in DOMAIN steps : Records(i, value_on_tier[x].event))'
  <2> SUFFICES ASSUME NEW x \in Values(graph) \X Tier, value_on_tier[x].place # NoPlace
               PROVE  \E i \in DOMAIN steps' : Records(i, value_on_tier[x].event)'
    OBVIOUS
  <2>1. PICK i \in 1..n : Records(i, value_on_tier[x].event)
    BY <1>1 DEF Waits
  <2>2. Records(i, value_on_tier[x].event)' /\ i \in DOMAIN steps'
    BY <1>1, <2>1 DEF Records
  <2> QED
    BY <2>2
<1>6. ASSUME NEW i \in DOMAIN steps', steps'[i].kind = "SyncWait"
      PROVE  /\ \E j \in 1..(i - 1) : steps'[j].kind # "SyncWait" /\ steps'[j].event = steps'[i].event
             /\ \A j \in (i + 1)..Len(steps') :
                  (\A l \in (i + 1)..(j - 1) : steps'[l].kind = "SyncWait") => steps'[j].stream = steps'[i].stream
  <2>1. CASE i > n
    <3>1. PICK j \in 1..n : Records(j, steps'[i].event)
      BY <1>1, <1>2, <1>6, <2>1
    <3>2. j \in 1..(i - 1) /\ steps'[j].kind # "SyncWait" /\ steps'[j].event = steps'[i].event
      BY <1>1, <2>1, <3>1 DEF Records
    <3>3. \A d \in (i + 1)..Len(steps') : steps'[d].stream = steps'[i].stream
      <4> SUFFICES ASSUME NEW d \in (i + 1)..Len(steps') PROVE steps'[d].stream = steps'[i].stream
        OBVIOUS
      <4>1. i \in 1..(n + m) /\ d \in 1..(n + m) /\ d > n
        BY <1>1, <2>1
      <4> QED
        BY <1>2, <2>1, <4>1
    <3> QED
      BY <3>2, <3>3
  <2>2. CASE ~ (i > n)
    <3>1. i \in 1..n /\ steps'[i] = steps[i] /\ i # n /\ steps[i].kind = "SyncWait"
      BY <1>1, <1>3, <1>6, <2>2
    <3>2. PICK j \in 1..(i - 1) : steps[j].kind # "SyncWait" /\ steps[j].event = steps[i].event
      BY <1>1, <3>1 DEF Waits, WaitsWellPlaced
    <3>3. steps'[j] = steps[j]
      BY <1>1, <3>1
    <3>4. ASSUME NEW d \in (i + 1)..Len(steps'), \A l \in (i + 1)..(d - 1) : steps'[l].kind = "SyncWait"
          PROVE  steps'[d].stream = steps'[i].stream
      <4>1. n \in 1..n /\ n \in (i + 1)..n
        BY <1>1, <3>1
      <4>2. d <= n
        <5> SUFFICES ASSUME d > n PROVE FALSE
          BY <1>1, <3>1
        <5>1. n \in (i + 1)..(d - 1)
          BY <1>1, <3>1
        <5>2. steps'[n].kind = "SyncWait"
          BY <3>4, <5>1
        <5> QED
          BY <1>1, <1>3, <4>1, <5>2
      <4>3. d \in (i + 1)..Len(steps) /\ d \in 1..n
        BY <1>0, <1>1, <3>1, <4>2
      <4>4. \A l \in (i + 1)..(d - 1) : steps[l].kind = "SyncWait"
        <5> SUFFICES ASSUME NEW l \in (i + 1)..(d - 1) PROVE steps[l].kind = "SyncWait"
          OBVIOUS
        <5>1. l \in 1..n
          BY <1>1, <3>1, <4>2
        <5> QED
          BY <1>1, <3>4, <5>1
      <4>5. steps[d].stream = steps[i].stream
        BY <1>1, <3>1, <4>3, <4>4 DEF Waits, WaitsWellPlaced
      <4> QED
        BY <1>1, <3>1, <4>3, <4>5
    <3> QED
      BY <3>1, <3>2, <3>3, <3>4
  <2> QED
    BY <2>1, <2>2
<1>7. WaitsWellPlaced'
  BY <1>6 DEF WaitsWellPlaced
<1>8. steps' # <<>> /\ steps'[Len(steps')].kind = "SyncWait" => Binds' /\ steps'[Len(steps')].stream = StreamNow'
  <2> SUFFICES ASSUME steps' # <<>>, steps'[Len(steps')].kind = "SyncWait"
               PROVE  steps'[Len(steps')].stream = StreamNow'
    OBVIOUS
  <2>1. n + m # 0
    <3>1. steps' \in Seq(StepType) /\ (Len(steps') = 0 => steps' = <<>>)
      BY Joined
    <3> QED
      BY <1>1, <3>1
  <2>2. n + m \in 1..(n + m) /\ (n + m > n \/ n + m = n)
    BY <1>1, <2>1
  <2> QED
    BY <1>1, <1>2, <1>3, <2>1, <2>2
<1> QED
  BY <1>5, <1>7, <1>8 DEF Waits

(* The best ready kernel gets its stream and its event, and waits for its    *)
(* predecessors.                                                             *)
LEMMA PickKernelKeeps == IInv /\ PickKernel => IInv'
<1> SUFFICES ASSUME IInv, PickKernel PROVE IInv'
  OBVIOUS
<1>1. /\ Given /\ TypeOK /\ Standing /\ Counts /\ KernelSteps /\ Waits /\ ~ Binds /\ ~ Busy /\ phase = "pick"
  BY DEF IInv, PickKernel, Binds, Busy
<1>2. PICK k \in ready : \E waits \in WaitsFor(k, PickStream(k)) :
        /\ kid' = k /\ ready' = ready \ {k} /\ load' = [load EXCEPT ![PickStream(k)] = @ + 1]
        /\ info' = [info EXCEPT ![k] = [order |-> Cardinality({j \in Kernels(graph) : info[j].scheduled}),
                                        stream |-> PickStream(k), event |-> next_event, scheduled |-> TRUE]]
        /\ steps' = steps \o waits
  BY Zenon DEF PickKernel
<1>3. PICK s : s = PickStream(k)
  OBVIOUS
<1>4. PICK num : num = Cardinality({j \in Kernels(graph) : info[j].scheduled})
  OBVIOUS
<1>5. PICK waits \in WaitsFor(k, s) :
        /\ kid' = k /\ ready' = ready \ {k} /\ load' = [load EXCEPT ![s] = @ + 1]
        /\ info' = [info EXCEPT ![k] = [order |-> num, stream |-> s, event |-> next_event, scheduled |-> TRUE]]
        /\ steps' = steps \o waits
  BY <1>2, <1>3, <1>4
<1>6. /\ next_event' = next_event + 1 /\ phase' = "bind" /\ pos' = 1 /\ bindings' = <<>> /\ post_transfers' = <<>>
      /\ UNCHANGED <<graph, deps, output_alias, chunks, free, value2place, remaining, value_on_tier, pending>>
  BY DEF PickKernel, input, alloc
<1>7. ready = {j \in Kernels(graph) : ~ info[j].scheduled /\ \A p \in deps.preds[j] : Done(p)}
      /\ \A j \in Kernels(graph) : info[j].scheduled => \A p \in deps.preds[j] : Done(p)
  BY <1>1 DEF Counts
<1>8. k \in Kernels(graph) /\ ~ info[k].scheduled /\ s \in Stream
  BY <1>1, <1>3, <1>7, PickStreamTyped
<1>9. /\ info \in [Kernels(graph) -> [order : Nat, stream : Stream, event : Nat, scheduled : BOOLEAN]]
      /\ load \in [Stream -> Nat] /\ next_event \in Nat /\ steps \in Seq(StepType)
  BY <1>1 DEF TypeOK
<1>10. num \in Nat /\ num <= Len(graph.kernels)
  <2>1. IsFiniteSet(Kernels(graph)) /\ Cardinality(Kernels(graph)) = Len(graph.kernels)
    BY <1>1, KernelsFinite
  <2>2. {j \in Kernels(graph) : info[j].scheduled} \subseteq Kernels(graph)
    OBVIOUS
  <2> QED
    BY <1>4, <2>1, <2>2, FS_Subset, FS_CardinalityType
<1>11. /\ \A j \in Kernels(graph) : j # k => info'[j] = info[j]
       /\ info'[k] = [order |-> num, stream |-> s, event |-> next_event, scheduled |-> TRUE]
  BY <1>5, <1>8, <1>9
<1>12. info' \in [Kernels(graph) -> [order : Nat, stream : Stream, event : Nat, scheduled : BOOLEAN]]
  BY <1>5, <1>8, <1>9, <1>10
<1>13. Binds' /\ Busy' /\ StreamNow' = s
  BY <1>5, <1>6, <1>11 DEF Binds, Busy, StreamNow
<1>14. \A j \in Kernels(graph) : (Done(j)' <=> Done(j)) /\ (Emitted(j)' <=> Emitted(j)) /\ (Done(j) => Emitted(j))
  <2> SUFFICES ASSUME NEW j \in Kernels(graph)
               PROVE  (Done(j)' <=> Done(j)) /\ (Emitted(j)' <=> Emitted(j)) /\ (Done(j) => Emitted(j))
    OBVIOUS
  <2>1. CASE j = k
    BY <1>5, <1>8, <1>13, <2>1 DEF Done, Emitted
  <2>2. CASE j # k
    BY <1>1, <1>5, <1>11, <2>2 DEF Done, Emitted
  <2> QED
    BY <2>1, <2>2
<1>15. \A u \in Slots(graph) : Consumed(u)' <=> Consumed(u)
  <2> SUFFICES ASSUME NEW u \in Slots(graph) PROVE Consumed(u)' <=> Consumed(u)
    OBVIOUS
  <2>1. u[1] \in Kernels(graph)
    BY <1>1, SlotsAreCounted
  <2>2. CASE u[1] = k
    BY <1>5, <1>8, <1>13, <2>2 DEF Consumed
  <2>3. CASE u[1] # k
    BY <1>1, <1>5, <1>6, <1>11, <2>1, <2>3 DEF Consumed
  <2> QED
    BY <2>2, <2>3
<1>16. waits \in Seq(StepType) /\ \A i \in 1..Len(waits) : /\ waits[i].kind = "SyncWait" /\ waits[i].stream = s
         /\ \E p \in deps.preds[k] : waits[i].event = info[p].event
  <2>1. Given /\ TypeOK /\ k \in Kernels(graph) /\ s \in Stream /\ waits \in WaitsFor(k, s)
    BY <1>1, <1>5, <1>8
  <2> QED
    BY <2>1, WaitsForFacts
<1>17. steps' \in Seq(StepType) /\ NoKernelAdded
  <2>1. /\ steps' \in Seq(StepType) /\ Len(steps') = Len(steps) + Len(waits) /\ Len(steps) \in Nat /\ Len(waits) \in Nat
        /\ \A i \in 1..Len(steps) : steps'[i] = steps[i]
        /\ \A i \in 1..(Len(steps) + Len(waits)) : i > Len(steps) =>
              i - Len(steps) \in 1..Len(waits) /\ steps'[i] = waits[i - Len(steps)]
    BY <1>5, <1>9, <1>16, Joined
  <2> QED
    BY <1>16, <2>1 DEF NoKernelAdded
<1>18. TypeOK'
  <2>1. load' \in [Stream -> Nat]
    BY <1>5, <1>8, <1>9
  <2>2. ready' \subseteq Kernels(graph) /\ kid' \in Kernels(graph) /\ pos' \in Nat /\ next_event' \in Nat
    BY <1>5, <1>6, <1>7, <1>8, <1>9
  <2>3. bindings' \in Seq(BindingType) /\ post_transfers' \in Seq([src : BindingType, dst : BindingType])
    BY <1>6
  <2> QED
    BY <1>1, <1>6, <1>12, <1>17, <2>1, <2>2, <2>3 DEF TypeOK
<1>19. Standing'
  <2>1. kid' \in Kernels(graph') /\ info'[kid'].scheduled
    BY <1>5, <1>6, <1>8, <1>11
  <2>2. Len(Ins') \in Nat /\ Len(Outs') \in Nat
    BY <1>1, <1>5, <1>6, <1>8, KernelTyped DEF Ins, Outs, Kernel
  <2>3. pos' \in 1..(Len(Ins') + Len(Outs') + 1) /\ Len(bindings') = pos' - 1 /\ DOMAIN bindings' = {}
    BY <1>6, <2>2
  <2> QED
    BY <1>6, <2>1, <2>3 DEF Standing
<1>20. Counts'
  <2>1. \A j \in Kernels(graph) : deps.preds[j] \subseteq Kernels(graph)
    BY <1>1, PredsFacts
  <2>2. (\A j \in Kernels(graph) : pending[j] = Cardinality(ToCome(j)))'
    <3>1. \A j \in Kernels(graph) : ToCome(j)' = ToCome(j)
      BY <1>6, <1>14, <2>1 DEF ToCome
    <3> QED
      BY <1>1, <1>6, <3>1 DEF Counts
  <2>3. \A j \in Kernels(graph) : (\A p \in deps.preds[j] : Done(p)') <=> (\A p \in deps.preds[j] : Done(p))
    BY <1>14, <2>1
  <2>4. (ready = {j \in Kernels(graph) : ~ info[j].scheduled /\ \A p \in deps.preds[j] : Done(p)})'
    <3>1. \A j \in Kernels(graph) : info'[j].scheduled <=> info[j].scheduled \/ j = k
      BY <1>11
    <3>2. ready' = {j \in Kernels(graph) : ~ info'[j].scheduled /\ \A p \in deps.preds[j] : Done(p)'}
      BY <1>5, <1>7, <2>3, <3>1
    <3> QED
      BY <1>6, <3>2
  <2>5. (\A j \in Kernels(graph) : info[j].scheduled => \A p \in deps.preds[j] : Done(p))'
    <3> SUFFICES ASSUME NEW j \in Kernels(graph), info'[j].scheduled PROVE \A p \in deps.preds[j] : Done(p)'
      BY <1>6
    <3>1. \A p \in deps.preds[j] : Done(p)
      BY <1>7, <1>11
    <3> QED
      BY <2>3, <3>1
  <2>6. (\A j \in Kernels(graph) : info[j].order <= Len(graph.kernels))'
    <3>1. \A j \in Kernels(graph) : info[j].order <= Len(graph.kernels)
      BY <1>1 DEF Counts
    <3>2. info'[k].order = num
      BY <1>11
    <3> QED
      BY <1>6, <1>10, <1>11, <3>1, <3>2
  <2>7. (\A v \in Values(graph) : remaining[v] = Cardinality(Unread(v)))'
    <3>1. \A v : Unread(v)' = Unread(v)
      BY <1>6, <1>15 DEF Unread
    <3> QED
      BY <1>1, <1>6, <3>1 DEF Counts
  <2> QED
    BY <1>6, <2>2, <2>4, <2>5, <2>6, <2>7 DEF Counts
<1>21. KernelSteps'
  <2>1. \A j \in Kernels(graph) : Emitted(j) => info'[j].event = info[j].event
    BY <1>8, <1>11 DEF Emitted
  <2> QED
    BY <1>1, <1>6, <1>9, <1>14, <1>17, <2>1, KernelStepsStay
<1>22. Waits'
  <2>1. \A p \in deps.preds[k] : \E j \in DOMAIN steps : Records(j, info[p].event)
    <3> SUFFICES ASSUME NEW p \in deps.preds[k] PROVE \E j \in DOMAIN steps : Records(j, info[p].event)
      OBVIOUS
    <3>1. p \in Kernels(graph) /\ Emitted(p)
      BY <1>1, <1>7, <1>8, <1>14, PredsFacts
    <3> QED
      BY <1>1, <3>1 DEF KernelSteps
  <2>2. \A i \in 1..Len(waits) : /\ waits[i].kind = "SyncWait" /\ waits[i].stream = StreamNow'
                                 /\ \E j \in DOMAIN steps : Records(j, waits[i].event)
    <3> SUFFICES ASSUME NEW i \in 1..Len(waits) PROVE \E j \in DOMAIN steps : Records(j, waits[i].event)
      BY <1>13, <1>16
    <3>1. PICK p \in deps.preds[k] : waits[i].event = info[p].event
      BY <1>16
    <3> QED
      BY <2>1, <3>1
  <2> QED
    BY <1>1, <1>5, <1>6, <1>9, <1>13, <1>16, <2>2, WaitsJoined
<1>23. Given'
  BY <1>1, <1>6 DEF Given
<1> QED
  BY <1>18, <1>19, <1>20, <1>21, <1>22, <1>23 DEF IInv

-----------------------------------------------------------------------------
(* The scheduler as a whole. *)

(* Every step of the scheduler keeps the inductive invariant.                *)
LEMMA NextIInv == IInv /\ [Next]_vars => IInv'
<1> SUFFICES ASSUME IInv, [Next]_vars PROVE IInv'
  OBVIOUS
<1>1. CASE PickKernel
  BY <1>1, PickKernelKeeps
<1>2. CASE BindInitializer
  BY <1>2, BindInitializerKeeps
<1>3. CASE BindWorkspace
  BY <1>3, BindWorkspaceKeeps
<1>4. CASE BindStored
  BY <1>4, BindStoredKeeps
<1>5. CASE UseCopy
  BY <1>5, UseCopyKeeps
<1>6. CASE MakeCopy
  BY <1>6, MakeCopyKeeps
<1>7. CASE PlaceInPlace
  BY <1>7, PlaceInPlaceKeeps
<1>8. CASE PlaceOnOutput
  BY <1>8, PlaceOnOutputKeeps
<1>9. CASE PlaceOnChunk
  BY <1>9, PlaceOnChunkKeeps
<1>10. CASE DeliverOutput
  BY <1>10, DeliverOutputKeeps
<1>11. CASE ReleaseOutput
  BY <1>11, ReleaseOutputKeeps
<1>12. CASE EmitStep
  BY <1>12, EmitStepKeeps
<1>13. CASE PostTransfer
  BY <1>13, PostTransferKeeps
<1>14. CASE ConsumeInput
  BY <1>14, ConsumeInputKeeps
<1>15. CASE AdvanceReady
  BY <1>15, AdvanceReadyKeeps
<1>16. CASE FinalizeOutput
  BY <1>16, FinalizeOutputKeeps
<1>17. CASE FinishPlan
  BY <1>17, FinishPlanKeeps
<1>18. CASE UNCHANGED vars
  <2>1. UNCHANGED <<graph, deps, output_alias, phase, kid, pos, bindings, post_transfers, chunks, free,
                    value2place, remaining, value_on_tier, pending, ready, info, load, next_event, steps>>
    BY <1>18 DEF vars
  <2>2. Given' /\ TypeOK'
    BY <2>1 DEF IInv, Given, TypeOK
  <2>3. Standing'
    BY <2>1 DEF IInv, Standing, Busy, Binds, Ins, Outs, Kernel
  <2>4. Counts'
    <3>1. (\A k : Done(k)' <=> Done(k)) /\ \A u : Consumed(u)' <=> Consumed(u)
      BY <2>1 DEF Done, Consumed, Busy, Binds
    <3>2. phase' = "planned" => ready = {}
      BY <2>1 DEF IInv, Counts
    <3> QED
      BY <2>1, <3>1, <3>2, CountsStay DEF IInv
  <2>5. KernelSteps'
    BY <2>1 DEF IInv, KernelSteps, Emitted, Binds, IsStepOf, Records
  <2>6. Waits'
    BY <2>1 DEF IInv, Waits, WaitsWellPlaced, Binds, Records, StreamNow
  <2> QED
    BY <2>2, <2>3, <2>4, <2>5, <2>6 DEF IInv
<1> QED
  BY <1>1, <1>2, <1>3, <1>4, <1>5, <1>6, <1>7, <1>8, <1>9, <1>10, <1>11, <1>12, <1>13, <1>14, <1>15,
     <1>16, <1>17, <1>18 DEF Next

(* When no kernel is ready, none is left: the kernels are listed after their *)
(* predecessors, so the first one left would be ready.                       *)
LEMMA AllScheduled ==
  ASSUME IInv, phase = "planned"
  PROVE  \A k \in Kernels(graph) : Emitted(k)
<1>1. Given /\ Counts /\ ~ Binds /\ ~ Busy
  BY DEF IInv, Binds, Busy
<1> DEFINE U == {k \in Kernels(graph) : ~ info[k].scheduled}
<1>2. U = {}
  <2> SUFFICES ASSUME U # {} PROVE FALSE
    OBVIOUS
  <2>1. U \in SUBSET Nat
    BY <1>1, GraphTyped
  <2>2. PICK k \in U : \A j \in U : k <= j
    BY <2>1, LeastNatural
  <2>3. k \in Kernels(graph) /\ ~ info[k].scheduled /\ k \in Nat
    BY <2>1, <2>2
  <2>4. ASSUME NEW p \in deps.preds[k] PROVE Done(p)
    <3>1. p \in Kernels(graph) /\ p < k /\ p \in Nat
      BY <1>1, <2>3, GraphTyped, PredsFacts
    <3>2. p \notin U
      BY <2>2, <2>3, <3>1
    <3> QED
      BY <1>1, <3>1, <3>2 DEF Done
  <2>5. k \in ready
    BY <1>1, <2>3, <2>4 DEF Counts
  <2> QED
    BY <1>1, <2>5 DEF Counts
<1> QED
  BY <1>1, <1>2 DEF Emitted

(* The invariant says what a complete plan must be.                          *)
LEMMA InvariantSuffices == IInv => PlanIsExecutable
<1> SUFFICES ASSUME IInv PROVE PlanIsComplete /\ WaitsWellPlaced
  BY DEF PlanIsExecutable
<1>1. WaitsWellPlaced
  BY DEF IInv, Waits
<1>2. ASSUME phase = "planned", NEW k \in Kernels(graph)
      PROVE  Cardinality(StepOf(k)) = 1 /\ \A p \in deps.preds[k] : \A i \in StepOf(p), j \in StepOf(k) : i < j
  <2>1. Given /\ KernelSteps /\ steps \in Seq(StepType)
    BY DEF IInv, TypeOK
  <2>2. \A j : StepOf(j) = {i \in DOMAIN steps : IsStepOf(i, j)}
    BY DEF StepOf, IsStepOf
  <2>3. PICK i \in DOMAIN steps : IsStepOf(i, k)
    BY <1>2, <2>1, AllScheduled DEF KernelSteps
  <2>4. StepOf(k) = {i}
    BY <2>1, <2>2, <2>3 DEF KernelSteps
  <2>5. Cardinality(StepOf(k)) = 1
    BY <2>4, FS_Singleton
  <2>6. ASSUME NEW p \in deps.preds[k], NEW h \in StepOf(p) PROVE h < i
    <3>1. p \in Kernels(graph)
      BY <2>1, PredsFacts
    <3>2. PICK j \in 1..(i - 1) : IsStepOf(j, p)
      BY <2>1, <2>3 DEF KernelSteps
    <3>3. DOMAIN steps = 1..Len(steps) /\ Len(steps) \in Nat
      BY <2>1
    <3>4. j \in DOMAIN steps /\ j < i
      BY <2>3, <3>2, <3>3
    <3>5. h = j
      BY <2>1, <2>2, <2>6, <3>1, <3>2, <3>4 DEF KernelSteps
    <3> QED
      BY <3>4, <3>5
  <2> QED
    BY <2>4, <2>5, <2>6
<1>3. PlanIsComplete
  BY <1>2 DEF PlanIsComplete
<1> QED
  BY <1>1, <1>3

(* The inductive invariant always holds of the scheduler.                    *)
THEOREM Invariance == Spec => []IInv
  BY InitIInv, NextIInv, PTL DEF Spec

(* The scheduler's tables keep their types: every place, binding and step it *)
(* makes is one, every use count stays a natural number, and every kernel is *)
(* given a stream there is (memory_aware.rs, struct Scheduler).              *)
THEOREM TypeCorrect == Spec => []TypeOK
<1>1. IInv => TypeOK
  BY DEF IInv
<1> QED
  BY <1>1, Invariance, PTL

(* Whatever the graph, the plan runs every kernel exactly once and after     *)
(* its predecessors; every wait names an event that an earlier step records  *)
(* and is followed by a step of the stream it is for (schedule_kernel).      *)
THEOREM PlansAreExecutable == Spec => []PlanIsExecutable
  BY Invariance, InvariantSuffices, PTL
=============================================================================
