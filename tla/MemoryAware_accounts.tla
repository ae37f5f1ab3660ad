------------------------ MODULE MemoryAware_accounts ------------------------
(***************************************************************************)
(* The scheduler and its allocator.  Every live use of a chunk stands for  *)
(* something the scheduler still has to do, or for a read of a copy, whose *)
(* uses are never consumed.  From these accounts it follows that every     *)
(* call finds the chunk it is for alive, which is what the allocator asks  *)
(* of its callers: the scheduler implements ChunkAllocator, under the      *)
(* mapping CA of MemoryAware.                                              *)
(*                                                                         *)
(* AInv is inductive together with IInv of MemoryAware_proofs: besides the *)
(* accounts, no place names a chunk that is not there, what is still to be *)
(* written has no place, operands are where their values are or in a copy, *)
(* and the copy of a value is on its tier and is being read.               *)
(*                                                                         *)
(* OInv says where values are, on top of both: a chunk never has two       *)
(* different values to keep, a place is large enough and on the tier of    *)
(* who uses it, and the operands of a kernel are apart.  The accounts are  *)
(* what it rests on: a chunk that is handed out has no claim left, so that *)
(* nothing that is kept, and no operand, is on it.                         *)
(***************************************************************************)
EXTENDS MemoryAware_proofs
-----------------------------------------------------------------------------
(* The accounts: what every live use of a chunk stands for. *)

(* The inputs still to be consumed that read a value placed on c.           *)
ToRead(c) == {u \in Slots(graph) : value2place[ReadAt(graph, u)] = ChunkPlace(c) /\ ~ Consumed(u)}

(* The transfers from c to an output's buffer that follow the kernel.       *)
ToDeliver(c) ==
  {i \in DOMAIN post_transfers :
     /\ post_transfers[i].src.place = ChunkPlace(c)
     /\ Binds \/ (phase = "post" /\ i >= pos)}

(* The operands bound so far that read a copy, not the value's place.       *)
CopiesBound(c) ==
  {i \in DOMAIN bindings :
     /\ Binds /\ bindings[i].role = "Input" /\ bindings[i].place = ChunkPlace(c)
     /\ value2place[bindings[i].value] # bindings[i].place}

UsesOf(c) == Cardinality(ToRead(c)) + Cardinality(ToDeliver(c))
             + Cardinality(CopyReads(c)) + Cardinality(CopiesBound(c))

Accounts == \A c \in DOMAIN chunks : chunks[c].live = UsesOf(c)

(* No place names a chunk that is not there.                                *)
There(p) == IsChunk(p) => p.id \in DOMAIN chunks
TransferThere(pt) == There(pt.src.place) /\ There(pt.dst.place)
PlacesThere ==
  /\ \A v \in Values(graph) : There(value2place[v])
  /\ \A x \in Values(graph) \X Tier : There(value_on_tier[x].place)
  /\ \A i \in DOMAIN bindings : There(bindings[i].place)
  /\ \A i \in DOMAIN post_transfers : TransferThere(post_transfers[i])
  /\ \A i \in DOMAIN steps : \A j \in DOMAIN steps[i].bindings : There(steps[i].bindings[j].place)

(* An operand that is read from a chunk is of a value that has its place;   *)
(* any other operand is where its value is.                                 *)
BindingTrue(b) ==
  /\ b.role = "Input" /\ IsChunk(b.place) => b.value \in Values(graph) /\ value2place[b.value] # NoPlace
BindingsTrue ==
  /\ \A i \in DOMAIN bindings : BindingTrue(bindings[i])
  /\ Binds => \A i \in DOMAIN bindings :
       i <= Len(Ins) /\ bindings[i].role # "Input" =>
         bindings[i].place # NoPlace /\ bindings[i].place = value2place[Ins[i]]
  /\ \A i \in DOMAIN steps : steps[i].kind = "Kernel" =>
       \A j \in DOMAIN steps[i].bindings : BindingTrue(steps[i].bindings[j])

(* What a kernel writes, and its workspaces, have no place before.          *)
OutputToPlace(k, j) ==
  \/ ~ info[k].scheduled
  \/ k = kid /\ phase = "bind" /\ Len(Ins) + j >= pos
  \/ k = kid /\ phase \in {"deliver", "release"} /\ Len(Ins) + j > pos
WorkspaceToBind(u) == ~ info[u[1]].scheduled \/ (u[1] = kid /\ phase = "bind" /\ u[2] >= pos)
Unplaced ==
  /\ \A k \in Kernels(graph) : \A j \in DOMAIN graph.kernels[k].outs :
       OutputToPlace(k, j) => value2place[graph.kernels[k].outs[j]] = NoPlace
  /\ \A u \in Slots(graph) :
       ReadAt(graph, u) \in Workspaces(graph) /\ WorkspaceToBind(u) => value2place[ReadAt(graph, u)] = NoPlace

(* The copy of a value is on its tier, and has been read.                   *)
CopiesTrue ==
  \A x \in Values(graph) \X Tier : value_on_tier[x].place # NoPlace =>
    /\ IsChunk(value_on_tier[x].place)
    /\ chunks[value_on_tier[x].place.id].tier = x[2]
    /\ CopyReads(value_on_tier[x].place.id) # {} \/ CopiesBound(value_on_tier[x].place.id) # {}

CAP == INSTANCE ChunkAllocator_proofs WITH Size <- Sizes, Use <- UseCounts, fresh <- Fresh
AInv == Accounts /\ PlacesThere /\ BindingsTrue /\ Unplaced /\ CopiesTrue /\ CAP!IInv

-----------------------------------------------------------------------------
(* The allocator the scheduler calls. *)

(* What is asked of it: the sizes of the values, and how often they are read. *)
LEMMA UsesCounted ==
  ASSUME NEW g \in Graphs, NEW v \in Values(g)
  PROVE  g.size[v] \in Nat /\ UsesCount(g, v) \in Nat
<1> DEFINE Of(k) == {k} \X DOMAIN g.kernels[k].ins
           KT == [op : KernelOp, ins : Seq(Values(g)), outs : Seq(Values(g)), dev : Device]
<1>1. GraphType(g)
  BY GraphsAssumption DEF WellFormed
<1>2. g.size \in Seq(Nat) /\ g.kernels \in Seq(KT)
  BY <1>1 DEF GraphType
<1>3. g.size[v] \in Nat
  BY <1>2 DEF Values
<1>4. Len(g.kernels) \in Nat /\ Kernels(g) = 1..Len(g.kernels) /\ \A k \in Kernels(g) : g.kernels[k] \in KT
  <2> HIDE DEF KT
  <2> QED
    BY <1>2 DEF Kernels
<1>5. ASSUME NEW k \in Kernels(g) PROVE IsFiniteSet(Of(k))
  <2>1. g.kernels[k].ins \in Seq(Values(g))
    BY <1>4
  <2>2. Len(g.kernels[k].ins) \in Int /\ DOMAIN g.kernels[k].ins = 1..Len(g.kernels[k].ins)
    BY <2>1
  <2>3. IsFiniteSet(1..Len(g.kernels[k].ins))
    BY <2>2, FS_Interval
  <2>4. IsFiniteSet({k}) /\ IsFiniteSet(DOMAIN g.kernels[k].ins)
    BY <2>2, <2>3, FS_Singleton
  <2> QED
    BY <2>4, FS_Product
<1>6. IsFiniteSet(Kernels(g))
  BY <1>4, FS_Interval
<1>7. IsFiniteSet({Of(k) : k \in Kernels(g)})
  <2> DEFINE f == [k \in Kernels(g) |-> Of(k)]
             T == {Of(k) : k \in Kernels(g)}
  <2> HIDE DEF Of
  <2>1. f \in Surjection(Kernels(g), T)
    BY DEF Surjection
  <2> HIDE DEF T
  <2> QED
    BY <2>1, <1>6, FS_Surjection DEF T
<1>8. IsFiniteSet(Slots(g))
  BY <1>5, <1>7, FS_UNION DEF Slots
<1>9. IsFiniteSet({u \in Slots(g) : ReadAt(g, u) = v})
  BY <1>8, FS_Subset
<1> QED
  BY <1>3, <1>9, FS_CardinalityType DEF UsesCount

LEMMA SizesNatural == Sizes \subseteq Nat /\ UseCounts \subseteq Nat
<1>1. ASSUME NEW n \in Sizes PROVE n \in Nat
  <2>1. PICK g \in Graphs : n \in {g.size[v] : v \in Values(g)}
    BY DEF Sizes
  <2> QED
    BY <2>1, UsesCounted
<1>2. ASSUME NEW n \in UseCounts PROVE n \in Nat
  <2>1. CASE n \in {0, 1}
    BY <2>1
  <2>2. CASE n \in UNION {{UsesCount(g, v) : v \in Values(g)} : g \in Graphs}
    <3>1. PICK g \in Graphs : n \in {UsesCount(g, v) : v \in Values(g)}
      BY <2>2
    <3> QED
      BY <3>1, UsesCounted
  <2> QED
    BY <2>1, <2>2 DEF UseCounts
<1> QED
  BY <1>1, <1>2

LEMMA Asked ==
  ASSUME Given, NEW v \in Values(graph)
  PROVE  graph.size[v] \in Sizes /\ UsesCount(graph, v) \in UseCounts /\ 0 \in UseCounts /\ 1 \in UseCounts
<1>1. graph \in Graphs
  BY DEF Given
<1> QED
  BY <1>1 DEF Sizes, UseCounts

(* A step of the allocator, and what it keeps.                              *)
Disciplined == [CA!Next]_<<chunks, free, Fresh>> /\ CAP!IInv'

LEMMA AllocatorKeeps ==
  ASSUME CAP!IInv, CAP!Next
  PROVE  CAP!IInv'
<1>1. [CAP!Next]_(CAP!vars)
  OBVIOUS
<1> QED
  BY <1>1, CAP!NextIInv, SizesNatural, AlignAssumption

LEMMA NoCall ==
  ASSUME CAP!IInv, UNCHANGED <<chunks, free>>, Fresh' = Fresh
  PROVE  Disciplined
<1>1. [CAP!Next]_(CAP!vars)
  BY DEF CAP!vars
<1>2. CAP!IInv'
  BY <1>1, CAP!NextIInv, SizesNatural, AlignAssumption
<1> QED
  BY <1>2 DEF Disciplined

LEMMA AllocCall ==
  ASSUME CAP!IInv, NEW t \in Tier, NEW s \in Stream, NEW size \in Sizes, NEW uses \in UseCounts, Fresh = NoChunk,
         chunks' = AllocChunks(chunks, free, t, s, size, uses), free' = PopFree(free, t, s),
         Fresh' = IF uses = 0 THEN NextChunk(chunks, free, t, s) ELSE NoChunk
  PROVE  Disciplined
<1>1. CA!Alloc(t, s, size, uses)
  BY DEF CA!Alloc, CA!AllocChunks, CA!PopFree, CA!NextChunk, CA!NoChunk, AllocChunks, PopFree, NextChunk, NoChunk
<1>2. CAP!Alloc(t, s, size, uses)
  BY DEF CAP!Alloc, CAP!AllocChunks, CAP!PopFree, CAP!NextChunk, CAP!NoChunk, AllocChunks, PopFree, NextChunk, NoChunk
<1>3. CA!Next /\ CAP!Next
  BY <1>1, <1>2, Zenon DEF CA!Next, CAP!Next
<1> QED
  BY <1>3, AllocatorKeeps DEF Disciplined

LEMMA AddUsesCall ==
  ASSUME CAP!IInv, NEW c \in DOMAIN chunks, NEW n \in UseCounts, chunks[c].live > 0 \/ c = Fresh,
         chunks' = AddUsesTo(chunks, c, n), free' = free,
         Fresh' = IF c = Fresh /\ n > 0 THEN NoChunk ELSE Fresh
  PROVE  Disciplined
<1>1. CA!AddUses(c, n)
  BY DEF CA!AddUses, CA!Held, CA!AddUsesTo, CA!NoChunk, AddUsesTo, NoChunk
<1>2. CAP!AddUses(c, n)
  BY DEF CAP!AddUses, CAP!Held, CAP!AddUsesTo, CAP!NoChunk, AddUsesTo, NoChunk
<1>3. CA!Next /\ CAP!Next
  BY <1>1, <1>2, Zenon DEF CA!Next, CAP!Next
<1> QED
  BY <1>3, AllocatorKeeps DEF Disciplined

LEMMA ReleaseCall ==
  ASSUME CAP!IInv, NEW c \in DOMAIN chunks, NEW s \in Stream, chunks[c].live > 0 \/ c = Fresh,
         free' = FreeIfDead(free, chunks, c, s), chunks' = chunks,
         Fresh' = IF c = Fresh THEN NoChunk ELSE Fresh
  PROVE  Disciplined
<1>1. CA!ReleaseIfDead(c, s)
  BY DEF CA!ReleaseIfDead, CA!Held, CA!FreeIfDead, CA!FreeOn, CA!NoChunk, FreeIfDead, FreeOn, NoChunk
<1>2. CAP!ReleaseIfDead(c, s)
  BY DEF CAP!ReleaseIfDead, CAP!Held, CAP!FreeIfDead, CAP!FreeOn, CAP!NoChunk, FreeIfDead, FreeOn, NoChunk
<1>3. CA!Next /\ CAP!Next
  BY <1>1, <1>2, Zenon DEF CA!Next, CAP!Next
<1> QED
  BY <1>3, AllocatorKeeps DEF Disciplined

LEMMA ConsumeCall ==
  ASSUME CAP!IInv, NEW c \in DOMAIN chunks, NEW s \in Stream, chunks[c].live > 0,
         chunks' = ConsumeIn(chunks, c), free' = FreeIfDead(free, chunks', c, s), Fresh' = Fresh
  PROVE  Disciplined
<1>1. CA!Consume(c, s)
  BY DEF CA!Consume, CA!ConsumeIn, CA!Decrement, CA!FreeIfDead, CA!FreeOn, FreeIfDead, FreeOn, ConsumeIn, Decrement
<1>2. CAP!Consume(c, s)
  BY DEF CAP!Consume, CAP!ConsumeIn, CAP!Decrement, CAP!FreeIfDead, CAP!FreeOn, FreeIfDead, FreeOn, ConsumeIn, Decrement
<1>3. CA!Next /\ CAP!Next
  BY <1>1, <1>2, Zenon DEF CA!Next, CAP!Next
<1> QED
  BY <1>3, AllocatorKeeps DEF Disciplined

(* What a call for a chunk returns: one that is dead and of the arena asked  *)
(* for, or a new one (alloc).                                                *)
LEMMA AllocFacts ==
  ASSUME CAP!IInv, NEW t \in Tier, NEW s \in Stream, NEW size \in Nat, NEW uses \in Nat,
         NEW c, c = NextChunk(chunks, free, t, s),
         chunks' = AllocChunks(chunks, free, t, s, size, uses)
  PROVE  /\ c \in Nat \ {0} /\ \A d : d \in DOMAIN chunks' <=> d \in DOMAIN chunks \/ d = c
         /\ c \in DOMAIN chunks => chunks[c].live = 0 /\ chunks[c].tier = t
         /\ chunks'[c].live = uses /\ chunks'[c].tier = t
         /\ \A d \in DOMAIN chunks : d # c => chunks'[d] = chunks[d]
<1> DEFINE l == <<t, s>>
<1>1. /\ chunks \in Seq(ChunkState) /\ free \in [FreeList -> Seq(Nat)] /\ CAP!FreeChunksAreDead
  BY DEF CAP!IInv, CAP!TypeOK, CAP!ChunkState, ChunkState, CAP!FreeList, FreeList
<1>2. l \in FreeList /\ l[1] = t /\ Len(chunks) \in Nat /\ DOMAIN chunks = 1..Len(chunks)
  BY <1>1 DEF FreeList
<1>3. \A m \in FreeList : \A i \in 1..Len(free[m]) :
        free[m][i] \in 1..Len(chunks) /\ chunks[free[m][i]].live = 0 /\ chunks[free[m][i]].tier = m[1]
  BY <1>1 DEF CAP!FreeChunksAreDead, CAP!FreeList, FreeList, CAP!TierOf
<1>4. free[l] \in Seq(Nat)
  BY <1>1, <1>2
<1>5. CASE free[l] # <<>>
  <2>1. c = free[l][Len(free[l])]
    BY <1>5 DEF NextChunk
  <2>2. Len(free[l]) \in 1..Len(free[l])
    <3> HIDE DEF l
    <3> QED
      BY <1>4, <1>5
  <2>3. c \in 1..Len(chunks) /\ chunks[c].live = 0 /\ chunks[c].tier = t
    <3> HIDE DEF l
    <3> QED
      BY <1>2, <1>3, <2>1, <2>2
  <2>4. ~ (c > Len(chunks))
    BY <1>2, <2>3
  <2> DEFINE new == [tier |-> chunks[c].tier, size |-> IF size > chunks[c].size THEN size ELSE chunks[c].size,
                     live |-> chunks[c].live + uses]
  <2>5. chunks' = [chunks EXCEPT ![c] = new]
    BY <2>4 DEF AllocChunks
  <2>6. new.live = uses /\ new.tier = t
    BY <2>3
  <2> HIDE DEF new
  <2>7. DOMAIN chunks' = DOMAIN chunks /\ chunks'[c] = new /\ \A d \in DOMAIN chunks : d # c => chunks'[d] = chunks[d]
    BY <1>1, <1>2, <2>3, <2>5
  <2> QED
    BY <1>2, <2>3, <2>6, <2>7
<1>6. CASE free[l] = <<>>
  <2>1. c = Len(chunks) + 1
    BY <1>6 DEF NextChunk
  <2>2. c > Len(chunks)
    BY <1>2, <2>1
  <2> DEFINE new == [tier |-> t, size |-> size, live |-> uses]
  <2>3. chunks' = Append(chunks, new)
    BY <2>2 DEF AllocChunks
  <2>4. new.live = uses /\ new.tier = t
    OBVIOUS
  <2> HIDE DEF new
  <2>5. DOMAIN chunks' = 1..(Len(chunks) + 1) /\ chunks'[c] = new /\ \A d \in DOMAIN chunks : chunks'[d] = chunks[d]
    BY <1>1, <1>2, <2>1, <2>3
  <2> QED
    BY <1>2, <2>1, <2>4, <2>5
<1> QED
  BY <1>5, <1>6

(* The calls that count uses change the count of one chunk.                  *)
LEMMA CountFacts ==
  ASSUME chunks \in Seq(ChunkState), NEW c \in DOMAIN chunks, NEW n
  PROVE  /\ DOMAIN chunks = 1..Len(chunks) /\ Len(chunks) \in Nat /\ chunks[c].live \in Nat
         /\ chunks' = AddUsesTo(chunks, c, n) =>
              /\ DOMAIN chunks' = DOMAIN chunks /\ \A d \in DOMAIN chunks : d # c => chunks'[d] = chunks[d]
              /\ chunks'[c].live = chunks[c].live + n /\ chunks'[c].tier = chunks[c].tier
         /\ chunks' = ConsumeIn(chunks, c) /\ chunks[c].live > 0 =>
              /\ DOMAIN chunks' = DOMAIN chunks /\ \A d \in DOMAIN chunks : d # c => chunks'[d] = chunks[d]
              /\ chunks'[c].live = chunks[c].live - 1 /\ chunks'[c].tier = chunks[c].tier
<1>1. DOMAIN chunks = 1..Len(chunks) /\ Len(chunks) \in Nat /\ chunks[c] \in ChunkState
  OBVIOUS
<1>2. chunks[c].live \in Nat
  BY <1>1 DEF ChunkState
<1>3. ASSUME chunks' = AddUsesTo(chunks, c, n)
      PROVE  /\ DOMAIN chunks' = DOMAIN chunks /\ \A d \in DOMAIN chunks : d # c => chunks'[d] = chunks[d]
             /\ chunks'[c].live = chunks[c].live + n /\ chunks'[c].tier = chunks[c].tier
  <2>1. chunks' = [chunks EXCEPT ![c].live = chunks[c].live + n]
    BY <1>3 DEF AddUsesTo
  <2>2. chunks'[c] = [chunks[c] EXCEPT !.live = chunks[c].live + n]
    BY <2>1
  <2>3. chunks'[c].live = chunks[c].live + n /\ chunks'[c].tier = chunks[c].tier
    BY <1>1, <2>2 DEF ChunkState
  <2> QED
    BY <2>1, <2>3
<1>4. ASSUME chunks' = ConsumeIn(chunks, c), chunks[c].live > 0
      PROVE  /\ DOMAIN chunks' = DOMAIN chunks /\ \A d \in DOMAIN chunks : d # c => chunks'[d] = chunks[d]
             /\ chunks'[c].live = chunks[c].live - 1 /\ chunks'[c].tier = chunks[c].tier
  <2>1. chunks' = [chunks EXCEPT ![c].live = Decrement(chunks[c].live)]
    BY <1>4 DEF ConsumeIn
  <2>2. chunks'[c] = [chunks[c] EXCEPT !.live = Decrement(chunks[c].live)]
    BY <2>1
  <2>3. chunks'[c].live = Decrement(chunks[c].live) /\ chunks'[c].tier = chunks[c].tier
    BY <1>1, <2>2 DEF ChunkState
  <2>4. Decrement(chunks[c].live) = chunks[c].live - 1
    BY <1>2, <1>4 DEF Decrement
  <2> QED
    BY <2>1, <2>3, <2>4
<1> QED
  BY <1>1, <1>2, <1>3, <1>4

-----------------------------------------------------------------------------
(* The uses of a chunk. *)

LEMMA UsesFinite ==
  ASSUME Given, TypeOK, NEW c
  PROVE  /\ IsFiniteSet(ToRead(c)) /\ Cardinality(ToRead(c)) \in Nat
         /\ IsFiniteSet(ToDeliver(c)) /\ Cardinality(ToDeliver(c)) \in Nat
         /\ IsFiniteSet(CopyReads(c)) /\ Cardinality(CopyReads(c)) \in Nat
         /\ IsFiniteSet(CopiesBound(c)) /\ Cardinality(CopiesBound(c)) \in Nat
         /\ UsesOf(c) \in Nat
<1>1. IsFiniteSet(ToRead(c))
  BY SlotFacts, FS_Subset DEF ToRead
<1>2. ASSUME NEW A, NEW q \in Seq(A) PROVE IsFiniteSet(DOMAIN q)
  <2>1. Len(q) \in Int /\ DOMAIN q = 1..Len(q)
    OBVIOUS
  <2> QED
    BY <2>1, FS_Interval
<1>3. IsFiniteSet(DOMAIN post_transfers) /\ IsFiniteSet(DOMAIN bindings) /\ IsFiniteSet(DOMAIN steps)
  <2>1. post_transfers \in Seq([src : BindingType, dst : BindingType]) /\ bindings \in Seq(BindingType)
        /\ steps \in Seq(StepType)
    BY DEF TypeOK
  <2> QED
    BY <1>2, <2>1
<1>4. IsFiniteSet(ToDeliver(c)) /\ IsFiniteSet(CopiesBound(c))
  BY <1>3, FS_Subset DEF ToDeliver, CopiesBound
<1>5. IsFiniteSet(CopyReads(c))
  <2> DEFINE Of(i) == {i} \X DOMAIN steps[i].bindings
             T == {Of(i) : i \in DOMAIN steps}
             f == [i \in DOMAIN steps |-> Of(i)]
  <2>1. ASSUME NEW i \in DOMAIN steps PROVE IsFiniteSet(Of(i))
    <3>1. steps[i] \in StepType
      BY DEF TypeOK
    <3>2. steps[i].bindings \in Seq(BindingType)
      BY <3>1 DEF StepType
    <3>3. IsFiniteSet(DOMAIN steps[i].bindings) /\ IsFiniteSet({i})
      BY <1>2, <3>2, FS_Singleton
    <3> QED
      BY <3>3, FS_Product
  <2>2. IsFiniteSet(T)
    <3> HIDE DEF Of
    <3>1. f \in Surjection(DOMAIN steps, T)
      BY DEF Surjection
    <3> HIDE DEF T, f
    <3> QED
      BY <3>1, <1>3, FS_Surjection
  <2>3. IsFiniteSet(UNION T)
    <3>1. \A x \in T : IsFiniteSet(x)
      BY <2>1
    <3> HIDE DEF T
    <3> QED
      BY <2>2, <3>1, FS_UNION
  <2>4. CopyReads(c) \subseteq UNION T
    BY DEF CopyReads
  <2> QED
    BY <2>3, <2>4, FS_Subset
<1>6. /\ Cardinality(ToRead(c)) \in Nat /\ Cardinality(ToDeliver(c)) \in Nat
      /\ Cardinality(CopyReads(c)) \in Nat /\ Cardinality(CopiesBound(c)) \in Nat
  BY <1>1, <1>4, <1>5, FS_CardinalityType
<1> QED
  BY <1>1, <1>4, <1>5, <1>6 DEF UsesOf

(* Who stands for a use keeps the chunk alive.                               *)
LEMMA UsedIsLive ==
  ASSUME Given, TypeOK, Accounts, NEW c \in DOMAIN chunks,
         ToRead(c) # {} \/ ToDeliver(c) # {} \/ CopyReads(c) # {} \/ CopiesBound(c) # {}
  PROVE  chunks[c].live > 0
<1>1. \A S : IsFiniteSet(S) /\ Cardinality(S) \in Nat /\ S # {} => Cardinality(S) > 0
  <2> SUFFICES ASSUME NEW S, IsFiniteSet(S), Cardinality(S) \in Nat, S # {} PROVE Cardinality(S) > 0
    OBVIOUS
  <2>1. Cardinality(S) # 0
    BY FS_EmptySet
  <2> QED
    BY <2>1
<1>2. chunks[c].live = UsesOf(c)
  BY DEF Accounts
<1> QED
  BY <1>1, <1>2, UsesFinite DEF UsesOf

(* A chunk that is dead, or not there, stands for no use.                    *)
LEMMA Unused ==
  ASSUME Given, TypeOK, Accounts, PlacesThere, NEW c, c \in DOMAIN chunks => chunks[c].live = 0
  PROVE  UsesOf(c) = 0 /\ ToRead(c) = {} /\ ToDeliver(c) = {} /\ CopyReads(c) = {} /\ CopiesBound(c) = {}
<1>1. CASE c \in DOMAIN chunks
  <2>1. ToRead(c) = {} /\ ToDeliver(c) = {} /\ CopyReads(c) = {} /\ CopiesBound(c) = {}
    <3>1. ~ (chunks[c].live > 0)
      BY <1>1
    <3> QED
      BY <1>1, <3>1, UsedIsLive
  <2> QED
    BY <1>1, <2>1 DEF Accounts
<1>2. CASE c \notin DOMAIN chunks
  <2>1. \A p : p = ChunkPlace(c) => ~ There(p)
    BY <1>2 DEF There, ChunkPlace, IsChunk
  <2>2. ToRead(c) = {}
    <3>1. \A u \in Slots(graph) : ReadAt(graph, u) \in Values(graph)
      BY SlotFacts
    <3> QED
      BY <2>1, <3>1 DEF ToRead, PlacesThere
  <2>3. ToDeliver(c) = {} /\ CopiesBound(c) = {}
    BY <2>1 DEF ToDeliver, CopiesBound, PlacesThere, TransferThere
  <2>4. CopyReads(c) = {}
    <3> SUFFICES ASSUME NEW u \in CopyReads(c) PROVE FALSE
      OBVIOUS
    <3>1. PICK i \in DOMAIN steps : u \in {i} \X DOMAIN steps[i].bindings
      BY DEF CopyReads
    <3>2. u[1] = i /\ u[2] \in DOMAIN steps[i].bindings
      BY <3>1
    <3>3. steps[i].bindings[u[2]].place = ChunkPlace(c)
      BY <3>2 DEF CopyReads
    <3>4. There(steps[i].bindings[u[2]].place)
      BY <3>2 DEF PlacesThere
    <3> QED
      BY <2>1, <3>3, <3>4
  <2>5. Cardinality({}) = 0
    BY FS_EmptySet
  <2> QED
    BY <2>2, <2>3, <2>4, <2>5 DEF UsesOf
<1> QED
  BY <1>1, <1>2

(* What is placed stays there.                                               *)
PlacesStay ==
  \A v \in Values(graph) : value2place[v] # NoPlace => value2place'[v] = value2place[v]

(* The reads of copies in the plan, when no kernel's step is added.          *)
LEMMA CopyReadsStay ==
  ASSUME BindingsTrue, PlacesStay, NoKernelAdded, steps \in Seq(StepType), steps' \in Seq(StepType), NEW c
  PROVE  CopyReads(c)' = CopyReads(c)
<1>1. /\ Len(steps) \in Nat /\ DOMAIN steps = 1..Len(steps)
      /\ Len(steps') \in Nat /\ DOMAIN steps' = 1..Len(steps')
  OBVIOUS
<1>2. /\ \A i \in DOMAIN steps : i \in DOMAIN steps' /\ steps'[i] = steps[i]
      /\ \A i \in DOMAIN steps' : steps'[i].kind = "Kernel" => i \in DOMAIN steps
  BY <1>1 DEF NoKernelAdded
<1> DEFINE Reading(i, j) ==
             /\ i \in DOMAIN steps /\ j \in DOMAIN steps[i].bindings /\ steps[i].kind = "Kernel"
             /\ steps[i].bindings[j].role = "Input" /\ steps[i].bindings[j].place = ChunkPlace(c)
             /\ value2place[steps[i].bindings[j].value] # steps[i].bindings[j].place
<1>3. ASSUME NEW i, NEW j PROVE Reading(i, j)' <=> Reading(i, j)
  <2>1. CASE i \in DOMAIN steps /\ steps[i].kind = "Kernel" /\ j \in DOMAIN steps[i].bindings
             /\ steps[i].bindings[j].role = "Input" /\ steps[i].bindings[j].place = ChunkPlace(c)
    <3>1. BindingTrue(steps[i].bindings[j])
      BY <2>1 DEF BindingsTrue
    <3>2. IsChunk(steps[i].bindings[j].place)
      BY <2>1 DEF ChunkPlace, IsChunk
    <3>3. value2place'[steps[i].bindings[j].value] = value2place[steps[i].bindings[j].value]
      BY <2>1, <3>1, <3>2 DEF BindingTrue, PlacesStay
    <3> QED
      BY <1>2, <2>1, <3>3
  <2>2. CASE ~ (i \in DOMAIN steps /\ steps[i].kind = "Kernel" /\ j \in DOMAIN steps[i].bindings
                /\ steps[i].bindings[j].role = "Input" /\ steps[i].bindings[j].place = ChunkPlace(c))
    BY <1>2, <2>2 DEF ChunkPlace
  <2> QED
    BY <2>1, <2>2
<1>4. \A u : u \in CopyReads(c) <=> u = <<u[1], u[2]>> /\ Reading(u[1], u[2])
  BY DEF CopyReads
<1>5. \A u : u \in CopyReads(c)' <=> u = <<u[1], u[2]>> /\ Reading(u[1], u[2])'
  BY DEF CopyReads, ChunkPlace
<1> HIDE DEF Reading
<1>6. \A u : u \in CopyReads(c)' <=> u \in CopyReads(c)
  BY <1>3, <1>4, <1>5
<1> QED
  BY <1>6

(* The copies bound so far, when none is bound.                              *)
LEMMA CopiesBoundStay ==
  ASSUME BindingsTrue, PlacesStay, Binds' <=> Binds, NEW c,
         \A i \in DOMAIN bindings : i \in DOMAIN bindings' /\ bindings'[i] = bindings[i],
         \A i \in DOMAIN bindings' : i \in DOMAIN bindings \/ bindings'[i].role # "Input" \/ ~ IsChunk(bindings'[i].place)
           \/ value2place'[bindings'[i].value] = bindings'[i].place
  PROVE  CopiesBound(c)' = CopiesBound(c)
<1> DEFINE Copy(i) == /\ bindings[i].role = "Input" /\ bindings[i].place = ChunkPlace(c)
                      /\ value2place[bindings[i].value] # bindings[i].place
<1>1. ASSUME NEW i \in DOMAIN bindings PROVE Copy(i)' <=> Copy(i)
  <2>1. CASE bindings[i].role = "Input" /\ bindings[i].place = ChunkPlace(c)
    <3>1. IsChunk(bindings[i].place) /\ BindingTrue(bindings[i])
      BY <2>1 DEF BindingsTrue, ChunkPlace, IsChunk
    <3>2. value2place'[bindings[i].value] = value2place[bindings[i].value]
      BY <2>1, <3>1 DEF BindingTrue, PlacesStay
    <3> QED
      BY <2>1, <3>2
  <2>2. CASE ~ (bindings[i].role = "Input" /\ bindings[i].place = ChunkPlace(c))
    BY <2>2 DEF ChunkPlace
  <2> QED
    BY <2>1, <2>2
<1>2. ASSUME NEW i \in DOMAIN bindings', i \notin DOMAIN bindings PROVE ~ Copy(i)'
  BY <1>2 DEF ChunkPlace, IsChunk
<1>3. CopiesBound(c) = {i \in DOMAIN bindings : Binds /\ Copy(i)}
  BY DEF CopiesBound
<1>4. CopiesBound(c)' = {i \in DOMAIN bindings' : Binds' /\ Copy(i)'}
  BY DEF CopiesBound, ChunkPlace
<1> HIDE DEF Copy
<1> QED
  BY <1>1, <1>2, <1>3, <1>4

(* The inputs to be read, when nothing is placed, and when v is.             *)
LEMMA ReadsStay ==
  ASSUME UNCHANGED <<graph, value2place>>, \A u \in Slots(graph) : Consumed(u)' <=> Consumed(u), NEW c
  PROVE  ToRead(c)' = ToRead(c)
  BY DEF ToRead, ChunkPlace

LEMMA ReadsPlaced ==
  ASSUME Given, TypeOK, Counts, UNCHANGED graph, \A u \in Slots(graph) : Consumed(u)' <=> Consumed(u),
         NEW v \in Values(graph), value2place[v] = NoPlace, NEW p, value2place' = [value2place EXCEPT ![v] = p]
  PROVE  /\ PlacesStay
         /\ \A c : Cardinality(ToRead(c)') = Cardinality(ToRead(c)) + IF p = ChunkPlace(c) THEN remaining[v] ELSE 0
<1>1. value2place \in [Values(graph) -> Place] /\ \A u \in Slots(graph) : ReadAt(graph, u) \in Values(graph)
  BY SlotFacts DEF TypeOK
<1>2. value2place'[v] = p /\ \A w \in Values(graph) : w # v => value2place'[w] = value2place[w]
  BY <1>1
<1>3. PlacesStay
  BY <1>2 DEF PlacesStay
<1>4. ASSUME NEW c
      PROVE  Cardinality(ToRead(c)') = Cardinality(ToRead(c)) + IF p = ChunkPlace(c) THEN remaining[v] ELSE 0
  <2>1. \A u \in Slots(graph) : u \in ToRead(c)' <=> value2place'[ReadAt(graph, u)] = ChunkPlace(c) /\ ~ Consumed(u)
    BY DEF ToRead, ChunkPlace
  <2>2. ToRead(c)' \subseteq Slots(graph) /\ ToRead(c) \subseteq Slots(graph) /\ Unread(v) \subseteq Slots(graph)
    BY DEF ToRead, Unread
  <2>3. \A u \in Slots(graph) : /\ u \in ToRead(c) <=> value2place[ReadAt(graph, u)] = ChunkPlace(c) /\ ~ Consumed(u)
                                /\ u \in Unread(v) <=> ReadAt(graph, u) = v /\ ~ Consumed(u)
    BY DEF ToRead, Unread
  <2>4. ChunkPlace(c) # NoPlace
    BY DEF ChunkPlace, NoPlace
  <2>5. CASE p = ChunkPlace(c)
    <3>1. \A u \in Slots(graph) : u \in ToRead(c)' <=> u \in ToRead(c) \/ u \in Unread(v)
      BY <1>1, <1>2, <2>1, <2>3, <2>4, <2>5
    <3>2. ToRead(c)' = ToRead(c) \cup Unread(v)
      BY <2>2, <3>1
    <3>3. \A u \in Slots(graph) : ~ (u \in ToRead(c) /\ u \in Unread(v))
      BY <2>3, <2>4
    <3>4. ToRead(c) \cap Unread(v) = {}
      BY <2>2, <3>3
    <3>5. IsFiniteSet(ToRead(c)) /\ IsFiniteSet(Unread(v)) /\ Cardinality(ToRead(c)) \in Nat /\ Cardinality(Unread(v)) \in Nat
      BY UsesFinite, UnreadFacts
    <3>6. Cardinality(ToRead(c) \cup Unread(v)) =
            Cardinality(ToRead(c)) + Cardinality(Unread(v)) - Cardinality(ToRead(c) \cap Unread(v))
      BY <3>5, FS_Union
    <3>7. Cardinality(ToRead(c) \cap Unread(v)) = 0
      BY <3>4, FS_EmptySet
    <3>8. remaining[v] = Cardinality(Unread(v))
      BY DEF Counts
    <3> QED
      BY <2>5, <3>2, <3>5, <3>6, <3>7, <3>8
  <2>6. CASE p # ChunkPlace(c)
    <3>1. \A u \in Slots(graph) : u \in ToRead(c)' <=> u \in ToRead(c)
      BY <1>1, <1>2, <2>1, <2>3, <2>4, <2>6
    <3>2. ToRead(c)' = ToRead(c)
      BY <2>2, <3>1
    <3>3. Cardinality(ToRead(c)) \in Nat
      BY UsesFinite
    <3> QED
      BY <2>6, <3>2, <3>3
  <2> QED
    BY <2>5, <2>6
<1> QED
  BY <1>3, <1>4

LEMMA DeliveriesStay ==
  ASSUME Binds, Binds', UNCHANGED post_transfers, NEW c
  PROVE  ToDeliver(c)' = ToDeliver(c)
  BY DEF ToDeliver, ChunkPlace

-----------------------------------------------------------------------------
(* What a step leaves alone. *)

LEMMA ThereStays ==
  ASSUME PlacesThere, UNCHANGED graph, DOMAIN chunks \subseteq DOMAIN chunks',
         \A v \in Values(graph) : value2place'[v] = value2place[v] \/ There(value2place[v])',
         \A x \in Values(graph) \X Tier : value_on_tier'[x] = value_on_tier[x] \/ There(value_on_tier[x].place)',
         \A i \in DOMAIN bindings' :
            (i \in DOMAIN bindings /\ bindings'[i] = bindings[i]) \/ There(bindings[i].place)',
         \A i \in DOMAIN post_transfers' :
            (i \in DOMAIN post_transfers /\ post_transfers'[i] = post_transfers[i]) \/ TransferThere(post_transfers[i])',
         \A i \in DOMAIN steps' :
            \/ i \in DOMAIN steps /\ steps'[i] = steps[i]
            \/ \A j \in DOMAIN steps'[i].bindings : There(steps[i].bindings[j].place)'
  PROVE  PlacesThere'
<1>1. \A p : There(p) => (IsChunk(p) => p.id \in DOMAIN chunks')
  BY DEF There
<1>2. (\A v \in Values(graph) : There(value2place[v]))'
  BY <1>1 DEF PlacesThere, There, IsChunk
<1>3. (\A x \in Values(graph) \X Tier : There(value_on_tier[x].place))'
  BY <1>1 DEF PlacesThere, There, IsChunk
<1>4. (\A i \in DOMAIN bindings : There(bindings[i].place))'
  BY <1>1 DEF PlacesThere, There, IsChunk
<1>5. (\A i \in DOMAIN post_transfers : TransferThere(post_transfers[i]))'
  BY <1>1 DEF PlacesThere, TransferThere, There, IsChunk
<1>6. ASSUME NEW i \in DOMAIN steps', NEW j \in DOMAIN steps'[i].bindings
      PROVE  There(steps[i].bindings[j].place)'
  <2>1. CASE i \in DOMAIN steps /\ steps'[i] = steps[i]
    <3>1. There(steps[i].bindings[j].place)
      BY <1>6, <2>1 DEF PlacesThere
    <3> QED
      BY <1>1, <2>1, <3>1 DEF There, IsChunk
  <2> QED
    BY <1>6, <2>1
<1> QED
  BY <1>2, <1>3, <1>4, <1>5, <1>6 DEF PlacesThere

LEMMA BindingsStay ==
  ASSUME BindingsTrue, PlacesStay, UNCHANGED graph, NoKernelAdded, steps \in Seq(StepType), steps' \in Seq(StepType),
         \A i \in DOMAIN bindings' :
            (i \in DOMAIN bindings /\ bindings'[i] = bindings[i]) \/ BindingTrue(bindings[i])',
         Binds' /\ bindings' # <<>> => Binds /\ UNCHANGED kid /\ Ins \in Seq(Values(graph)) /\ \A i \in DOMAIN bindings' :
            \/ i \in DOMAIN bindings /\ bindings'[i] = bindings[i]
            \/ bindings'[i].role = "Input" \/ i > Len(Ins)
            \/ bindings'[i].place # NoPlace /\ bindings'[i].place = value2place'[Ins[i]],
         bindings' \in Seq(BindingType)
  PROVE  BindingsTrue'
<1>1. \A b : BindingTrue(b) => (b.role = "Input" /\ IsChunk(b.place) => b.value \in Values(graph) /\ value2place'[b.value] # NoPlace)
  BY DEF BindingTrue, PlacesStay
<1>2. (\A i \in DOMAIN bindings : BindingTrue(bindings[i]))'
  BY <1>1 DEF BindingsTrue, BindingTrue, IsChunk, NoPlace
<1>3. ASSUME Binds', NEW i \in DOMAIN bindings', i <= Len(Ins)', bindings'[i].role # "Input"
      PROVE  bindings'[i].place # NoPlace /\ bindings'[i].place = value2place'[Ins'[i]]
  <2>0. bindings' # <<>>
    BY <1>3
  <2>1. Ins' = Ins /\ Len(Ins) \in Nat /\ DOMAIN Ins = 1..Len(Ins)
    BY <1>3, <2>0 DEF Ins, Kernel
  <2>2. i \in Nat /\ i # 0
    <3>1. DOMAIN bindings' = 1..Len(bindings')
      OBVIOUS
    <3> QED
      BY <3>1
  <2>3. ~ (i > Len(Ins)) /\ i <= Len(Ins)
    BY <1>3, <2>1, <2>2
  <2>4. CASE i \in DOMAIN bindings /\ bindings'[i] = bindings[i]
    <3>1. bindings[i].place # NoPlace /\ bindings[i].place = value2place[Ins[i]]
      BY <1>3, <2>0, <2>3, <2>4 DEF BindingsTrue
    <3>2. Ins[i] \in Values(graph)
      BY <1>3, <2>0, <2>1, <2>2, <2>3
    <3> QED
      BY <2>1, <2>4, <3>1, <3>2 DEF PlacesStay
  <2> QED
    BY <1>3, <2>0, <2>1, <2>3, <2>4
<1>4. ASSUME NEW i \in DOMAIN steps', steps'[i].kind = "Kernel", NEW j \in DOMAIN steps'[i].bindings
      PROVE  BindingTrue(steps[i].bindings[j])'
  <2>1. i \in DOMAIN steps /\ steps'[i] = steps[i]
    <3>1. i \in 1..Len(steps') /\ Len(steps) \in Nat /\ Len(steps') \in Nat /\ DOMAIN steps = 1..Len(steps)
      OBVIOUS
    <3>2. ~ (i > Len(steps))
      BY <1>4, <3>1 DEF NoKernelAdded
    <3> QED
      BY <3>1, <3>2 DEF NoKernelAdded
  <2>2. BindingTrue(steps[i].bindings[j])
    BY <1>4, <2>1 DEF BindingsTrue
  <2> QED
    BY <1>1, <2>1, <2>2 DEF BindingTrue, IsChunk, NoPlace
<1> QED
  BY <1>2, <1>3, <1>4 DEF BindingsTrue, NoPlace

LEMMA UnplacedStays ==
  ASSUME Unplaced, UNCHANGED graph,
         \A k \in Kernels(graph) : \A j \in DOMAIN graph.kernels[k].outs : OutputToPlace(k, j)' =>
            OutputToPlace(k, j) /\ value2place'[graph.kernels[k].outs[j]] = value2place[graph.kernels[k].outs[j]],
         \A u \in Slots(graph) : ReadAt(graph, u) \in Workspaces(graph) /\ WorkspaceToBind(u)' =>
            WorkspaceToBind(u) /\ value2place'[ReadAt(graph, u)] = value2place[ReadAt(graph, u)]
  PROVE  Unplaced'
<1>1. (\A k \in Kernels(graph) : \A j \in DOMAIN graph.kernels[k].outs :
          OutputToPlace(k, j) => value2place[graph.kernels[k].outs[j]] = NoPlace)'
  BY DEF Unplaced, NoPlace
<1>2. (\A u \in Slots(graph) :
          ReadAt(graph, u) \in Workspaces(graph) /\ WorkspaceToBind(u) => value2place[ReadAt(graph, u)] = NoPlace)'
  BY DEF Unplaced, NoPlace
<1> QED
  BY <1>1, <1>2 DEF Unplaced

LEMMA CopiesStay ==
  ASSUME CopiesTrue, PlacesThere, UNCHANGED <<graph, value_on_tier>>,
         \A c \in DOMAIN chunks : chunks'[c].tier = chunks[c].tier,
         \A c : CopyReads(c) # {} \/ CopiesBound(c) # {} => CopyReads(c)' # {} \/ CopiesBound(c)' # {}
  PROVE  CopiesTrue'
<1> SUFFICES ASSUME NEW x \in Values(graph) \X Tier, value_on_tier[x].place # NoPlace
             PROVE  /\ IsChunk(value_on_tier[x].place)
                    /\ chunks'[value_on_tier[x].place.id].tier = x[2]
                    /\ CopyReads(value_on_tier[x].place.id)' # {} \/ CopiesBound(value_on_tier[x].place.id)' # {}
  BY DEF CopiesTrue, IsChunk, NoPlace
<1>1. /\ IsChunk(value_on_tier[x].place) /\ chunks[value_on_tier[x].place.id].tier = x[2]
      /\ CopyReads(value_on_tier[x].place.id) # {} \/ CopiesBound(value_on_tier[x].place.id) # {}
  BY DEF CopiesTrue
<1>2. value_on_tier[x].place.id \in DOMAIN chunks
  BY <1>1 DEF PlacesThere, There
<1> QED
  BY <1>1, <1>2

-----------------------------------------------------------------------------
(* bind_kernel: the inputs. *)

(* The parts of the two invariants.                                          *)
LEMMA AInvParts ==
  ASSUME IInv, AInv
  PROVE  /\ Given /\ TypeOK /\ Standing /\ Counts
         /\ Accounts /\ PlacesThere /\ BindingsTrue /\ Unplaced /\ CopiesTrue /\ CAP!IInv
         /\ graph \in Graphs /\ WellFormed(graph)
         /\ chunks \in Seq(ChunkState) /\ steps \in Seq(StepType) /\ bindings \in Seq(BindingType)
         /\ value2place \in [Values(graph) -> Place] /\ remaining \in [Values(graph) -> Nat]
         /\ post_transfers \in Seq([src : BindingType, dst : BindingType])
         /\ value_on_tier \in [Values(graph) \X Tier -> [place : Place, event : Nat, stream : Stream]]
  BY GraphTyped DEF IInv, AInv, TypeOK, Given

(* While the operands of a kernel are bound, the other uses stand.           *)
LEMMA BindingUses ==
  ASSUME IInv, AInv, Binds, Binds', UNCHANGED <<input, kid, order, post_transfers>>, PlacesStay, NoKernelAdded,
         steps' \in Seq(StepType)
  PROVE  /\ \A c : ToDeliver(c)' = ToDeliver(c) /\ CopyReads(c)' = CopyReads(c)
         /\ \A u \in Slots(graph) : Consumed(u)' <=> Consumed(u)
<1>1. BindingsTrue /\ steps \in Seq(StepType)
  BY AInvParts
<1>2. UNCHANGED <<graph, info, kid>>
  BY DEF input, order
<1>3. \A u \in Slots(graph) : Consumed(u)' <=> Consumed(u)
  BY <1>2, BindingStays
<1> QED
  BY <1>1, <1>3, CopyReadsStay, DeliveriesStay

(* The input being bound.                                                    *)
LEMMA InputNow ==
  ASSUME IInv, AInv, BindingInput
  PROVE  /\ pos \in 1..Len(Ins) /\ Len(Ins) \in Nat /\ Len(bindings) = pos - 1 /\ DOMAIN bindings = 1..(pos - 1)
         /\ Ins[pos] \in Values(graph) /\ kid \in Kernels(graph)
         /\ <<kid, pos>> \in Slots(graph) /\ ReadAt(graph, <<kid, pos>>) = Ins[pos] /\ ~ Consumed(<<kid, pos>>)
         /\ Ins \in Seq(Values(graph)) /\ TierNow \in Tier /\ StreamNow \in Stream
         /\ Binds /\ Busy /\ phase = "bind" /\ Fresh = NoChunk
<1>1. Given /\ TypeOK /\ Standing /\ bindings \in Seq(BindingType)
  BY AInvParts
<1>2. Binds /\ Busy /\ phase = "bind" /\ Fresh = NoChunk
  BY DEF BindingInput, Binds, Busy, Fresh
<1>3. /\ kid \in Kernels(graph) /\ Len(Ins) \in Nat /\ DOMAIN Ins = 1..Len(Ins) /\ Ins \in Seq(Values(graph))
      /\ TierNow \in Tier /\ StreamNow \in Stream /\ \A i \in 1..Len(Ins) : Ins[i] \in Values(graph)
  BY <1>1, <1>2, NowTyped
<1>4. pos \in 1..Len(Ins) /\ Len(bindings) = pos - 1
  BY <1>1, <1>2, <1>3 DEF Standing, BindingInput
<1>5. DOMAIN bindings = 1..(pos - 1)
  BY <1>1, <1>4
<1>6. <<kid, pos>> \in Slots(graph)
  BY <1>1, <1>3, <1>4, SlotFacts DEF Ins, Kernel
<1>7. ReadAt(graph, <<kid, pos>>) = Ins[pos]
  BY DEF ReadAt, Ins, Kernel
<1>8. ~ Consumed(<<kid, pos>>)
  BY <1>2 DEF Consumed
<1> QED
  BY <1>2, <1>3, <1>4, <1>5, <1>6, <1>7, <1>8

(* After an input is bound, what is still to be placed was so before.        *)
LEMMA InputBound ==
  ASSUME IInv, AInv, BindingInput, NEW b \in BindingType, bindings' = Append(bindings, b), pos' = pos + 1,
         UNCHANGED <<input, phase, kid, order>>
  PROVE  /\ \A k \in Kernels(graph) : \A j \in DOMAIN graph.kernels[k].outs : OutputToPlace(k, j)' => OutputToPlace(k, j)
         /\ \A u \in Slots(graph) : WorkspaceToBind(u)' => WorkspaceToBind(u) /\ u # <<kid, pos>>
         /\ DOMAIN bindings' = 1..pos /\ bindings'[pos] = b /\ \A i \in 1..(pos - 1) : bindings'[i] = bindings[i]
         /\ Ins' = Ins /\ TierNow' = TierNow /\ StreamNow' = StreamNow /\ Fresh' = NoChunk /\ Binds'
         /\ UNCHANGED <<graph, info>>
<1>1. /\ UNCHANGED <<graph, info, phase, kid>> /\ phase = "bind" /\ pos \in Nat /\ Len(Ins) \in Nat
      /\ Len(bindings) = pos - 1 /\ bindings \in Seq(BindingType)
  BY AInvParts, InputNow DEF input, order
<1>2. Ins' = Ins /\ TierNow' = TierNow /\ StreamNow' = StreamNow /\ Fresh' = NoChunk /\ Binds'
  BY <1>1 DEF Ins, Kernel, TierNow, DeviceNow, StreamNow, Fresh, Binds, NoChunk
<1>3. \A u \in Slots(graph) : u[2] \in Nat
  BY AInvParts, SlotsAreCounted
<1>4. ASSUME NEW u \in Slots(graph), WorkspaceToBind(u)' PROVE WorkspaceToBind(u) /\ u # <<kid, pos>>
  <2>1. CASE ~ info[u[1]].scheduled
    <3>1. info[kid].scheduled
      BY <1>1, AInvParts DEF Standing, Busy, Binds
    <3> QED
      BY <2>1, <3>1 DEF WorkspaceToBind
  <2>2. CASE u[1] = kid /\ u[2] >= pos'
    <3>1. u[2] >= pos /\ u[2] # pos
      BY <1>1, <1>3, <2>2
    <3> QED
      BY <1>1, <2>2, <3>1 DEF WorkspaceToBind
  <2> QED
    BY <1>1, <1>4, <2>1, <2>2 DEF WorkspaceToBind
<1>5. ASSUME NEW k \in Kernels(graph), NEW j \in DOMAIN graph.kernels[k].outs, OutputToPlace(k, j)'
      PROVE  OutputToPlace(k, j)
  <2>0. j \in Nat
    <3>1. DOMAIN graph.kernels[k].outs = 1..Len(graph.kernels[k].outs) /\ Len(graph.kernels[k].outs) \in Nat
      BY AInvParts, KernelTyped
    <3> QED
      BY <3>1
  <2>1. CASE ~ info[k].scheduled
    BY <2>1 DEF OutputToPlace
  <2>2. CASE k = kid /\ Len(Ins) + j >= pos'
    <3>1. Len(Ins) + j >= pos
      BY <1>1, <2>0, <2>2
    <3> QED
      BY <1>1, <2>2, <3>1 DEF OutputToPlace
  <2> QED
    BY <1>1, <1>2, <1>5, <2>1, <2>2 DEF OutputToPlace
<1>6. DOMAIN bindings' = 1..pos /\ bindings'[pos] = b /\ \A i \in 1..(pos - 1) : bindings'[i] = bindings[i]
  BY <1>1
<1> QED
  BY <1>1, <1>2, <1>4, <1>5, <1>6

(* The input is read where it is.                                            *)
LEMMA ReadInPlace ==
  ASSUME IInv, IInv', AInv, BindingInput, NEW p \in Place, Bind(Ins[pos], "Input", p),
         ~ IsChunk(p) \/ (p = value2place[Ins[pos]] /\ There(p)),
         UNCHANGED <<input, phase, kid, post_transfers, alloc, value2place, remaining, value_on_tier, order,
                     next_event, steps>>
  PROVE  Disciplined /\ AInv'
<1>0. PICK v, b : v = Ins[pos] /\ b = Binding(v, "Input", p)
  OBVIOUS
<1>1. /\ bindings' = Append(bindings, b) /\ pos' = pos + 1
      /\ UNCHANGED <<graph, chunks, free, value2place, value_on_tier, steps, post_transfers, input, order, kid>>
  BY <1>0 DEF Bind, alloc, input
<1>2. /\ Given /\ TypeOK /\ Accounts /\ PlacesThere /\ BindingsTrue /\ Unplaced /\ CopiesTrue /\ CAP!IInv
      /\ steps \in Seq(StepType) /\ value2place \in [Values(graph) -> Place]
  BY AInvParts
<1>3. v \in Values(graph) /\ pos \in 1..Len(Ins) /\ DOMAIN bindings = 1..(pos - 1) /\ Fresh = NoChunk /\ Binds /\ Len(Ins) \in Nat
      /\ Ins \in Seq(Values(graph))
  BY <1>0, InputNow
<1>4. b \in BindingType /\ b.value = v /\ b.role = "Input" /\ b.place = p
  BY <1>0, <1>2, <1>3, PlacesTyped DEF Binding
<1>5. /\ \A k \in Kernels(graph) : \A j \in DOMAIN graph.kernels[k].outs : OutputToPlace(k, j)' => OutputToPlace(k, j)
      /\ \A u \in Slots(graph) : WorkspaceToBind(u)' => WorkspaceToBind(u)
      /\ DOMAIN bindings' = 1..pos /\ bindings'[pos] = b /\ \A i \in 1..(pos - 1) : bindings'[i] = bindings[i]
      /\ Fresh' = NoChunk /\ Binds'
  BY <1>1, <1>4, InputBound
<1>6. PlacesStay /\ NoKernelAdded /\ steps' \in Seq(StepType) /\ bindings' \in Seq(BindingType)
  BY <1>1, <1>2, NothingAdded, AInvParts DEF PlacesStay, IInv, TypeOK
<1>7. /\ \A c : ToDeliver(c)' = ToDeliver(c) /\ CopyReads(c)' = CopyReads(c) /\ ToRead(c)' = ToRead(c)
  BY <1>1, <1>3, <1>5, <1>6, BindingUses, ReadsStay
<1>8. \A i \in DOMAIN bindings' : (i \in DOMAIN bindings /\ bindings'[i] = bindings[i]) \/ bindings'[i] = b
  BY <1>3, <1>5
<1>9. \A c : CopiesBound(c)' = CopiesBound(c)
  <2>1. \A i \in DOMAIN bindings : i \in DOMAIN bindings' /\ bindings'[i] = bindings[i]
    BY <1>3, <1>5
  <2>2. \A i \in DOMAIN bindings' : i \in DOMAIN bindings \/ bindings'[i].role # "Input" \/ ~ IsChunk(bindings'[i].place)
          \/ value2place'[bindings'[i].value] = bindings'[i].place
    BY <1>0, <1>1, <1>4, <1>8
  <2> QED
    BY <1>2, <1>3, <1>5, <1>6, <2>1, <2>2, CopiesBoundStay
<1>10. Accounts'
  <2>1. \A c : UsesOf(c)' = UsesOf(c)
    BY <1>7, <1>9 DEF UsesOf
  <2> QED
    BY <1>1, <1>2, <2>1 DEF Accounts
<1>11. PlacesThere'
  <2>1. There(b.place)'
    BY <1>1, <1>2, <1>3, <1>4 DEF There, IsChunk
  <2> QED
    BY <1>1, <1>2, <1>8, <2>1, ThereStays
<1>12. BindingsTrue'
  <2>1. BindingTrue(b)'
    <3>1. IsChunk(p) => value2place[v] # NoPlace
      BY <1>0 DEF IsChunk, NoPlace
    <3> QED
      BY <1>1, <1>3, <1>4, <3>1 DEF BindingTrue, IsChunk, NoPlace
  <2> QED
    BY <1>1, <1>2, <1>3, <1>4, <1>6, <1>8, <2>1, BindingsStay
<1>13. Unplaced'
  BY <1>1, <1>2, <1>5, UnplacedStays
<1>14. CopiesTrue'
  BY <1>1, <1>2, <1>7, <1>9, CopiesStay
<1>15. Disciplined
  BY <1>1, <1>2, <1>3, <1>5, NoCall
<1> QED
  BY <1>10, <1>11, <1>12, <1>13, <1>14, <1>15 DEF AInv, Disciplined

LEMMA BindInitializerAccounts == IInv /\ IInv' /\ AInv /\ BindInitializer => Disciplined /\ AInv'
<1> SUFFICES ASSUME IInv, IInv', AInv, BindInitializer PROVE Disciplined /\ AInv'
  OBVIOUS
<1>1. /\ BindingInput /\ Bind(Ins[pos], "Input", Initializer(Ins[pos]))
      /\ UNCHANGED <<input, phase, kid, post_transfers, alloc, value2place, remaining, value_on_tier, order,
                     next_event, steps>>
  BY DEF BindInitializer
<1>2. Initializer(Ins[pos]) \in Place /\ ~ IsChunk(Initializer(Ins[pos]))
  BY <1>1, InputNow, AInvParts, PlacesTyped DEF Initializer, IsChunk
<1> QED
  BY <1>1, <1>2, ReadInPlace

LEMMA BindStoredAccounts == IInv /\ IInv' /\ AInv /\ BindStored => Disciplined /\ AInv'
<1> SUFFICES ASSUME IInv, IInv', AInv, BindStored PROVE Disciplined /\ AInv'
  OBVIOUS
<1>1. /\ BindingInput /\ Bind(Ins[pos], "Input", value2place[Ins[pos]])
      /\ UNCHANGED <<input, phase, kid, post_transfers, alloc, value2place, remaining, value_on_tier, order,
                     next_event, steps>>
  BY DEF BindStored
<1>2. value2place[Ins[pos]] \in Place /\ There(value2place[Ins[pos]])
  BY <1>1, InputNow, AInvParts DEF PlacesThere
<1> QED
  BY <1>1, <1>2, ReadInPlace

(* What no scheduled kernel has read has all its uses before it.             *)
LEMMA NotReadYet ==
  ASSUME IInv, NEW v \in Values(graph), \A u \in Slots(graph) : ReadAt(graph, u) = v => ~ Consumed(u)
  PROVE  remaining[v] = UsesCount(graph, v) /\ remaining[v] \in UseCounts /\ graph.size[v] \in Sizes
         /\ remaining[v] \in Nat /\ graph.size[v] \in Nat
<1>1. Given /\ TypeOK /\ Counts
  BY DEF IInv
<1>2. Unread(v) = {u \in Slots(graph) : ReadAt(graph, u) = v}
  BY DEF Unread
<1>3. remaining[v] = UsesCount(graph, v)
  BY <1>1, <1>2 DEF Counts, UsesCount
<1>4. remaining[v] \in Nat /\ graph.size[v] \in Nat
  BY <1>1, GraphTyped DEF TypeOK
<1> QED
  BY <1>1, <1>3, <1>4, Asked

(* The accounts after a chunk was asked for.                                 *)
LEMMA AllocAccounts ==
  ASSUME IInv, AInv, NEW t \in Tier, NEW s \in Stream, NEW size \in Nat, NEW uses \in Nat, NEW c,
         c = NextChunk(chunks, free, t, s), chunks' = AllocChunks(chunks, free, t, s, size, uses),
         \A d : UsesOf(d)' = UsesOf(d) + IF d = c THEN uses ELSE 0
  PROVE  /\ Accounts' /\ c \in Nat \ {0} /\ \A d : d \in DOMAIN chunks' <=> d \in DOMAIN chunks \/ d = c
         /\ chunks'[c].live = uses
         /\ chunks'[c].tier = t /\ \A d \in DOMAIN chunks : chunks'[d].tier = chunks[d].tier
         /\ c \in DOMAIN chunks => chunks[c].tier = t
<1>1. CAP!IInv /\ Given /\ TypeOK /\ Accounts /\ PlacesThere
  BY AInvParts
<1>2. /\ c \in Nat \ {0} /\ \A d : d \in DOMAIN chunks' <=> d \in DOMAIN chunks \/ d = c
      /\ c \in DOMAIN chunks => chunks[c].live = 0 /\ chunks[c].tier = t
      /\ chunks'[c].live = uses /\ chunks'[c].tier = t
      /\ \A d \in DOMAIN chunks : d # c => chunks'[d] = chunks[d]
  BY <1>1, AllocFacts
<1>3. UsesOf(c) = 0
  BY <1>1, <1>2, Unused
<1>4. ASSUME NEW d \in DOMAIN chunks' PROVE chunks'[d].live = UsesOf(d)'
  <2>1. CASE d = c
    BY <1>2, <1>3, <2>1
  <2>2. CASE d # c
    <3>1. d \in DOMAIN chunks /\ chunks'[d].live = UsesOf(d)
      BY <1>1, <1>2, <2>2 DEF Accounts
    <3>2. UsesOf(d) \in Nat
      BY <1>1, UsesFinite
    <3> QED
      BY <2>2, <3>1, <3>2
  <2> QED
    BY <2>1, <2>2
<1> QED
  BY <1>2, <1>4 DEF Accounts

(* A workspace takes a chunk.                                                *)
LEMMA BindWorkspaceAccounts == IInv /\ IInv' /\ AInv /\ BindWorkspace => Disciplined /\ AInv'
<1> SUFFICES ASSUME IInv, IInv', AInv, BindWorkspace PROVE Disciplined /\ AInv'
  OBVIOUS
<1>0. PICK v, c, b, uses : v = Ins[pos] /\ c = NextChunk(chunks, free, TierNow, StreamNow)
                     /\ b = Binding(v, "Workspace", ChunkPlace(c)) /\ uses = remaining[v]
  OBVIOUS
<1>1. /\ BindingInput /\ v \in Workspaces(graph)
      /\ chunks' = AllocChunks(chunks, free, TierNow, StreamNow, graph.size[v], uses)
      /\ free' = PopFree(free, TierNow, StreamNow)
      /\ value2place' = [value2place EXCEPT ![v] = ChunkPlace(c)]
      /\ bindings' = Append(bindings, b) /\ pos' = pos + 1
      /\ UNCHANGED <<input, graph, phase, kid, post_transfers, remaining, value_on_tier, order, next_event, steps>>
  BY <1>0 DEF BindWorkspace, Bind, input
<1>2. /\ Given /\ TypeOK /\ Accounts /\ PlacesThere /\ BindingsTrue /\ Unplaced /\ CopiesTrue /\ CAP!IInv /\ Counts
      /\ steps \in Seq(StepType) /\ value2place \in [Values(graph) -> Place] /\ WellFormed(graph)
  BY AInvParts
<1>3. /\ v \in Values(graph) /\ pos \in 1..Len(Ins) /\ DOMAIN bindings = 1..(pos - 1) /\ Fresh = NoChunk /\ Binds
      /\ Ins \in Seq(Values(graph)) /\ <<kid, pos>> \in Slots(graph) /\ ReadAt(graph, <<kid, pos>>) = v
      /\ ~ Consumed(<<kid, pos>>) /\ TierNow \in Tier /\ StreamNow \in Stream /\ phase = "bind"
  BY <1>0, <1>1, InputNow
<1>4. \A u \in Slots(graph) : ReadAt(graph, u) = v => u = <<kid, pos>>
  BY <1>1, <1>2, <1>3 DEF WellFormed
<1>5. uses \in UseCounts /\ uses \in Nat /\ graph.size[v] \in Sizes /\ graph.size[v] \in Nat /\ uses = remaining[v]
      /\ uses = UsesCount(graph, v)
  BY <1>0, <1>3, <1>4, NotReadYet
<1>6. value2place[v] = NoPlace
  <2>1. WorkspaceToBind(<<kid, pos>>)
    BY <1>3 DEF WorkspaceToBind
  <2> QED
    BY <1>1, <1>2, <1>3, <2>1 DEF Unplaced
<1>7. /\ c \in Nat \ {0} /\ \A d : d \in DOMAIN chunks' <=> d \in DOMAIN chunks \/ d = c
  BY <1>0, <1>1, <1>2, <1>3, <1>5, AllocFacts
<1>8. b \in BindingType /\ b.value = v /\ b.role = "Workspace" /\ b.place = ChunkPlace(c)
  BY <1>0, <1>2, <1>3, <1>7, PlacesTyped DEF Binding
<1>9. /\ \A k \in Kernels(graph) : \A j \in DOMAIN graph.kernels[k].outs : OutputToPlace(k, j)' => OutputToPlace(k, j)
      /\ \A u \in Slots(graph) : WorkspaceToBind(u)' => WorkspaceToBind(u) /\ u # <<kid, pos>>
      /\ DOMAIN bindings' = 1..pos /\ bindings'[pos] = b /\ \A i \in 1..(pos - 1) : bindings'[i] = bindings[i]
      /\ Fresh' = NoChunk /\ Binds' /\ Ins' = Ins
  BY <1>1, <1>8, InputBound
<1>10. NoKernelAdded /\ steps' \in Seq(StepType) /\ bindings' \in Seq(BindingType)
  BY <1>1, <1>2, NothingAdded, AInvParts DEF IInv, TypeOK
<1>11. \A u \in Slots(graph) : Consumed(u)' <=> Consumed(u)
  BY <1>1, <1>3, <1>9, BindingStays DEF order
<1>12. /\ PlacesStay
       /\ \A d : Cardinality(ToRead(d)') = Cardinality(ToRead(d)) + IF ChunkPlace(c) = ChunkPlace(d) THEN remaining[v] ELSE 0
  BY <1>1, <1>2, <1>3, <1>6, <1>11, ReadsPlaced
<1>13. \A d : ToDeliver(d)' = ToDeliver(d) /\ CopyReads(d)' = CopyReads(d)
  BY <1>1, <1>3, <1>9, <1>10, <1>12, BindingUses
<1>14. \A i \in DOMAIN bindings' : (i \in DOMAIN bindings /\ bindings'[i] = bindings[i]) \/ (i = pos /\ bindings'[i] = b)
  BY <1>3, <1>9
<1>15. \A d : CopiesBound(d)' = CopiesBound(d)
  <2>1. \A i \in DOMAIN bindings : i \in DOMAIN bindings' /\ bindings'[i] = bindings[i]
    BY <1>3, <1>9
  <2>2. \A i \in DOMAIN bindings' : i \in DOMAIN bindings \/ bindings'[i].role # "Input"
    BY <1>8, <1>14
  <2> QED
    BY <1>2, <1>3, <1>9, <1>12, <2>1, <2>2, CopiesBoundStay
<1>16. \A d : UsesOf(d)' = UsesOf(d) + IF d = c THEN uses ELSE 0
  <2> SUFFICES ASSUME NEW d PROVE UsesOf(d)' = UsesOf(d) + IF d = c THEN uses ELSE 0
    OBVIOUS
  <2>1. ChunkPlace(c) = ChunkPlace(d) <=> d = c
    BY DEF ChunkPlace
  <2>2. Cardinality(ToRead(d)') = Cardinality(ToRead(d)) + IF d = c THEN uses ELSE 0
    BY <1>5, <1>12, <2>1
  <2> HIDE <1>12
  <2> QED
    BY <1>2, <1>5, <1>13, <1>15, <2>2, UsesFinite DEF UsesOf
<1>17. /\ Accounts' /\ \A d \in DOMAIN chunks : chunks'[d].tier = chunks[d].tier
  BY <1>0, <1>1, <1>3, <1>5, <1>16, AllocAccounts
<1>18. There(ChunkPlace(c))'
  BY <1>7 DEF There, ChunkPlace, IsChunk
<1>19. PlacesThere'
  <2>1. \A w \in Values(graph) : value2place'[w] = value2place[w] \/ There(value2place[w])'
    BY <1>1, <1>2, <1>3, <1>18 DEF ChunkPlace
  <2>2. There(b.place)'
    BY <1>8, <1>18 DEF ChunkPlace
  <2> QED
    BY <1>1, <1>2, <1>7, <1>14, <2>1, <2>2, ThereStays
<1>20. BindingsTrue'
  <2>1. BindingTrue(b)'
    BY <1>8 DEF BindingTrue
  <2>2. b.place # NoPlace /\ b.place = value2place'[Ins[pos]]
    BY <1>0, <1>1, <1>2, <1>3, <1>8 DEF NoPlace, ChunkPlace
  <2> QED
    BY <1>1, <1>2, <1>3, <1>9, <1>10, <1>12, <1>14, <2>1, <2>2, BindingsStay
<1>21. Unplaced'
  <2>1. ASSUME NEW k \in Kernels(graph), NEW j \in DOMAIN graph.kernels[k].outs, OutputToPlace(k, j)'
        PROVE  OutputToPlace(k, j) /\ value2place'[graph.kernels[k].outs[j]] = value2place[graph.kernels[k].outs[j]]
    <3>1. graph.kernels[k].outs[j] # v
      <4>1. Producer(graph, v) = NoKernel /\ \A p \in Kernels(graph) : p # NoKernel
        BY <1>1, <1>2, GraphTyped DEF Workspaces, NoKernel
      <4>2. ~ \E p \in Kernels(graph) : Writes(graph, p, v)
        BY <4>1, Zenon DEF Producer
      <4> QED
        BY <4>2 DEF Writes
    <3> QED
      BY <1>1, <1>2, <1>9, <2>1, <3>1
  <2>2. ASSUME NEW u \in Slots(graph), WorkspaceToBind(u)'
        PROVE  WorkspaceToBind(u) /\ value2place'[ReadAt(graph, u)] = value2place[ReadAt(graph, u)]
    <3>1. WorkspaceToBind(u) /\ ReadAt(graph, u) # v
      BY <1>4, <1>9, <2>2
    <3> QED
      BY <1>1, <1>2, <3>1
  <2> QED
    BY <1>1, <1>2, <2>1, <2>2, UnplacedStays
<1>22. CopiesTrue'
  BY <1>1, <1>2, <1>13, <1>15, <1>17, CopiesStay
<1>23. Disciplined
  <2>1. uses # 0
    <3>1. UsesCount(graph, v) # 0
      <4>1. IsFiniteSet({u \in Slots(graph) : ReadAt(graph, u) = v})
        BY <1>2, SlotFacts, FS_Subset
      <4> QED
        BY <1>3, <4>1, FS_EmptySet DEF UsesCount
    <3> QED
      BY <1>5, <3>1
  <2> QED
    BY <1>0, <1>1, <1>2, <1>3, <1>5, <1>9, <2>1, AllocCall
<1> QED
  BY <1>17, <1>19, <1>20, <1>21, <1>22, <1>23 DEF AInv, Disciplined

LEMMA ChunkPlaces ==
  ASSUME NEW p \in Place
  PROVE  IsChunk(p) => p = ChunkPlace(p.id) /\ p # NoPlace
  BY DEF Place, IsChunk, ChunkPlace, NoPlace

(* One more operand reads a copy.                                            *)
LEMMA CopyBound ==
  ASSUME Given, TypeOK, UNCHANGED value2place, Binds, Binds', NEW n \in Nat \ {0}, NEW c, NEW b,
         DOMAIN bindings = 1..(n - 1), DOMAIN bindings' = 1..n, bindings'[n] = b,
         \A i \in 1..(n - 1) : bindings'[i] = bindings[i],
         b.role = "Input", b.place = ChunkPlace(c), value2place[b.value] # b.place
  PROVE  /\ \A d : Cardinality(CopiesBound(d)') = Cardinality(CopiesBound(d)) + IF d = c THEN 1 ELSE 0
         /\ \A d : CopiesBound(d) # {} => CopiesBound(d)' # {}
         /\ CopiesBound(c)' # {}
<1> DEFINE Copy(i, d) == /\ bindings[i].role = "Input" /\ bindings[i].place = ChunkPlace(d)
                         /\ value2place[bindings[i].value] # bindings[i].place
<1>1. \A d : CopiesBound(d) = {i \in 1..(n - 1) : Copy(i, d)}
  BY DEF CopiesBound
<1>2. \A d : CopiesBound(d)' = {i \in 1..n : Copy(i, d)'}
  BY DEF CopiesBound, ChunkPlace
<1>3. \A d : \A i \in 1..(n - 1) : Copy(i, d)' <=> Copy(i, d)
  BY DEF ChunkPlace
<1>4. \A d : Copy(n, d)' <=> d = c
  BY DEF ChunkPlace
<1> HIDE DEF Copy
<1>5. n \notin 1..(n - 1) /\ \A i : i \in 1..n <=> i \in 1..(n - 1) \/ i = n
  OBVIOUS
<1>6. CopiesBound(c)' = CopiesBound(c) \cup {n} /\ n \notin CopiesBound(c)
  BY <1>1, <1>2, <1>3, <1>4, <1>5
<1>7. \A d : d # c => CopiesBound(d)' = CopiesBound(d)
  BY <1>1, <1>2, <1>3, <1>4, <1>5
<1>8. \A d : IsFiniteSet(CopiesBound(d)) /\ Cardinality(CopiesBound(d)) \in Nat
  BY UsesFinite
<1>9. Cardinality(CopiesBound(c)') = Cardinality(CopiesBound(c)) + 1
  BY <1>6, <1>8, FS_AddElement
<1>10. ASSUME NEW d PROVE Cardinality(CopiesBound(d)') = Cardinality(CopiesBound(d)) + IF d = c THEN 1 ELSE 0
  <2>1. CASE d = c
    BY <1>9, <2>1
  <2>2. CASE d # c
    BY <1>7, <1>8, <2>2
  <2> QED
    BY <2>1, <2>2
<1>11. ASSUME NEW d, CopiesBound(d) # {} PROVE CopiesBound(d)' # {}
  BY <1>6, <1>7, <1>11
<1> QED
  BY <1>6, <1>10, <1>11

(* CopiesTrue after a step, its places named.                               *)
LEMMA CopiesTrueNext ==
  ASSUME UNCHANGED graph,
         \A x \in Values(graph) \X Tier : \A p : \A d :
            p = value_on_tier'[x].place /\ p # NoPlace /\ d = p.id =>
              IsChunk(p) /\ chunks'[d].tier = x[2] /\ (CopyReads(d)' # {} \/ CopiesBound(d)' # {})
  PROVE  CopiesTrue'
<1>1. (\A x \in Values(graph) \X Tier : \A p : \A d :
         p = value_on_tier[x].place /\ p # NoPlace /\ d = p.id =>
           IsChunk(p) /\ chunks[d].tier = x[2] /\ (CopyReads(d) # {} \/ CopiesBound(d) # {}))'
  BY DEF IsChunk, NoPlace
<1> QED
  BY <1>1 DEF CopiesTrue

(* The input is read from a copy of its value.                               *)
LEMMA ReadFromCopy ==
  ASSUME IInv, IInv', AInv, BindingInput, NEW c, Bind(Ins[pos], "Input", ChunkPlace(c)), c \in Nat,
         value2place[Ins[pos]] # NoPlace, value2place[Ins[pos]] # ChunkPlace(c),
         UNCHANGED <<input, phase, kid, post_transfers, value2place, remaining, order>>, NoKernelAdded,
         c \in DOMAIN chunks', DOMAIN chunks \subseteq DOMAIN chunks',
         \A d \in DOMAIN chunks : chunks'[d].tier = chunks[d].tier,
         \A x \in Values(graph) \X Tier :
            \/ value_on_tier'[x] = value_on_tier[x]
            \/ value_on_tier'[x].place = ChunkPlace(c) /\ chunks'[c].tier = x[2],
         \A i \in DOMAIN steps' :
            \/ i \in DOMAIN steps /\ steps'[i] = steps[i]
            \/ \A j \in DOMAIN steps'[i].bindings : There(steps[i].bindings[j].place)'
  PROVE  /\ PlacesThere' /\ BindingsTrue' /\ Unplaced' /\ CopiesTrue' /\ Fresh = NoChunk /\ Fresh' = NoChunk
         /\ \A d : UsesOf(d)' = UsesOf(d) + IF d = c THEN 1 ELSE 0
<1>0. PICK v, b, n : v = Ins[pos] /\ b = Binding(v, "Input", ChunkPlace(c)) /\ n = pos
  OBVIOUS
<1>1. /\ bindings' = Append(bindings, b) /\ pos' = pos + 1
      /\ UNCHANGED <<graph, value2place, post_transfers, input, order, kid, phase>>
  BY <1>0 DEF Bind, input
<1>2. /\ Given /\ TypeOK /\ Accounts /\ PlacesThere /\ BindingsTrue /\ Unplaced /\ CopiesTrue
      /\ steps \in Seq(StepType) /\ value2place \in [Values(graph) -> Place]
  BY AInvParts
<1>3. v \in Values(graph) /\ pos \in 1..Len(Ins) /\ DOMAIN bindings = 1..(pos - 1) /\ Fresh = NoChunk /\ Binds /\ Len(Ins) \in Nat
      /\ Ins \in Seq(Values(graph))
  BY <1>0, InputNow
<1>4. b \in BindingType /\ b.value = v /\ b.role = "Input" /\ b.place = ChunkPlace(c)
  BY <1>0, <1>2, <1>3, PlacesTyped DEF Binding
<1>5. /\ \A k \in Kernels(graph) : \A j \in DOMAIN graph.kernels[k].outs : OutputToPlace(k, j)' => OutputToPlace(k, j)
      /\ \A u \in Slots(graph) : WorkspaceToBind(u)' => WorkspaceToBind(u)
      /\ DOMAIN bindings' = 1..pos /\ bindings'[pos] = b /\ \A i \in 1..(pos - 1) : bindings'[i] = bindings[i]
      /\ Fresh' = NoChunk /\ Binds'
  BY <1>1, <1>4, InputBound
<1>6. PlacesStay /\ steps' \in Seq(StepType) /\ bindings' \in Seq(BindingType)
  BY <1>1, <1>2, AInvParts DEF PlacesStay, IInv, TypeOK
<1>7. /\ \A d : ToDeliver(d)' = ToDeliver(d) /\ CopyReads(d)' = CopyReads(d) /\ ToRead(d)' = ToRead(d)
  BY <1>1, <1>3, <1>5, <1>6, BindingUses, ReadsStay
<1>8. \A i \in DOMAIN bindings' : (i \in DOMAIN bindings /\ bindings'[i] = bindings[i]) \/ bindings'[i] = b
  BY <1>3, <1>5
<1>9. /\ value2place[b.value] # b.place /\ n \in Nat \ {0} /\ DOMAIN bindings = 1..(n - 1)
      /\ DOMAIN bindings' = 1..n /\ bindings'[n] = b /\ \A i \in 1..(n - 1) : bindings'[i] = bindings[i]
  BY <1>0, <1>3, <1>4, <1>5
<1>10. /\ \A d : Cardinality(CopiesBound(d)') = Cardinality(CopiesBound(d)) + IF d = c THEN 1 ELSE 0
       /\ \A d : CopiesBound(d) # {} => CopiesBound(d)' # {}
       /\ CopiesBound(c)' # {}
  BY <1>1, <1>2, <1>3, <1>4, <1>5, <1>9, CopyBound
<1>11. \A d : UsesOf(d)' = UsesOf(d) + IF d = c THEN 1 ELSE 0
  BY <1>2, <1>7, <1>10, UsesFinite, SMTT(30) DEF UsesOf
<1>12. There(ChunkPlace(c))'
  BY DEF There, ChunkPlace, IsChunk
<1>13. PlacesThere'
  <2>1. There(b.place)'
    BY <1>4, <1>12 DEF ChunkPlace
  <2>2. \A x \in Values(graph) \X Tier : value_on_tier'[x] = value_on_tier[x] \/ There(value_on_tier[x].place)'
    BY <1>12 DEF ChunkPlace
  <2> QED
    BY <1>1, <1>2, <1>8, <2>1, <2>2, ThereStays
<1>14. BindingsTrue'
  <2>1. BindingTrue(b)'
    BY <1>0, <1>1, <1>3, <1>4 DEF BindingTrue, NoPlace
  <2> QED
    BY <1>1, <1>2, <1>3, <1>4, <1>6, <1>8, <2>1, BindingsStay
<1>15. Unplaced'
  BY <1>1, <1>2, <1>5, UnplacedStays
<1>16. CopiesTrue'
  <2>1. ASSUME NEW x \in Values(graph) \X Tier, NEW p, p = value_on_tier'[x].place, p # NoPlace, NEW d, d = p.id
        PROVE  IsChunk(p) /\ chunks'[d].tier = x[2] /\ (CopyReads(d)' # {} \/ CopiesBound(d)' # {})
    <3>1. CASE value_on_tier'[x] = value_on_tier[x]
      <4>1. IsChunk(p) /\ chunks[d].tier = x[2] /\ (CopyReads(d) # {} \/ CopiesBound(d) # {})
        BY <1>2, <2>1, <3>1 DEF CopiesTrue
      <4>2. d \in DOMAIN chunks
        BY <1>2, <2>1, <3>1, <4>1 DEF PlacesThere, There
      <4>3. CopyReads(d)' # {} \/ CopiesBound(d)' # {}
        BY <1>7, <1>10, <4>1
      <4> QED
        BY <4>1, <4>2, <4>3
    <3>2. CASE p = ChunkPlace(c) /\ chunks'[c].tier = x[2]
      BY <1>10, <2>1, <3>2 DEF ChunkPlace, IsChunk
    <3> QED
      BY <2>1, <3>1, <3>2
  <2> QED
    BY <1>1, <2>1, CopiesTrueNext
<1> QED
  BY <1>3, <1>5, <1>11, <1>13, <1>14, <1>15, <1>16

(* The accounts after uses were added to a chunk, and after one was consumed. *)
LEMMA AddUsesAccounts ==
  ASSUME IInv, AInv, NEW c \in DOMAIN chunks, NEW n \in Nat, chunks' = AddUsesTo(chunks, c, n),
         \A d : UsesOf(d)' = UsesOf(d) + IF d = c THEN n ELSE 0
  PROVE  Accounts' /\ DOMAIN chunks' = DOMAIN chunks /\ \A d \in DOMAIN chunks : chunks'[d].tier = chunks[d].tier
<1>1. chunks \in Seq(ChunkState) /\ Accounts /\ Given /\ TypeOK
  BY AInvParts
<1>2. /\ DOMAIN chunks' = DOMAIN chunks /\ \A d \in DOMAIN chunks : d # c => chunks'[d] = chunks[d]
      /\ chunks'[c].live = chunks[c].live + n /\ chunks'[c].tier = chunks[c].tier
  BY <1>1, CountFacts
<1>3. ASSUME NEW d \in DOMAIN chunks PROVE chunks'[d].live = UsesOf(d)'
  <2>1. chunks[d].live = UsesOf(d) /\ UsesOf(d) \in Nat
    BY <1>1, UsesFinite DEF Accounts
  <2>2. CASE d = c
    BY <1>2, <2>1, <2>2
  <2>3. CASE d # c
    BY <1>2, <2>1, <2>3
  <2> QED
    BY <2>2, <2>3
<1> QED
  BY <1>2, <1>3 DEF Accounts

LEMMA ConsumeAccounts ==
  ASSUME IInv, AInv, NEW c \in DOMAIN chunks, chunks' = ConsumeIn(chunks, c), chunks[c].live > 0,
         \A d : UsesOf(d)' = UsesOf(d) - IF d = c THEN 1 ELSE 0
  PROVE  Accounts' /\ DOMAIN chunks' = DOMAIN chunks /\ \A d \in DOMAIN chunks : chunks'[d].tier = chunks[d].tier
<1>1. chunks \in Seq(ChunkState) /\ Accounts /\ Given /\ TypeOK
  BY AInvParts
<1>2. /\ DOMAIN chunks' = DOMAIN chunks /\ \A d \in DOMAIN chunks : d # c => chunks'[d] = chunks[d]
      /\ chunks'[c].live = chunks[c].live - 1 /\ chunks'[c].tier = chunks[c].tier
  BY <1>1, CountFacts
<1>3. ASSUME NEW d \in DOMAIN chunks PROVE chunks'[d].live = UsesOf(d)'
  <2>1. chunks[d].live = UsesOf(d) /\ UsesOf(d) \in Nat
    BY <1>1, UsesFinite DEF Accounts
  <2>2. CASE d = c
    BY <1>2, <2>1, <2>2
  <2>3. CASE d # c
    BY <1>2, <2>1, <2>3
  <2> QED
    BY <2>2, <2>3
<1> QED
  BY <1>2, <1>3 DEF Accounts

(* A value that must be copied is not on the kernel's tier.                  *)
LEMMA NotHere ==
  ASSUME IInv, AInv, NEW v, MustCopy(v), NEW c, c \in DOMAIN chunks => chunks[c].tier = TierNow, v \in Values(graph)
  PROVE  value2place[v] # NoPlace /\ value2place[v] # ChunkPlace(c)
<1>1. value2place[v] # NoPlace /\ NeedsTransfer(v, value2place[v], TierNow)
  BY DEF MustCopy, Stored
<1>2. CASE value2place[v] = ChunkPlace(c)
  <2>1. value2place[v].kind = "Chunk" /\ value2place[v].id = c
    BY <1>2 DEF ChunkPlace
  <2>2. chunks[c].tier # TierNow
    BY <1>1, <2>1 DEF NeedsTransfer
  <2>3. There(value2place[v])
    BY AInvParts DEF PlacesThere
  <2> QED
    BY <2>1, <2>2, <2>3 DEF There, IsChunk
<1> QED
  BY <1>1, <1>2

LEMMA UseCopyAccounts == IInv /\ IInv' /\ AInv /\ UseCopy => Disciplined /\ AInv'
<1> SUFFICES ASSUME IInv, IInv', AInv, UseCopy PROVE Disciplined /\ AInv'
  OBVIOUS
<1>0. PICK v, x, copy, c : v = Ins[pos] /\ x = <<v, TierNow>> /\ copy = value_on_tier[x] /\ c = copy.place.id
  OBVIOUS
<1>1. /\ BindingInput /\ MustCopy(v) /\ copy.place # NoPlace /\ chunks' = AddUsesTo(chunks, c, 1)
      /\ steps' = IF copy.stream # StreamNow THEN Append(steps, SyncWait(DeviceNow, StreamNow, copy.event)) ELSE steps
      /\ Bind(v, "Input", copy.place)
      /\ UNCHANGED <<input, graph, phase, kid, post_transfers, free, value2place, remaining, value_on_tier, order>>
  BY <1>0 DEF UseCopy, Copied, input
<1>2. /\ Given /\ TypeOK /\ Accounts /\ PlacesThere /\ CopiesTrue /\ CAP!IInv /\ steps \in Seq(StepType) /\ Standing
      /\ value_on_tier \in [Values(graph) \X Tier -> [place : Place, event : Nat, stream : Stream]]
      /\ chunks \in Seq(ChunkState)
  BY AInvParts
<1>3. v \in Values(graph) /\ TierNow \in Tier /\ StreamNow \in Stream /\ Fresh = NoChunk /\ Busy
  BY <1>0, <1>1, InputNow
<1>4. x \in Values(graph) \X Tier /\ x[2] = TierNow
  BY <1>0, <1>3
<1>5. copy.place \in Place /\ copy.event \in Nat
  BY <1>0, <1>2, <1>4
<1>6. IsChunk(copy.place) /\ chunks[c].tier = TierNow /\ (CopyReads(c) # {} \/ CopiesBound(c) # {})
  BY <1>0, <1>1, <1>2, <1>4 DEF CopiesTrue
<1>7. c \in DOMAIN chunks /\ copy.place = ChunkPlace(c)
  BY <1>0, <1>2, <1>4, <1>5, <1>6, ChunkPlaces DEF PlacesThere, There
<1>8. chunks[c].live > 0 /\ c \in Nat
  BY <1>2, <1>6, <1>7, UsedIsLive
<1>9. value2place[v] # NoPlace /\ value2place[v] # ChunkPlace(c)
  BY <1>1, <1>3, <1>6, NotHere
<1>10. DOMAIN chunks' = DOMAIN chunks /\ \A d \in DOMAIN chunks : chunks'[d].tier = chunks[d].tier
  BY <1>1, <1>2, <1>7, CountFacts
<1>11. NoKernelAdded /\ \A i \in DOMAIN steps' :
            \/ i \in DOMAIN steps /\ steps'[i] = steps[i]
            \/ \A j \in DOMAIN steps'[i].bindings : There(steps[i].bindings[j].place)'
  <2>1. CASE copy.stream # StreamNow
    <3>1. PICK y : y = SyncWait(DeviceNow, StreamNow, copy.event)
      OBVIOUS
    <3>2. DeviceNow \in Device
      BY <1>2, <1>3, NowTyped
    <3>3. y \in StepType /\ y.kind = "SyncWait" /\ y.bindings = <<>>
      BY <1>3, <1>5, <3>1, <3>2, StepsTyped DEF SyncWait
    <3>4. steps' = Append(steps, y)
      BY <1>1, <2>1, <3>1
    <3>5. NoKernelAdded
      BY <1>2, <3>3, <3>4, StepAdded
    <3>6. \A i \in DOMAIN steps' : (i \in DOMAIN steps /\ steps'[i] = steps[i]) \/ steps'[i] = y
      BY <1>2, <3>4
    <3>7. \A j \in DOMAIN y.bindings : FALSE
      BY <3>3
    <3> QED
      BY <3>5, <3>6, <3>7
  <2>2. CASE copy.stream = StreamNow
    BY <1>1, <1>2, <2>2, NothingAdded
  <2> QED
    BY <2>1, <2>2
<1>12. /\ PlacesThere' /\ BindingsTrue' /\ Unplaced' /\ CopiesTrue' /\ Fresh' = NoChunk
       /\ \A d : UsesOf(d)' = UsesOf(d) + IF d = c THEN 1 ELSE 0
  <2>1. Bind(Ins[pos], "Input", ChunkPlace(c)) /\ value2place[Ins[pos]] # NoPlace /\ value2place[Ins[pos]] # ChunkPlace(c)
    BY <1>0, <1>1, <1>7, <1>9
  <2>2. \A z \in Values(graph) \X Tier :
          value_on_tier'[z] = value_on_tier[z] \/ (value_on_tier'[z].place = ChunkPlace(c) /\ chunks'[c].tier = z[2])
    BY <1>1
  <2>3. c \in DOMAIN chunks' /\ DOMAIN chunks \subseteq DOMAIN chunks' /\ c \in Nat
    BY <1>7, <1>8, <1>10
  <2> QED
    BY <1>1, <1>10, <1>11, <2>1, <2>2, <2>3, ReadFromCopy
<1>13. Accounts'
  BY <1>1, <1>7, <1>12, AddUsesAccounts
<1>14. Disciplined
  <2>0. c # 0
    BY <1>2, <1>7, CountFacts
  <2>1. 1 \in UseCounts /\ c # Fresh /\ free' = free
    BY <1>1, <1>3, <2>0 DEF UseCounts, NoChunk
  <2> QED
    BY <1>1, <1>2, <1>3, <1>7, <1>8, <1>12, <2>1, AddUsesCall
<1> QED
  BY <1>12, <1>13, <1>14 DEF AInv, Disciplined

LEMMA MakeCopyAccounts == IInv /\ IInv' /\ AInv /\ MakeCopy => Disciplined /\ AInv'
<1> SUFFICES ASSUME IInv, IInv', AInv, MakeCopy PROVE Disciplined /\ AInv'
  OBVIOUS
<1>0. PICK v, x, c, y, copy : /\ v = Ins[pos] /\ x = <<v, TierNow>> /\ c = NextChunk(chunks, free, TierNow, StreamNow)
        /\ y = Transfer(DeviceOfTier(TierNow), StreamNow, next_event, Binding(v, "Input", value2place[v]),
                        Binding(v, "Output", ChunkPlace(c)))
        /\ copy = [place |-> ChunkPlace(c), event |-> next_event, stream |-> StreamNow]
  OBVIOUS
<1>1. /\ BindingInput /\ MustCopy(v) /\ chunks' = AllocChunks(chunks, free, TierNow, StreamNow, graph.size[v], 1)
      /\ free' = PopFree(free, TierNow, StreamNow) /\ steps' = Append(steps, y)
      /\ value_on_tier' = [value_on_tier EXCEPT ![x] = copy]
      /\ Bind(v, "Input", ChunkPlace(c))
      /\ UNCHANGED <<input, graph, phase, kid, post_transfers, value2place, remaining, order>>
  BY <1>0 DEF MakeCopy, input
<1>2. /\ Given /\ TypeOK /\ Accounts /\ PlacesThere /\ CopiesTrue /\ CAP!IInv /\ steps \in Seq(StepType) /\ Standing
      /\ value_on_tier \in [Values(graph) \X Tier -> [place : Place, event : Nat, stream : Stream]]
      /\ next_event \in Nat
  BY AInvParts DEF TypeOK
<1>3. v \in Values(graph) /\ TierNow \in Tier /\ StreamNow \in Stream /\ Fresh = NoChunk /\ Busy
  BY <1>0, <1>1, InputNow
<1>4. x \in Values(graph) \X Tier /\ x[2] = TierNow
  BY <1>0, <1>3
<1>5. graph.size[v] \in Sizes /\ graph.size[v] \in Nat /\ 1 \in UseCounts
  BY <1>2, <1>3, Asked, GraphTyped
<1>6. /\ c \in Nat \ {0} /\ \A d : d \in DOMAIN chunks' <=> d \in DOMAIN chunks \/ d = c
      /\ c \in DOMAIN chunks => chunks[c].tier = TierNow
      /\ chunks'[c].tier = TierNow
      /\ \A d \in DOMAIN chunks : chunks'[d].tier = chunks[d].tier
  <2>1. 1 \in Nat
    OBVIOUS
  <2>2. /\ CAP!IInv /\ TierNow \in Tier /\ StreamNow \in Stream /\ graph.size[v] \in Nat
        /\ c = NextChunk(chunks, free, TierNow, StreamNow)
        /\ chunks' = AllocChunks(chunks, free, TierNow, StreamNow, graph.size[v], 1)
    BY <1>0, <1>1, <1>2, <1>3, <1>5
  <2> QED
    BY <2>1, <2>2, AllocFacts
<1>7. value2place[v] # NoPlace /\ value2place[v] # ChunkPlace(c)
  BY <1>1, <1>3, <1>6, NotHere
<1>8. value2place[v] \in Place /\ ChunkPlace(c) \in Place /\ DeviceOfTier(TierNow) \in Device
  BY <1>2, <1>3, <1>6, AInvParts, PlacesTyped, NowTyped
<1>9. /\ y \in StepType /\ y.kind = "Transfer" /\ y.bindings[1].place = value2place[v]
      /\ y.bindings[2].place = ChunkPlace(c) /\ DOMAIN y.bindings = {1, 2}
  <2>1. Binding(v, "Input", value2place[v]) \in BindingType /\ Binding(v, "Output", ChunkPlace(c)) \in BindingType
    BY <1>2, <1>3, <1>8, PlacesTyped
  <2>2. y \in StepType
    BY <1>0, <1>2, <1>3, <1>8, <2>1, StepsTyped
  <2>3. y.kind = "Transfer" /\ y.bindings = <<Binding(v, "Input", value2place[v]), Binding(v, "Output", ChunkPlace(c))>>
    BY <1>0 DEF Transfer
  <2> QED
    BY <2>2, <2>3 DEF Binding
<1>10. /\ NoKernelAdded /\ \A i \in DOMAIN steps' :
            \/ i \in DOMAIN steps /\ steps'[i] = steps[i]
            \/ \A j \in DOMAIN steps'[i].bindings : There(steps[i].bindings[j].place)'
  <2>1. NoKernelAdded
    BY <1>1, <1>2, <1>9, StepAdded
  <2>2. \A i \in DOMAIN steps' : (i \in DOMAIN steps /\ steps'[i] = steps[i]) \/ steps'[i] = y
    BY <1>1, <1>2, <1>9
  <2>3. There(y.bindings[1].place)' /\ There(y.bindings[2].place)'
    <3>1. There(value2place[v])
      BY <1>2, <1>3 DEF PlacesThere
    <3> QED
      BY <1>6, <1>9, <3>1 DEF There, IsChunk, ChunkPlace
  <2>4. \A j \in DOMAIN y.bindings : There(y.bindings[j].place)'
    BY <1>9, <2>3
  <2> QED
    BY <2>1, <2>2, <2>4 DEF There, IsChunk
<1>11. \A z \in Values(graph) \X Tier :
          value_on_tier'[z] = value_on_tier[z] \/ (value_on_tier'[z].place = ChunkPlace(c) /\ chunks'[c].tier = z[2])
  <2>1. copy.place = ChunkPlace(c)
    BY <1>0
  <2>2. \A z \in Values(graph) \X Tier : value_on_tier'[z] = IF z = x THEN copy ELSE value_on_tier[z]
    BY <1>1, <1>2
  <2> QED
    BY <1>4, <1>6, <2>1, <2>2
<1>12. /\ PlacesThere' /\ BindingsTrue' /\ Unplaced' /\ CopiesTrue' /\ Fresh' = NoChunk
       /\ \A d : UsesOf(d)' = UsesOf(d) + IF d = c THEN 1 ELSE 0
  <2>1. Bind(Ins[pos], "Input", ChunkPlace(c)) /\ value2place[Ins[pos]] # NoPlace /\ value2place[Ins[pos]] # ChunkPlace(c)
    BY <1>0, <1>1, <1>7
  <2>2. c \in DOMAIN chunks' /\ DOMAIN chunks \subseteq DOMAIN chunks' /\ c \in Nat
    BY <1>6
  <2> QED
    BY <1>1, <1>6, <1>10, <1>11, <2>1, <2>2, ReadFromCopy
<1>13. Accounts'
  <2>1. 1 \in Nat
    OBVIOUS
  <2> QED
    BY <1>0, <1>1, <1>3, <1>5, <1>12, <2>1, AllocAccounts
<1>14. Disciplined
  BY <1>0, <1>1, <1>2, <1>3, <1>5, <1>12, AllocCall
<1> QED
  BY <1>12, <1>13, <1>14 DEF AInv, Disciplined

-----------------------------------------------------------------------------
(* bind_kernel: the outputs. *)

(* A value has one writer.                                                   *)
LEMMA OneWriter ==
  ASSUME Given, NEW v \in Values(graph), NEW j \in Kernels(graph), NEW k \in Kernels(graph),
         Writes(graph, j, v), Writes(graph, k, v)
  PROVE  j = k
<1> DEFINE W == {w \in Kernels(graph) : Writes(graph, w, v)}
<1>1. Cardinality(W) <= 1
  BY GraphTyped DEF WellFormed
<1>2. IsFiniteSet(W) /\ j \in W /\ k \in W
  BY KernelsFinite, FS_Subset
<1> HIDE DEF W
<1> SUFFICES ASSUME j # k PROVE FALSE
  OBVIOUS
<1>3. IsFiniteSet({j}) /\ Cardinality({j}) = 1
  BY FS_Singleton
<1>4. Cardinality({j} \cup {k}) = 2
  BY <1>3, FS_AddElement
<1>5. {j} \cup {k} \subseteq W
  BY <1>2
<1>6. Cardinality({j} \cup {k}) <= Cardinality(W) /\ Cardinality(W) \in Nat
  BY <1>2, <1>5, FS_Subset, FS_CardinalityType
<1> QED
  BY <1>1, <1>4, <1>6

(* What a kernel writes is no workspace.                                     *)
LEMMA WrittenIsNoWorkspace ==
  ASSUME Given, NEW k \in Kernels(graph), NEW v, Writes(graph, k, v)
  PROVE  v \notin Workspaces(graph)
<1>1. \A p \in Kernels(graph) : p # NoKernel
  BY GraphTyped DEF NoKernel
<1>2. Producer(graph, v) \in Kernels(graph)
  BY DEF Producer
<1> QED
  BY <1>1, <1>2 DEF Workspaces

(* The output of the kernel that the scheduler stands at.                    *)
LEMMA OutputNow ==
  ASSUME IInv, AInv, Binds, pos \in (Len(Ins) + 1)..(Len(Ins) + Len(Outs))
  PROVE  /\ Busy /\ kid \in Kernels(graph) /\ info[kid].scheduled /\ Len(Ins) \in Nat /\ Len(Outs) \in Nat /\ pos \in Nat
         /\ Out \in Values(graph) /\ Writes(graph, kid, Out) /\ Out = graph.kernels[kid].outs[pos - Len(Ins)]
         /\ pos - Len(Ins) \in DOMAIN graph.kernels[kid].outs
         /\ remaining[Out] \in UseCounts /\ remaining[Out] \in Nat /\ graph.size[Out] \in Sizes /\ graph.size[Out] \in Nat
<1>1. Given /\ TypeOK /\ Standing /\ Counts /\ Busy
  BY AInvParts DEF Busy
<1>2. /\ kid \in Kernels(graph) /\ Len(Ins) \in Nat /\ Len(Outs) \in Nat /\ DOMAIN Outs = 1..Len(Outs)
      /\ Out \in Values(graph) /\ info[kid].scheduled
  BY <1>1, NowTyped, OutTyped DEF Standing
<1>3. pos - Len(Ins) \in DOMAIN Outs
  BY <1>2
<1>4. Writes(graph, kid, Out)
  BY <1>3 DEF Writes, Out, Outs, Kernel
<1>5. ASSUME NEW u \in Slots(graph), ReadAt(graph, u) = Out PROVE ~ Consumed(u)
  <2>1. u[1] \in Kernels(graph) /\ u[2] \in DOMAIN graph.kernels[u[1]].ins /\ graph.kernels[u[1]].ins[u[2]] = Out
    BY <1>1, <1>5, SlotFacts DEF ReadAt
  <2>2. u[1] # kid
    BY <1>1, <1>4, <2>1, GraphTyped DEF WellFormed
  <2>3. kid \in Preds(graph, u[1])
    BY <1>2, <1>4, <2>1, <2>2 DEF Preds
  <2>4. kid \in deps.preds[u[1]]
    BY <1>1, <2>1, <2>3 DEF Given, Deps
  <2>5. ~ Done(kid)
    BY <1>1 DEF Done
  <2>6. ~ info[u[1]].scheduled
    BY <1>1, <2>1, <2>4, <2>5 DEF Counts
  <2> QED
    BY <2>6 DEF Consumed
<1>6. remaining[Out] \in UseCounts /\ remaining[Out] \in Nat /\ graph.size[Out] \in Sizes /\ graph.size[Out] \in Nat
  <2>1. PICK v : v = Out
    OBVIOUS
  <2>2. v \in Values(graph) /\ \A u \in Slots(graph) : ReadAt(graph, u) = v => ~ Consumed(u)
    BY <1>2, <1>5, <2>1
  <2> QED
    BY <2>1, <2>2, NotReadYet
<1> QED
  BY <1>1, <1>2, <1>3, <1>4, <1>6 DEF Out, Outs, Kernel

LEMMA BindingOutputNow ==
  ASSUME IInv, AInv, BindingOutput
  PROVE  /\ Binds /\ phase = "bind" /\ pos \in (Len(Ins) + 1)..(Len(Ins) + Len(Outs)) /\ Fresh = NoChunk
         /\ value2place[Out] = NoPlace
<1>1. Given /\ TypeOK /\ Standing /\ Unplaced
  BY AInvParts
<1>2. Binds /\ Busy /\ phase = "bind" /\ Fresh = NoChunk
  BY DEF BindingOutput, Binds, Busy, Fresh
<1>3. pos \in (Len(Ins) + 1)..(Len(Ins) + Len(Outs))
  BY <1>1, <1>2, NowTyped DEF Standing, BindingOutput
<1>4. PICK j : j = pos - Len(Ins)
  OBVIOUS
<1>5. /\ kid \in Kernels(graph) /\ j \in DOMAIN graph.kernels[kid].outs /\ Out = graph.kernels[kid].outs[j]
      /\ Len(Ins) \in Nat /\ pos \in Nat
  BY <1>2, <1>3, <1>4, OutputNow
<1>6. OutputToPlace(kid, j)
  BY <1>2, <1>4, <1>5 DEF OutputToPlace
<1> QED
  BY <1>1, <1>2, <1>3, <1>5, <1>6 DEF Unplaced

(* The output gets its place, and its readers read there.                    *)
LEMMA OutputAccounts ==
  ASSUME IInv, IInv', AInv, BindingOutput, NEW p \in Place, PutOutput(p), There(p)',
         DOMAIN chunks \subseteq DOMAIN chunks', \A d \in DOMAIN chunks : chunks'[d].tier = chunks[d].tier
  PROVE  /\ PlacesThere' /\ BindingsTrue' /\ Unplaced' /\ CopiesTrue' /\ Fresh = NoChunk
         /\ \A d : UsesOf(d)' = UsesOf(d) + IF p = ChunkPlace(d) THEN remaining[Out] ELSE 0
         /\ Fresh' = IF IsChunk(p) /\ chunks'[p.id].live = 0 THEN p.id ELSE NoChunk
<1>0. PICK v, j, n : v = Out /\ j = pos - Len(Ins) /\ n = remaining[v]
  OBVIOUS
<1>1. /\ value2place' = [value2place EXCEPT ![v] = p] /\ phase' = "deliver"
      /\ UNCHANGED <<input, graph, kid, pos, bindings, post_transfers, remaining, value_on_tier, order, info, next_event, steps>>
  BY <1>0 DEF PutOutput, input, order
<1>2. /\ Given /\ TypeOK /\ Standing /\ Counts /\ Accounts /\ PlacesThere /\ BindingsTrue /\ Unplaced /\ CopiesTrue
      /\ steps \in Seq(StepType) /\ value2place \in [Values(graph) -> Place] /\ bindings \in Seq(BindingType)
      /\ WellFormed(graph)
  BY AInvParts
<1>3. /\ Binds /\ phase = "bind" /\ pos \in (Len(Ins) + 1)..(Len(Ins) + Len(Outs)) /\ Fresh = NoChunk
      /\ value2place[v] = NoPlace
  BY <1>0, BindingOutputNow
<1>4. /\ Busy /\ kid \in Kernels(graph) /\ info[kid].scheduled /\ Len(Ins) \in Nat /\ pos \in Nat
      /\ v \in Values(graph) /\ Writes(graph, kid, v) /\ v = graph.kernels[kid].outs[j]
      /\ j \in DOMAIN graph.kernels[kid].outs /\ n \in Nat
  BY <1>0, <1>3, OutputNow
<1>5. Binds' /\ Ins' = Ins /\ Out' = v /\ value2place'[v] = p
  BY <1>0, <1>1, <1>2, <1>4 DEF Binds, Ins, Out, Outs, Kernel
<1>6. \A u \in Slots(graph) : Consumed(u)' <=> Consumed(u)
  BY <1>1, <1>3, <1>5, BindingStays
<1>7. /\ PlacesStay
      /\ \A d : Cardinality(ToRead(d)') = Cardinality(ToRead(d)) + IF p = ChunkPlace(d) THEN n ELSE 0
  BY <1>0, <1>1, <1>2, <1>3, <1>4, <1>6, ReadsPlaced
<1>8. NoKernelAdded /\ steps' \in Seq(StepType) /\ bindings' \in Seq(BindingType)
  BY <1>1, <1>2, NothingAdded
<1>9. \A d : ToDeliver(d)' = ToDeliver(d) /\ CopyReads(d)' = CopyReads(d)
  BY <1>1, <1>3, <1>5, <1>7, <1>8, BindingUses
<1>10. \A d : CopiesBound(d)' = CopiesBound(d)
  BY <1>1, <1>2, <1>3, <1>5, <1>7, CopiesBoundStay
<1>11. \A d : UsesOf(d)' = UsesOf(d) + IF p = ChunkPlace(d) THEN n ELSE 0
  <2> SUFFICES ASSUME NEW d PROVE UsesOf(d)' = UsesOf(d) + IF p = ChunkPlace(d) THEN n ELSE 0
    OBVIOUS
  <2>1. Cardinality(ToRead(d)') = Cardinality(ToRead(d)) + IF p = ChunkPlace(d) THEN n ELSE 0
    BY <1>7
  <2> HIDE <1>7
  <2> QED
    BY <1>2, <1>4, <1>9, <1>10, <2>1, UsesFinite DEF UsesOf
<1>12. PlacesThere'
  <2>1. \A w \in Values(graph) : value2place'[w] = value2place[w] \/ There(value2place[w])'
    <3>1. There(p)'
      OBVIOUS
    <3>2. \A w \in Values(graph) : value2place'[w] = value2place[w] \/ value2place'[w] = p
      BY <1>1, <1>2
    <3> QED
      BY <3>1, <3>2 DEF There, IsChunk
  <2> QED
    BY <1>1, <1>2, <2>1, ThereStays
<1>13. BindingsTrue'
  BY <1>1, <1>2, <1>3, <1>4, <1>5, <1>7, <1>8, BindingsStay, NowTyped
<1>14. Unplaced'
  <2>1. ASSUME NEW k \in Kernels(graph), NEW i \in DOMAIN graph.kernels[k].outs, OutputToPlace(k, i)'
        PROVE  OutputToPlace(k, i) /\ value2place'[graph.kernels[k].outs[i]] = value2place[graph.kernels[k].outs[i]]
    <3>1. i \in Nat /\ graph.kernels[k].outs[i] \in Values(graph) /\ Writes(graph, k, graph.kernels[k].outs[i])
      <4>1. graph.kernels[k].outs \in Seq(Values(graph))
        BY <1>2, KernelTyped
      <4> QED
        BY <2>1, <4>1 DEF Writes
    <3>2. OutputToPlace(k, i) /\ (k = kid => i # j)
      <4>1. CASE ~ info[k].scheduled
        BY <1>4, <4>1 DEF OutputToPlace
      <4>2. CASE k = kid /\ Len(Ins) + i > pos
        <5>1. Len(Ins) + i >= pos /\ i # j
          BY <1>0, <1>4, <3>1, <4>2
        <5> QED
          BY <1>3, <4>2, <5>1 DEF OutputToPlace
      <4> QED
        BY <1>1, <1>5, <2>1, <4>1, <4>2 DEF OutputToPlace
    <3>3. graph.kernels[k].outs[i] # v
      <4>1. CASE k = kid
        BY <1>2, <1>4, <2>1, <3>2, <4>1 DEF WellFormed
      <4>2. CASE k # kid
        BY <1>2, <1>4, <2>1, <3>1, <4>2, OneWriter
      <4> QED
        BY <4>1, <4>2
    <3> QED
      BY <1>1, <1>2, <3>1, <3>2, <3>3
  <2>2. ASSUME NEW u \in Slots(graph), ReadAt(graph, u) \in Workspaces(graph), WorkspaceToBind(u)'
        PROVE  WorkspaceToBind(u) /\ value2place'[ReadAt(graph, u)] = value2place[ReadAt(graph, u)]
    <3>1. ReadAt(graph, u) # v
      BY <1>2, <1>4, <2>2, WrittenIsNoWorkspace
    <3>2. WorkspaceToBind(u)
      BY <1>1, <2>2 DEF WorkspaceToBind
    <3> QED
      BY <1>1, <1>2, <3>1, <3>2
  <2> QED
    BY <1>1, <1>2, <2>1, <2>2, UnplacedStays
<1>15. CopiesTrue'
  BY <1>1, <1>2, <1>9, <1>10, CopiesStay
<1>16. Fresh' = IF IsChunk(p) /\ chunks'[p.id].live = 0 THEN p.id ELSE NoChunk
  BY <1>1, <1>5 DEF Fresh, IsChunk, NoChunk
<1> QED
  BY <1>0, <1>3, <1>11, <1>12, <1>13, <1>14, <1>15, <1>16

(* The first operand is bound first, so that it is found there.              *)
LEMMA BoundToFirst ==
  ASSUME IInv, AInv, BindingOutput
  PROVE  1 \in DOMAIN bindings /\ bindings[1].value = Ins[1] /\ BoundPlace(Ins[1]) = bindings[1].place
<1>1. /\ Given /\ TypeOK /\ Standing /\ bindings \in Seq(BindingType)
  BY AInvParts
<1>2. /\ Binds /\ Busy /\ pos \in (Len(Ins) + 1)..(Len(Ins) + Len(Outs)) /\ phase = "bind"
  BY BindingOutputNow DEF Busy
<1>3. Len(Ins) \in Nat \ {0} /\ pos > Len(Ins) /\ pos \in Nat /\ Len(Outs) \in Nat
  BY <1>1, <1>2, NowTyped
<1>4. DOMAIN bindings = 1..(pos - 1) /\ 1 \in DOMAIN bindings /\ 1 <= Len(Ins)
  BY <1>1, <1>2, <1>3 DEF Standing
<1>5. bindings[1].value = Ins[1]
  BY <1>1, <1>2, <1>4 DEF Standing
<1> DEFINE P(i) == bindings[i].value = Ins[1] /\ \A j \in 1..(i - 1) : bindings[j].value # Ins[1]
           w == CHOOSE i \in DOMAIN bindings : P(i)
<1>6. P(1)
  BY <1>5
<1>7. w \in DOMAIN bindings /\ P(w)
  <2> HIDE DEF P
  <2> QED
    BY <1>4, <1>6
<1>8. w = 1
  <2> HIDE DEF w
  <2> QED
    BY <1>3, <1>4, <1>5, <1>7
<1>9. BoundPlace(Ins[1]) = bindings[w].place
  BY DEF BoundPlace
<1> HIDE DEF w
<1> QED
  BY <1>4, <1>5, <1>8, <1>9

(* What a kernel's first input is bound to is in use while its outputs are   *)
(* placed.                                                                   *)
LEMMA FirstIsHeld ==
  ASSUME IInv, AInv, BindingOutput, GivenPlace # NoPlace
  PROVE  GivenPlace \in Place /\ There(GivenPlace) /\ (IsChunk(GivenPlace) => chunks[GivenPlace.id].live > 0)
<1>1. /\ Given /\ TypeOK /\ Standing /\ Accounts /\ PlacesThere /\ BindingsTrue /\ bindings \in Seq(BindingType)
  BY AInvParts
<1>2. /\ Binds /\ Busy /\ pos \in (Len(Ins) + 1)..(Len(Ins) + Len(Outs)) /\ phase = "bind"
  BY BindingOutputNow DEF Busy
<1>3. kid \in Kernels(graph) /\ Len(Ins) \in Nat \ {0} /\ DOMAIN Ins = 1..Len(Ins) /\ pos > Len(Ins) /\ pos \in Nat /\ Len(Outs) \in Nat
  BY <1>1, <1>2, NowTyped
<1>4. Len(bindings) = pos - 1 /\ DOMAIN bindings = 1..(pos - 1) /\ 1 \in DOMAIN bindings /\ 1 <= Len(Ins)
  BY <1>1, <1>2, <1>3 DEF Standing
<1>5. bindings[1].value = Ins[1]
  BY <1>1, <1>2, <1>4 DEF Standing
<1>6. BoundPlace(Ins[1]) = bindings[1].place
  BY BoundToFirst
<1>7. GivenPlace = bindings[1].place
  <2>1. ForwardPlace # NoPlace => ForwardPlace = BoundPlace(Ins[1])
    BY DEF ForwardPlace
  <2>2. InPlacePlace # NoPlace => InPlacePlace = BoundPlace(Ins[1])
    BY DEF InPlacePlace, InPlaceInput, Ins, Kernel
  <2> QED
    BY <1>6, <2>1, <2>2 DEF GivenPlace
<1>8. bindings[1].place \in Place /\ There(bindings[1].place)
  <2>1. bindings[1] \in BindingType
    BY <1>1, <1>4
  <2> QED
    BY <1>1, <1>4, <2>1 DEF BindingType, PlacesThere
<1>9. ASSUME IsChunk(bindings[1].place) PROVE chunks[bindings[1].place.id].live > 0
  <2>1. PICK c : c = bindings[1].place.id
    OBVIOUS
  <2>2. bindings[1].place = ChunkPlace(c) /\ c \in DOMAIN chunks
    BY <1>8, <1>9, <2>1, ChunkPlaces DEF There
  <2>3. CASE value2place[Ins[1]] = ChunkPlace(c)
    <3>1. <<kid, 1>> \in Slots(graph) /\ ReadAt(graph, <<kid, 1>>) = Ins[1]
      BY <1>1, <1>3, <1>4, SlotFacts DEF ReadAt, Ins, Kernel
    <3>2. ~ Consumed(<<kid, 1>>)
      BY <1>2 DEF Consumed
    <3>3. <<kid, 1>> \in ToRead(c)
      BY <2>3, <3>1, <3>2 DEF ToRead
    <3> QED
      BY <1>1, <2>1, <2>2, <3>3, UsedIsLive
  <2>4. CASE value2place[Ins[1]] # ChunkPlace(c)
    <3>1. bindings[1].role = "Input"
      BY <1>1, <1>2, <1>4, <2>2, <2>4 DEF BindingsTrue
    <3>2. 1 \in CopiesBound(c)
      BY <1>2, <1>4, <1>5, <2>2, <2>4, <3>1 DEF CopiesBound
    <3> QED
      BY <1>1, <2>1, <2>2, <3>2, UsedIsLive
  <2> QED
    BY <2>3, <2>4
<1> QED
  BY <1>7, <1>8, <1>9

LEMMA PlaceInPlaceAccounts == IInv /\ IInv' /\ AInv /\ PlaceInPlace => Disciplined /\ AInv'
<1> SUFFICES ASSUME IInv, IInv', AInv, PlaceInPlace PROVE Disciplined /\ AInv'
  OBVIOUS
<1>0. PICK p, c, n : p = GivenPlace /\ c = p.id /\ n = remaining[Out]
  OBVIOUS
<1>1. /\ BindingOutput /\ p # NoPlace /\ PutOutput(p) /\ free' = free
      /\ chunks' = IF IsChunk(p) THEN AddUsesTo(chunks, c, n) ELSE chunks
  BY <1>0 DEF PlaceInPlace
<1>2. /\ Given /\ TypeOK /\ Accounts /\ CAP!IInv /\ chunks \in Seq(ChunkState)
  BY AInvParts
<1>3. p \in Place /\ There(p) /\ (IsChunk(p) => chunks[c].live > 0)
  BY <1>0, <1>1, FirstIsHeld
<1>4. n \in UseCounts /\ n \in Nat
  BY <1>0, <1>1, BindingOutputNow, OutputNow
<1>5. IsChunk(p) => p = ChunkPlace(c) /\ c \in DOMAIN chunks
  BY <1>0, <1>3, ChunkPlaces DEF There
<1>6. DOMAIN chunks' = DOMAIN chunks /\ \A d \in DOMAIN chunks : chunks'[d].tier = chunks[d].tier
  <2>1. CASE IsChunk(p)
    BY <1>1, <1>2, <1>5, <2>1, CountFacts
  <2>2. CASE ~ IsChunk(p)
    BY <1>1, <2>2
  <2> QED
    BY <2>1, <2>2
<1>7. There(p)'
  BY <1>3, <1>6 DEF There, IsChunk
<1>8. /\ PlacesThere' /\ BindingsTrue' /\ Unplaced' /\ CopiesTrue' /\ Fresh = NoChunk
      /\ \A d : UsesOf(d)' = UsesOf(d) + IF p = ChunkPlace(d) THEN n ELSE 0
      /\ Fresh' = IF IsChunk(p) /\ chunks'[p.id].live = 0 THEN p.id ELSE NoChunk
  <2>1. DOMAIN chunks \subseteq DOMAIN chunks'
    BY <1>6
  <2> QED
    BY <1>0, <1>1, <1>3, <1>6, <1>7, <2>1, OutputAccounts
<1>9. CASE IsChunk(p)
  <2>1. chunks' = AddUsesTo(chunks, c, n) /\ c \in DOMAIN chunks /\ chunks[c].live > 0 /\ p = ChunkPlace(c)
    BY <1>1, <1>3, <1>5, <1>9
  <2>2. \A d : p = ChunkPlace(d) <=> d = c
    BY <2>1 DEF ChunkPlace
  <2>3. \A d : UsesOf(d)' = UsesOf(d) + IF d = c THEN n ELSE 0
    BY <1>8, <2>2
  <2>4. Accounts'
    BY <1>4, <2>1, <2>3, AddUsesAccounts
  <2>5. chunks'[c].live = chunks[c].live + n /\ chunks[c].live \in Nat /\ c # 0
    BY <1>2, <2>1, CountFacts
  <2>6. chunks'[c].live # 0
    BY <1>4, <2>1, <2>5
  <2>7. Fresh' = NoChunk
    BY <1>0, <1>8, <2>6
  <2>8. Disciplined
    BY <1>1, <1>2, <1>4, <1>8, <2>1, <2>5, <2>7, AddUsesCall DEF NoChunk
  <2> QED
    BY <1>8, <2>4, <2>8 DEF AInv, Disciplined
<1>10. CASE ~ IsChunk(p)
  <2>1. UNCHANGED <<chunks, free>> /\ Fresh' = Fresh
    BY <1>1, <1>8, <1>10
  <2>2. \A d : UsesOf(d)' = UsesOf(d)
    <3>1. \A d : p # ChunkPlace(d) /\ UsesOf(d) \in Nat
      BY <1>2, <1>10, UsesFinite DEF ChunkPlace, IsChunk
    <3> QED
      BY <1>8, <3>1
  <2>3. Accounts'
    BY <1>2, <2>1, <2>2 DEF Accounts
  <2>4. Disciplined
    BY <1>2, <2>1, NoCall
  <2> QED
    BY <1>8, <2>3, <2>4 DEF AInv, Disciplined
<1> QED
  BY <1>9, <1>10

LEMMA PlaceOnOutputAccounts == IInv /\ IInv' /\ AInv /\ PlaceOnOutput => Disciplined /\ AInv'
<1> SUFFICES ASSUME IInv, IInv', AInv, PlaceOnOutput PROVE Disciplined /\ AInv'
  OBVIOUS
<1>0. PICK p, n : p = OutputPlace(output_alias[Out]) /\ n = remaining[Out]
  OBVIOUS
<1>1. BindingOutput /\ output_alias[Out] # NoValue /\ PutOutput(p) /\ UNCHANGED <<chunks, free>>
  BY <1>0 DEF PlaceOnOutput, alloc, ToOutputBuffer
<1>2. Given /\ TypeOK /\ Standing /\ Accounts /\ CAP!IInv
  BY AInvParts
<1>3. p \in Place /\ ~ IsChunk(p)
  BY <1>0, <1>1, <1>2, BindingOutputNow, OutTyped DEF OutputPlace, IsChunk
<1>4. There(p)'
  BY <1>3 DEF There, IsChunk
<1>5. /\ PlacesThere' /\ BindingsTrue' /\ Unplaced' /\ CopiesTrue' /\ Fresh = NoChunk
      /\ \A d : UsesOf(d)' = UsesOf(d) + IF p = ChunkPlace(d) THEN n ELSE 0
      /\ Fresh' = IF IsChunk(p) /\ chunks'[p.id].live = 0 THEN p.id ELSE NoChunk
  BY <1>0, <1>1, <1>3, <1>4, OutputAccounts
<1>6. \A d : UsesOf(d)' = UsesOf(d)
  <2>1. \A d : p # ChunkPlace(d) /\ UsesOf(d) \in Nat
    BY <1>2, <1>3, UsesFinite DEF ChunkPlace, IsChunk
  <2> QED
    BY <1>5, <2>1
<1>7. Accounts'
  BY <1>1, <1>2, <1>6 DEF Accounts
<1>8. Disciplined
  BY <1>1, <1>2, <1>3, <1>5, NoCall
<1> QED
  BY <1>5, <1>7, <1>8 DEF AInv, Disciplined

LEMMA PlaceOnChunkAccounts == IInv /\ IInv' /\ AInv /\ PlaceOnChunk => Disciplined /\ AInv'
<1> SUFFICES ASSUME IInv, IInv', AInv, PlaceOnChunk PROVE Disciplined /\ AInv'
  OBVIOUS
<1>0. PICK p, c, n, z : /\ c = NextChunk(chunks, free, TierNow, StreamNow) /\ p = ChunkPlace(c) /\ n = remaining[Out]
        /\ z = graph.size[Out]
  OBVIOUS
<1>1. /\ BindingOutput /\ PutOutput(p) /\ chunks' = AllocChunks(chunks, free, TierNow, StreamNow, z, n)
      /\ free' = PopFree(free, TierNow, StreamNow)
  BY <1>0 DEF PlaceOnChunk
<1>2. Given /\ TypeOK /\ Standing /\ Accounts /\ CAP!IInv
  BY AInvParts
<1>3. Binds /\ Busy /\ TierNow \in Tier /\ StreamNow \in Stream
  BY <1>1, <1>2, BindingOutputNow, NowTyped DEF Busy
<1>4. n \in UseCounts /\ n \in Nat /\ z \in Sizes /\ z \in Nat
  BY <1>0, <1>1, BindingOutputNow, OutputNow
<1>5. /\ c \in Nat \ {0} /\ \A d : d \in DOMAIN chunks' <=> d \in DOMAIN chunks \/ d = c
      /\ c \in DOMAIN chunks => chunks[c].live = 0 /\ chunks[c].tier = TierNow
      /\ chunks'[c].live = n /\ chunks'[c].tier = TierNow
      /\ \A d \in DOMAIN chunks : d # c => chunks'[d] = chunks[d]
  BY <1>0, <1>1, <1>2, <1>3, <1>4, AllocFacts
<1>6. p \in Place /\ IsChunk(p) /\ p.id = c
  BY <1>0, <1>2, <1>5, PlacesTyped DEF ChunkPlace, IsChunk
<1>7. There(p)'
  BY <1>5, <1>6 DEF There, IsChunk
<1>8. DOMAIN chunks \subseteq DOMAIN chunks' /\ \A d \in DOMAIN chunks : chunks'[d].tier = chunks[d].tier
  BY <1>5
<1>9. /\ PlacesThere' /\ BindingsTrue' /\ Unplaced' /\ CopiesTrue' /\ Fresh = NoChunk
      /\ \A d : UsesOf(d)' = UsesOf(d) + IF p = ChunkPlace(d) THEN n ELSE 0
      /\ Fresh' = IF IsChunk(p) /\ chunks'[p.id].live = 0 THEN p.id ELSE NoChunk
  BY <1>0, <1>1, <1>6, <1>7, <1>8, OutputAccounts
<1>10. \A d : UsesOf(d)' = UsesOf(d) + IF d = c THEN n ELSE 0
  <2>1. \A d : p = ChunkPlace(d) <=> d = c
    BY <1>0 DEF ChunkPlace
  <2> QED
    BY <1>9, <2>1
<1>11. Accounts'
  BY <1>0, <1>1, <1>3, <1>4, <1>10, AllocAccounts
<1>12. Disciplined
  <2>1. Fresh' = IF n = 0 THEN NextChunk(chunks, free, TierNow, StreamNow) ELSE NoChunk
    BY <1>0, <1>5, <1>6, <1>9
  <2> QED
    BY <1>1, <1>2, <1>3, <1>4, <1>9, <2>1, AllocCall
<1> QED
  BY <1>9, <1>11, <1>12 DEF AInv, Disciplined

(* What the output stands on while it is delivered and released.             *)
LEMMA OutputHeld ==
  ASSUME IInv, AInv, phase \in {"deliver", "release"}, NEW q, q = value2place[Out], NEW c, c = q.id
  PROVE  /\ There(q)
         /\ IsChunk(q) => c \in DOMAIN chunks /\ q = ChunkPlace(c) /\ c # NoChunk /\ (chunks[c].live > 0 \/ c = Fresh)
         /\ Fresh = IF IsChunk(q) /\ chunks[c].live = 0 THEN c ELSE NoChunk
<1>1. Given /\ TypeOK /\ Standing /\ PlacesThere /\ chunks \in Seq(ChunkState)
  BY AInvParts
<1>2. Binds /\ Busy
  BY DEF Binds, Busy
<1>3. Out \in Values(graph) /\ q \in Place
  BY <1>1, <1>2, OutTyped DEF Standing
<1>4. There(q)
  BY <1>1, <1>3 DEF PlacesThere
<1>5. Fresh = IF IsChunk(q) /\ chunks[c].live = 0 THEN c ELSE NoChunk
  BY DEF Fresh
<1>6. ASSUME IsChunk(q) PROVE c \in DOMAIN chunks /\ q = ChunkPlace(c) /\ c # NoChunk /\ (chunks[c].live > 0 \/ c = Fresh)
  <2>1. c \in DOMAIN chunks /\ q = ChunkPlace(c)
    BY <1>3, <1>4, <1>6, ChunkPlaces DEF There
  <2>2. chunks[c].live \in Nat /\ DOMAIN chunks = 1..Len(chunks) /\ Len(chunks) \in Nat
    BY <1>1, <2>1, CountFacts
  <2>3. chunks[c].live > 0 \/ c = Fresh
    BY <1>5, <1>6, <2>2
  <2> QED
    BY <2>1, <2>2, <2>3 DEF NoChunk
<1> QED
  BY <1>4, <1>5, <1>6

(* One more transfer follows the kernel, or none.                            *)
LEMMA TransferAdded ==
  ASSUME Given, TypeOK, Binds, Binds', NEW pt, NEW must \in BOOLEAN, NEW q, pt.src.place = q,
         post_transfers' = IF must THEN Append(post_transfers, pt) ELSE post_transfers
  PROVE  \A d : Cardinality(ToDeliver(d)') = Cardinality(ToDeliver(d)) + IF must /\ q = ChunkPlace(d) THEN 1 ELSE 0
<1> DEFINE PT == [src : BindingType, dst : BindingType]
<1>1. post_transfers \in Seq(PT)
  BY DEF TypeOK
<1>2. PICK n : n = Len(post_transfers)
  OBVIOUS
<1> HIDE DEF PT
<1>3. n \in Nat /\ DOMAIN post_transfers = 1..n
  BY <1>1, <1>2
<1>4. \A d : ToDeliver(d) = {i \in 1..n : post_transfers[i].src.place = ChunkPlace(d)}
  BY <1>3 DEF ToDeliver
<1>5. \A d : ToDeliver(d)' = {i \in DOMAIN post_transfers' : post_transfers'[i].src.place = ChunkPlace(d)}
  BY DEF ToDeliver, ChunkPlace
<1>6. \A d : IsFiniteSet(ToDeliver(d)) /\ Cardinality(ToDeliver(d)) \in Nat
  BY UsesFinite
<1>7. ASSUME NEW d PROVE Cardinality(ToDeliver(d)') = Cardinality(ToDeliver(d)) + IF must /\ q = ChunkPlace(d) THEN 1 ELSE 0
  <2>1. CASE ~ must
    <3>1. ToDeliver(d)' = ToDeliver(d)
      BY <1>3, <1>4, <1>5, <2>1
    <3> QED
      BY <1>6, <2>1, <3>1
  <2>2. CASE must
    <3>1. /\ DOMAIN post_transfers' = 1..(n + 1) /\ post_transfers'[n + 1] = pt
          /\ \A i \in 1..n : post_transfers'[i] = post_transfers[i]
      BY <1>1, <1>2, <1>3, <2>2
    <3>2. n + 1 \notin 1..n /\ \A i : i \in 1..(n + 1) <=> i \in 1..n \/ i = n + 1
      BY <1>3
    <3>3. CASE q = ChunkPlace(d)
      <4>1. ToDeliver(d)' = ToDeliver(d) \cup {n + 1} /\ n + 1 \notin ToDeliver(d)
        BY <1>4, <1>5, <3>1, <3>2, <3>3
      <4>2. Cardinality(ToDeliver(d)') = Cardinality(ToDeliver(d)) + 1
        BY <1>6, <4>1, FS_AddElement
      <4> QED
        BY <2>2, <3>3, <4>2
    <3>4. CASE q # ChunkPlace(d)
      <4>1. ToDeliver(d)' = ToDeliver(d)
        BY <1>4, <1>5, <3>1, <3>2, <3>4
      <4> QED
        BY <1>6, <3>4, <4>1
    <3> QED
      BY <3>3, <3>4
  <2> QED
    BY <2>1, <2>2
<1> QED
  BY <1>7

LEMMA DeliverOutputAccounts == IInv /\ IInv' /\ AInv /\ DeliverOutput => Disciplined /\ AInv'
<1> SUFFICES ASSUME IInv, IInv', AInv, DeliverOutput PROVE Disciplined /\ AInv'
  OBVIOUS
<1>0. PICK v, q, c, b, pt, must : /\ v = Out /\ q = value2place[v] /\ c = q.id /\ b = Binding(v, "Output", q)
        /\ pt = [src |-> Binding(v, "Input", q), dst |-> Binding(v, "Output", OutputPlace(output_alias[v]))]
        /\ must = MustDeliver
  OBVIOUS
<1>1. /\ phase = "deliver" /\ phase' = "release" /\ free' = free
      /\ chunks' = IF must /\ IsChunk(q) THEN AddUsesTo(chunks, c, 1) ELSE chunks
      /\ post_transfers' = IF must THEN Append(post_transfers, pt) ELSE post_transfers
      /\ bindings' = Append(bindings, b)
      /\ UNCHANGED <<input, graph, kid, pos, value2place, remaining, value_on_tier, order, info, next_event, steps>>
  BY <1>0 DEF DeliverOutput, input, order
<1>2. /\ Given /\ TypeOK /\ Standing /\ Accounts /\ PlacesThere /\ BindingsTrue /\ Unplaced /\ CopiesTrue /\ CAP!IInv
      /\ chunks \in Seq(ChunkState) /\ steps \in Seq(StepType) /\ bindings \in Seq(BindingType)
  BY AInvParts
<1>3. Binds /\ Binds' /\ Busy /\ must \in BOOLEAN /\ b.role = "Output" /\ b.place = q /\ pt.src.place = q
  BY <1>0, <1>1 DEF Binds, Busy, Binding, MustDeliver
<1>4. /\ pos \in (Len(Ins) + 1)..(Len(Ins) + Len(Outs)) /\ Len(bindings) = pos - 1 /\ Ins \in Seq(Values(graph))
      /\ Len(Ins) \in Nat /\ pos \in Nat
  BY <1>1, <1>2, <1>3, NowTyped, OutputNow DEF Standing
<1>5. /\ There(q)
      /\ IsChunk(q) => c \in DOMAIN chunks /\ q = ChunkPlace(c) /\ c # NoChunk /\ (chunks[c].live > 0 \/ c = Fresh)
      /\ Fresh = IF IsChunk(q) /\ chunks[c].live = 0 THEN c ELSE NoChunk
  BY <1>0, <1>1, OutputHeld
<1>6. b \in BindingType /\ PlacesStay /\ NoKernelAdded /\ steps' \in Seq(StepType) /\ bindings' \in Seq(BindingType)
  <2>1. v \in Values(graph) /\ q \in Place
    BY <1>0, <1>2, <1>3, <1>4, OutTyped
  <2> QED
    BY <1>0, <1>1, <1>2, <2>1, PlacesTyped, NothingAdded, AInvParts DEF PlacesStay, IInv, TypeOK
<1>7. /\ \A i \in DOMAIN bindings' : (i \in DOMAIN bindings /\ bindings'[i] = bindings[i]) \/ (i > Len(Ins) /\ bindings'[i] = b)
      /\ \A i \in DOMAIN bindings : i \in DOMAIN bindings' /\ bindings'[i] = bindings[i]
  BY <1>1, <1>2, <1>4, <1>6
<1>8. \A d : CopiesBound(d)' = CopiesBound(d)
  <2>1. \A i \in DOMAIN bindings' : i \in DOMAIN bindings \/ bindings'[i].role # "Input"
    BY <1>3, <1>7
  <2> QED
    BY <1>2, <1>3, <1>6, <1>7, <2>1, CopiesBoundStay
<1>9. \A d : CopyReads(d)' = CopyReads(d) /\ ToRead(d)' = ToRead(d)
  <2>1. \A u \in Slots(graph) : Consumed(u)' <=> Consumed(u)
    BY <1>1, <1>3, BindingStays
  <2> QED
    BY <1>1, <1>2, <1>6, <2>1, CopyReadsStay, ReadsStay
<1>10. \A d : Cardinality(ToDeliver(d)') = Cardinality(ToDeliver(d)) + IF must /\ q = ChunkPlace(d) THEN 1 ELSE 0
  BY <1>1, <1>2, <1>3, TransferAdded
<1>11. \A d : UsesOf(d)' = UsesOf(d) + IF must /\ q = ChunkPlace(d) THEN 1 ELSE 0
  BY <1>2, <1>8, <1>9, <1>10, UsesFinite DEF UsesOf
<1>12. DOMAIN chunks' = DOMAIN chunks /\ \A d \in DOMAIN chunks : chunks'[d].tier = chunks[d].tier
  <2>1. CASE must /\ IsChunk(q)
    BY <1>1, <1>2, <1>5, <2>1, CountFacts
  <2>2. CASE ~ (must /\ IsChunk(q))
    BY <1>1, <2>2
  <2> QED
    BY <2>1, <2>2
<1>13. PlacesThere'
  <2>1. There(b.place)' /\ TransferThere(pt)'
    <3>1. ~ IsChunk(pt.dst.place)
      BY <1>0 DEF Binding, OutputPlace, IsChunk
    <3> QED
      BY <1>3, <1>5, <1>12, <3>1 DEF TransferThere, There, IsChunk
  <2>2. \A i \in DOMAIN post_transfers' :
            (i \in DOMAIN post_transfers /\ post_transfers'[i] = post_transfers[i]) \/ post_transfers'[i] = pt
    <3> DEFINE PT == [src : BindingType, dst : BindingType]
    <3>1. post_transfers \in Seq(PT)
      BY <1>2 DEF TypeOK
    <3> HIDE DEF PT
    <3>2. CASE must
      BY <1>1, <3>1, <3>2
    <3>3. CASE ~ must
      BY <1>1, <3>3
    <3> QED
      BY <3>2, <3>3
  <2>3. \A i \in DOMAIN bindings' : (i \in DOMAIN bindings /\ bindings'[i] = bindings[i]) \/ There(bindings[i].place)'
    BY <1>7, <2>1 DEF There, IsChunk
  <2>4. \A i \in DOMAIN post_transfers' :
          (i \in DOMAIN post_transfers /\ post_transfers'[i] = post_transfers[i]) \/ TransferThere(post_transfers[i])'
    BY <2>1, <2>2 DEF TransferThere, There, IsChunk
  <2>5. DOMAIN chunks \subseteq DOMAIN chunks'
    BY <1>12
  <2> QED
    BY <1>1, <1>2, <2>3, <2>4, <2>5, ThereStays
<1>14. BindingsTrue'
  <2>1. BindingTrue(b)'
    BY <1>3 DEF BindingTrue
  <2>2. \A i \in DOMAIN bindings' : (i \in DOMAIN bindings /\ bindings'[i] = bindings[i]) \/ BindingTrue(bindings[i])'
    BY <1>7, <2>1 DEF BindingTrue, IsChunk, NoPlace
  <2>3. \A i \in DOMAIN bindings' : (i \in DOMAIN bindings /\ bindings'[i] = bindings[i]) \/ i > Len(Ins)
    BY <1>7
  <2> QED
    BY <1>1, <1>2, <1>3, <1>4, <1>6, <2>2, <2>3, BindingsStay
<1>15. Unplaced'
  <2>1. Ins' = Ins
    BY <1>1 DEF Ins, Kernel
  <2>2. \A k, j : OutputToPlace(k, j)' => OutputToPlace(k, j)
    BY <1>1, <2>1 DEF OutputToPlace
  <2>3. \A u : WorkspaceToBind(u)' => WorkspaceToBind(u)
    BY <1>1 DEF WorkspaceToBind
  <2> QED
    BY <1>1, <1>2, <2>2, <2>3, UnplacedStays
<1>16. CopiesTrue'
  BY <1>1, <1>2, <1>8, <1>9, <1>12, CopiesStay
<1>17. Fresh' = IF IsChunk(q) /\ chunks'[c].live = 0 THEN c ELSE NoChunk
  <2>1. value2place'[Out'] = q
    BY <1>0, <1>1 DEF Out, Outs, Ins, Kernel
  <2> QED
    BY <1>0, <1>1, <2>1 DEF Fresh, IsChunk, NoChunk
<1>18. CASE must /\ IsChunk(q)
  <2>1. chunks' = AddUsesTo(chunks, c, 1) /\ c \in DOMAIN chunks /\ q = ChunkPlace(c) /\ c # NoChunk /\ (chunks[c].live > 0 \/ c = Fresh)
    BY <1>1, <1>5, <1>18
  <2>2. \A d : must /\ q = ChunkPlace(d) <=> d = c
    BY <1>18, <2>1 DEF ChunkPlace
  <2>3. \A d : UsesOf(d)' = UsesOf(d) + IF d = c THEN 1 ELSE 0
    BY <1>11, <2>2
  <2>4. 1 \in Nat /\ 1 \in UseCounts
    BY DEF UseCounts
  <2>5. Accounts'
    BY <2>1, <2>3, <2>4, AddUsesAccounts
  <2>6. chunks'[c].live = chunks[c].live + 1 /\ chunks[c].live \in Nat
    BY <1>2, <2>1, CountFacts
  <2>7. Fresh' = NoChunk /\ (c # Fresh => Fresh = NoChunk)
    BY <1>5, <1>17, <2>6
  <2>8. Disciplined
    BY <1>1, <1>2, <2>1, <2>4, <2>7, AddUsesCall
  <2> QED
    BY <1>13, <1>14, <1>15, <1>16, <2>5, <2>8 DEF AInv, Disciplined
<1>19. CASE ~ (must /\ IsChunk(q))
  <2>1. UNCHANGED <<chunks, free>> /\ Fresh' = Fresh
    BY <1>1, <1>5, <1>17, <1>19
  <2>2. \A d : UsesOf(d)' = UsesOf(d)
    <3>1. \A d : ~ (must /\ q = ChunkPlace(d)) /\ UsesOf(d) \in Nat
      BY <1>2, <1>19, UsesFinite DEF ChunkPlace, IsChunk
    <3> QED
      BY <1>11, <3>1
  <2>3. Accounts'
    BY <1>2, <2>1, <2>2 DEF Accounts
  <2>4. Disciplined
    BY <1>2, <2>1, NoCall
  <2> QED
    BY <1>13, <1>14, <1>15, <1>16, <2>3, <2>4 DEF AInv, Disciplined
<1> QED
  BY <1>18, <1>19

(* A step that places nothing and binds nothing.                             *)
LEMMA NothingPlaced ==
  ASSUME IInv, IInv', AInv, UNCHANGED <<graph, value2place, value_on_tier>>, DOMAIN chunks' = DOMAIN chunks,
         \A d \in DOMAIN chunks : chunks'[d].tier = chunks[d].tier,
         \A i \in DOMAIN bindings' : i \in DOMAIN bindings /\ bindings'[i] = bindings[i],
         \A i \in DOMAIN post_transfers' : i \in DOMAIN post_transfers /\ post_transfers'[i] = post_transfers[i],
         \A i \in DOMAIN steps' :
            \/ i \in DOMAIN steps /\ steps'[i] = steps[i]
            \/ \A j \in DOMAIN steps'[i].bindings : There(steps[i].bindings[j].place)',
         NoKernelAdded, Binds' /\ bindings' # <<>> => Binds /\ UNCHANGED kid,
         \A k \in Kernels(graph) : \A j \in DOMAIN graph.kernels[k].outs : OutputToPlace(k, j)' => OutputToPlace(k, j),
         \A u \in Slots(graph) : WorkspaceToBind(u)' => WorkspaceToBind(u),
         \A d : CopiesBound(d)' = CopiesBound(d)
  PROVE  PlacesThere' /\ BindingsTrue' /\ Unplaced' /\ CopiesTrue' /\ \A d : CopyReads(d)' = CopyReads(d)
<1>1. /\ Given /\ TypeOK /\ Standing /\ PlacesThere /\ BindingsTrue /\ Unplaced /\ CopiesTrue
      /\ steps \in Seq(StepType)
  BY AInvParts
<1>2. steps' \in Seq(StepType) /\ bindings' \in Seq(BindingType) /\ PlacesStay
  BY DEF IInv, TypeOK, PlacesStay
<1>3. \A d : CopyReads(d)' = CopyReads(d)
  BY <1>1, <1>2, CopyReadsStay
<1>4. PlacesThere'
  BY <1>1, ThereStays
<1>5. BindingsTrue'
  <2>1. Binds => Ins \in Seq(Values(graph))
    BY <1>1, NowTyped DEF Busy
  <2> QED
    BY <1>1, <1>2, <2>1, BindingsStay
<1>6. Unplaced'
  BY <1>1, UnplacedStays
<1>7. CopiesTrue'
  BY <1>1, <1>3, CopiesStay
<1> QED
  BY <1>3, <1>4, <1>5, <1>6, <1>7

LEMMA ReleaseOutputAccounts == IInv /\ IInv' /\ AInv /\ ReleaseOutput => Disciplined /\ AInv'
<1> SUFFICES ASSUME IInv, IInv', AInv, ReleaseOutput PROVE Disciplined /\ AInv'
  OBVIOUS
<1>0. PICK v, q, c : v = Out /\ q = value2place[v] /\ c = q.id
  OBVIOUS
<1>1. /\ phase = "release" /\ phase' = "bind" /\ pos' = pos + 1
      /\ free' = IF IsChunk(q) THEN FreeIfDead(free, chunks, c, StreamNow) ELSE free
      /\ UNCHANGED <<input, graph, kid, bindings, post_transfers, chunks, value2place, remaining, value_on_tier, order,
                     info, next_event, steps>>
  BY <1>0 DEF ReleaseOutput, input, order
<1>2. /\ Given /\ TypeOK /\ Standing /\ Accounts /\ BindingsTrue /\ CAP!IInv /\ steps \in Seq(StepType)
  BY AInvParts
<1>3. Binds /\ Binds' /\ Busy /\ Fresh' = NoChunk
  BY <1>1 DEF Binds, Busy, Fresh
<1>4. /\ pos \in (Len(Ins) + 1)..(Len(Ins) + Len(Outs)) /\ Len(Ins) \in Nat /\ pos \in Nat /\ StreamNow \in Stream
  BY <1>1, <1>2, <1>3, NowTyped, OutputNow DEF Standing
<1>5. /\ IsChunk(q) => c \in DOMAIN chunks /\ q = ChunkPlace(c) /\ c # NoChunk /\ (chunks[c].live > 0 \/ c = Fresh)
      /\ Fresh = IF IsChunk(q) /\ chunks[c].live = 0 THEN c ELSE NoChunk
  BY <1>0, <1>1, OutputHeld
<1>6. NoKernelAdded /\ PlacesStay
  BY <1>1, <1>2, NothingAdded DEF PlacesStay
<1>7. \A d : CopiesBound(d)' = CopiesBound(d) /\ ToRead(d)' = ToRead(d) /\ ToDeliver(d)' = ToDeliver(d)
  <2>1. \A u \in Slots(graph) : Consumed(u)' <=> Consumed(u)
    BY <1>1, <1>3, BindingStays
  <2>2. \A d : CopiesBound(d)' = CopiesBound(d)
    BY <1>1, <1>2, <1>3, <1>6, CopiesBoundStay
  <2> QED
    BY <1>1, <1>3, <2>1, <2>2, ReadsStay, DeliveriesStay
<1>8. PlacesThere' /\ BindingsTrue' /\ Unplaced' /\ CopiesTrue' /\ \A d : CopyReads(d)' = CopyReads(d)
  <2>1. Ins' = Ins
    BY <1>1 DEF Ins, Kernel
  <2>2. ASSUME NEW k \in Kernels(graph), NEW j \in DOMAIN graph.kernels[k].outs, OutputToPlace(k, j)'
        PROVE  OutputToPlace(k, j)
    <3>1. DOMAIN graph.kernels[k].outs = 1..Len(graph.kernels[k].outs) /\ Len(graph.kernels[k].outs) \in Nat
      BY <1>2, KernelTyped
    <3>2. j \in Nat
      BY <3>1
    <3>3. Len(Ins) + j >= pos + 1 => Len(Ins) + j > pos
      BY <1>4, <3>2
    <3> QED
      BY <1>1, <2>1, <2>2, <3>3 DEF OutputToPlace
  <2>3. ASSUME NEW u \in Slots(graph), WorkspaceToBind(u)' PROVE WorkspaceToBind(u)
    <3>1. u[2] \in 1..Len(graph.kernels[u[1]].ins)
      BY <1>2, SlotsAreCounted
    <3>2. ~ (u[1] = kid /\ u[2] >= pos')
      BY <1>1, <1>4, <3>1 DEF Ins, Kernel
    <3> QED
      BY <1>1, <2>3, <3>2 DEF WorkspaceToBind
  <2> QED
    BY <1>1, <1>3, <1>6, <1>7, <2>2, <2>3, NothingPlaced
<1>9. Accounts'
  BY <1>1, <1>2, <1>7, <1>8 DEF Accounts, UsesOf
<1>10. Disciplined
  <2>1. CASE IsChunk(q)
    <3>1. free' = FreeIfDead(free, chunks, c, StreamNow) /\ chunks' = chunks
      BY <1>1, <2>1
    <3>2. Fresh' = IF c = Fresh THEN NoChunk ELSE Fresh
      BY <1>3, <1>5, <2>1
    <3> QED
      BY <1>2, <1>4, <1>5, <2>1, <3>1, <3>2, ReleaseCall
  <2>2. CASE ~ IsChunk(q)
    BY <1>1, <1>2, <1>3, <1>5, <2>2, NoCall
  <2> QED
    BY <2>1, <2>2
<1> QED
  BY <1>8, <1>9, <1>10 DEF AInv, Disciplined

-----------------------------------------------------------------------------
(* The rest of schedule_kernel. *)

(* Nothing is being bound, and no transfer waits but those of the kernel     *)
(* whose step was just emitted.                                              *)
LEMMA NothingBound ==
  ASSUME ~ Binds
  PROVE  \A d : CopiesBound(d) = {} /\ (phase # "post" => ToDeliver(d) = {})
  BY DEF CopiesBound, ToDeliver

LEMMA NothingBoundNext ==
  ASSUME ~ Binds'
  PROVE  \A d : CopiesBound(d)' = {} /\ (phase' # "post" => ToDeliver(d)' = {})
  BY DEF CopiesBound, ToDeliver

LEMMA AdvanceReadyAccounts == IInv /\ IInv' /\ AInv /\ AdvanceReady => Disciplined /\ AInv'
<1> SUFFICES ASSUME IInv, IInv', AInv, AdvanceReady PROVE Disciplined /\ AInv'
  OBVIOUS
<1>1. /\ phase = "post" /\ pos > Len(post_transfers) + Len(Ins) /\ phase' = "pick"
      /\ UNCHANGED <<graph, kid, bindings, post_transfers, chunks, free, value2place, value_on_tier, info, steps>>
  BY DEF AdvanceReady, input, alloc
<1>2. /\ Given /\ TypeOK /\ Standing /\ Accounts /\ CAP!IInv /\ steps \in Seq(StepType)
      /\ post_transfers \in Seq([src : BindingType, dst : BindingType]) /\ pos \in Nat
  BY AInvParts DEF TypeOK
<1>3. ~ Binds /\ ~ Binds' /\ Busy /\ ~ Busy' /\ Fresh = NoChunk /\ Fresh' = NoChunk
  BY <1>1 DEF Binds, Busy, Fresh
<1>4. kid \in Kernels(graph) /\ info[kid].scheduled /\ Len(Ins) \in Nat /\ Len(post_transfers) \in Nat
  <2> DEFINE PT == [src : BindingType, dst : BindingType]
  <2>1. post_transfers \in Seq(PT)
    BY <1>2
  <2> HIDE DEF PT
  <2>2. Len(post_transfers) \in Nat
    BY <2>1
  <2> QED
    BY <1>2, <1>3, <2>2, NowTyped DEF Standing
<1>5. ASSUME NEW u \in Slots(graph) PROVE Consumed(u)' <=> Consumed(u)
  <2>1. u[2] \in 1..Len(graph.kernels[u[1]].ins)
    BY <1>2, SlotsAreCounted
  <2>2. u[1] = kid => u[2] < pos - Len(post_transfers)
    BY <1>1, <1>2, <1>4, <2>1 DEF Ins, Kernel
  <2> QED
    BY <1>1, <1>3, <2>2 DEF Consumed
<1>6. \A d : CopiesBound(d)' = CopiesBound(d) /\ ToRead(d)' = ToRead(d) /\ ToDeliver(d)' = ToDeliver(d)
  <2>1. \A d : CopiesBound(d)' = {} /\ CopiesBound(d) = {} /\ ToDeliver(d)' = {}
    BY <1>1, <1>3, NothingBound, NothingBoundNext
  <2>2. \A d : ToDeliver(d) = {}
    <3>1. \A i \in DOMAIN post_transfers : ~ (i >= pos)
      <4> DEFINE PT == [src : BindingType, dst : BindingType]
      <4>1. post_transfers \in Seq(PT)
        BY <1>2
      <4> HIDE DEF PT
      <4> QED
        BY <1>1, <1>2, <1>4, <4>1
    <3> QED
      BY <1>3, <3>1 DEF ToDeliver
  <2> QED
    BY <1>1, <1>5, <2>1, <2>2, ReadsStay
<1>7. PlacesThere' /\ BindingsTrue' /\ Unplaced' /\ CopiesTrue' /\ \A d : CopyReads(d)' = CopyReads(d)
  <2>1. \A k, j : OutputToPlace(k, j)' => OutputToPlace(k, j)
    BY <1>1 DEF OutputToPlace
  <2>2. \A u : WorkspaceToBind(u)' => WorkspaceToBind(u)
    BY <1>1 DEF WorkspaceToBind
  <2>3. NoKernelAdded
    BY <1>1, <1>2, NothingAdded
  <2> QED
    BY <1>1, <1>3, <1>6, <2>1, <2>2, <2>3, NothingPlaced
<1>8. Accounts'
  BY <1>1, <1>2, <1>6, <1>7 DEF Accounts, UsesOf
<1>9. Disciplined
  BY <1>1, <1>2, <1>3, NoCall
<1> QED
  BY <1>7, <1>8, <1>9 DEF AInv, Disciplined

LEMMA FinishPlanAccounts == IInv /\ IInv' /\ AInv /\ FinishPlan => Disciplined /\ AInv'
<1> SUFFICES ASSUME IInv, IInv', AInv, FinishPlan PROVE Disciplined /\ AInv'
  OBVIOUS
<1>1. /\ phase = "pick" /\ phase' = "planned"
      /\ UNCHANGED <<graph, kid, pos, bindings, post_transfers, chunks, free, value2place, value_on_tier, info, steps>>
  BY DEF FinishPlan, input, alloc, order
<1>2. /\ Given /\ TypeOK /\ Standing /\ Accounts /\ CAP!IInv /\ steps \in Seq(StepType)
  BY AInvParts
<1>3. ~ Binds /\ ~ Binds' /\ Fresh = NoChunk /\ Fresh' = NoChunk
  BY <1>1 DEF Binds, Fresh
<1>4. \A u \in Slots(graph) : Consumed(u)' <=> Consumed(u)
  BY <1>1, <1>3 DEF Consumed
<1>5. \A d : CopiesBound(d)' = CopiesBound(d) /\ ToRead(d)' = ToRead(d) /\ ToDeliver(d)' = ToDeliver(d)
  BY <1>1, <1>3, <1>4, ReadsStay, NothingBound, NothingBoundNext
<1>6. PlacesThere' /\ BindingsTrue' /\ Unplaced' /\ CopiesTrue' /\ \A d : CopyReads(d)' = CopyReads(d)
  <2>1. \A k, j : OutputToPlace(k, j)' => OutputToPlace(k, j)
    BY <1>1 DEF OutputToPlace
  <2>2. \A u : WorkspaceToBind(u)' => WorkspaceToBind(u)
    BY <1>1 DEF WorkspaceToBind
  <2>3. NoKernelAdded
    BY <1>1, <1>2, NothingAdded
  <2> QED
    BY <1>1, <1>3, <1>5, <2>1, <2>2, <2>3, NothingPlaced
<1>7. Accounts'
  BY <1>1, <1>2, <1>5, <1>6 DEF Accounts, UsesOf
<1>8. Disciplined
  BY <1>1, <1>2, <1>3, NoCall
<1> QED
  BY <1>6, <1>7, <1>8 DEF AInv, Disciplined

LEMMA FinalizeOutputAccounts == IInv /\ IInv' /\ AInv /\ FinalizeOutput => Disciplined /\ AInv'
<1> SUFFICES ASSUME IInv, IInv', AInv, FinalizeOutput PROVE Disciplined /\ AInv'
  OBVIOUS
<1>0. PICK v, p, y : /\ v = graph.outputs[pos] /\ p = deps.producer[v]
        /\ y = Transfer(IF p = NoKernel THEN "CPU" ELSE graph.kernels[p].dev, IF p = NoKernel THEN 0 ELSE info[p].stream,
                        next_event, Binding(v, "Input", value2place[v]), Binding(v, "Output", OutputPlace(v)))
  OBVIOUS
<1>1. /\ phase = "pick" /\ phase' = "pick" /\ pos <= Len(graph.outputs)
      /\ steps' = steps \/ steps' = Append(steps, y)
      /\ UNCHANGED <<graph, kid, bindings, post_transfers, chunks, free, value2place, value_on_tier, info>>
  BY <1>0 DEF FinalizeOutput, input, alloc, order
<1>2. /\ Given /\ TypeOK /\ Standing /\ Accounts /\ PlacesThere /\ CAP!IInv /\ steps \in Seq(StepType)
      /\ steps' \in Seq(StepType) /\ pos \in Nat /\ pos # 0
  BY <1>1, AInvParts DEF Standing, TypeOK, IInv
<1>3. ~ Binds /\ ~ Binds' /\ Fresh = NoChunk /\ Fresh' = NoChunk
  BY <1>1 DEF Binds, Fresh
<1>4. v \in Values(graph)
  <2>1. graph.outputs \in Seq(Values(graph))
    BY <1>2, GraphTyped DEF GraphType
  <2> QED
    BY <1>0, <1>1, <1>2, <2>1
<1>5. /\ y.kind = "Transfer" /\ y.bindings[1].place = value2place[v] /\ y.bindings[2].place = OutputPlace(v)
      /\ DOMAIN y.bindings = {1, 2}
  <2>1. y.kind = "Transfer" /\ y.bindings = <<Binding(v, "Input", value2place[v]), Binding(v, "Output", OutputPlace(v))>>
    BY <1>0 DEF Transfer
  <2> QED
    BY <2>1 DEF Binding
<1>6. \A j \in DOMAIN y.bindings : There(y.bindings[j].place)'
  <2>1. There(value2place[v]) /\ ~ IsChunk(OutputPlace(v))
    BY <1>2, <1>4 DEF PlacesThere, IsChunk, OutputPlace
  <2> QED
    BY <1>1, <1>5, <2>1 DEF There, IsChunk
<1>7. \A i \in DOMAIN steps' : (i \in DOMAIN steps /\ steps'[i] = steps[i]) \/ steps'[i] = y
  BY <1>1, <1>2
<1>8. NoKernelAdded
  BY <1>1, <1>2, <1>5 DEF NoKernelAdded
<1>9. \A u \in Slots(graph) : Consumed(u)' <=> Consumed(u)
  BY <1>1, <1>3 DEF Consumed
<1>10. \A d : CopiesBound(d)' = CopiesBound(d) /\ ToRead(d)' = ToRead(d) /\ ToDeliver(d)' = ToDeliver(d)
  BY <1>1, <1>3, <1>9, ReadsStay, NothingBound, NothingBoundNext
<1>11. PlacesThere' /\ BindingsTrue' /\ Unplaced' /\ CopiesTrue' /\ \A d : CopyReads(d)' = CopyReads(d)
  <2>1. \A k, j : OutputToPlace(k, j)' => OutputToPlace(k, j)
    BY <1>1 DEF OutputToPlace
  <2>2. \A u : WorkspaceToBind(u)' => WorkspaceToBind(u)
    BY <1>1 DEF WorkspaceToBind
  <2>3. \A i \in DOMAIN steps' :
            \/ i \in DOMAIN steps /\ steps'[i] = steps[i]
            \/ \A j \in DOMAIN steps'[i].bindings : There(steps[i].bindings[j].place)'
    BY <1>6, <1>7 DEF There, IsChunk
  <2> QED
    BY <1>1, <1>3, <1>8, <1>10, <2>1, <2>2, <2>3, NothingPlaced
<1>12. Accounts'
  BY <1>1, <1>2, <1>10, <1>11 DEF Accounts, UsesOf
<1>13. Disciplined
  BY <1>1, <1>2, <1>3, NoCall
<1> QED
  BY <1>11, <1>12, <1>13 DEF AInv, Disciplined

LEMMA EmitStepAccounts == IInv /\ IInv' /\ AInv /\ EmitStep => Disciplined /\ AInv'
<1> SUFFICES ASSUME IInv, IInv', AInv, EmitStep PROVE Disciplined /\ AInv'
  OBVIOUS
<1>0. PICK y, m : y = KernelStep(kid, DeviceNow, StreamNow, info[kid].event, bindings) /\ m = Len(steps) + 1
  OBVIOUS
<1>1. /\ phase = "bind" /\ phase' = "post" /\ pos' = 1 /\ steps' = Append(steps, y)
      /\ UNCHANGED <<graph, kid, bindings, post_transfers, chunks, free, value2place, value_on_tier, info>>
  BY <1>0 DEF EmitStep, input, alloc, order
<1>2. /\ Given /\ TypeOK /\ Standing /\ Accounts /\ PlacesThere /\ BindingsTrue /\ Unplaced /\ CopiesTrue /\ CAP!IInv
      /\ steps \in Seq(StepType) /\ steps' \in Seq(StepType) /\ bindings \in Seq(BindingType)
  BY AInvParts DEF TypeOK, IInv
<1>3. Binds /\ ~ Binds' /\ Fresh = NoChunk /\ Fresh' = NoChunk
  BY <1>1 DEF Binds, Fresh
<1>4. y.kind = "Kernel" /\ y.bindings = bindings
  BY <1>0 DEF KernelStep
<1>5. /\ Len(steps) \in Nat /\ DOMAIN steps = 1..Len(steps) /\ m = Len(steps) + 1
      /\ DOMAIN steps' = 1..m /\ steps'[m] = y /\ \A i \in DOMAIN steps : steps'[i] = steps[i]
  <2> HIDE DEF StepType
  <2> QED
    BY <1>0, <1>1, <1>2
<1>6. m \notin DOMAIN steps /\ \A i : i \in DOMAIN steps' <=> i \in DOMAIN steps \/ i = m
  BY <1>5
<1>7. ASSUME NEW u \in Slots(graph) PROVE Consumed(u)' <=> Consumed(u)
  <2>1. u[2] \in Nat \ {0}
    BY <1>2, SlotsAreCounted
  <2>2. Len(post_transfers) \in Nat
    <3> DEFINE PT == [src : BindingType, dst : BindingType]
    <3>1. post_transfers \in Seq(PT)
      BY <1>2 DEF TypeOK
    <3> HIDE DEF PT
    <3> QED
      BY <3>1
  <2>3. ~ (u[2] < 1 - Len(post_transfers))
    BY <2>1, <2>2
  <2> QED
    BY <1>1, <1>3, <2>3 DEF Consumed
<1>8. \A d : ToRead(d)' = ToRead(d)
  BY <1>1, <1>7, ReadsStay
<1>9. \A d : ToDeliver(d)' = ToDeliver(d)
  <2>1. \A i \in DOMAIN post_transfers : i >= 1
    <3> DEFINE PT == [src : BindingType, dst : BindingType]
    <3>1. post_transfers \in Seq(PT)
      BY <1>2 DEF TypeOK
    <3> HIDE DEF PT
    <3> QED
      BY <3>1
  <2> QED
    BY <1>1, <1>3, <2>1 DEF ToDeliver, ChunkPlace
<1>10. \A d : CopyReads(d)' = CopyReads(d) \cup ({m} \X CopiesBound(d)) /\ CopyReads(d) \cap ({m} \X CopiesBound(d)) = {}
  <2> SUFFICES ASSUME NEW d
               PROVE  CopyReads(d)' = CopyReads(d) \cup ({m} \X CopiesBound(d)) /\ CopyReads(d) \cap ({m} \X CopiesBound(d)) = {}
    OBVIOUS
  <2> DEFINE Reading(i, j) ==
               /\ i \in DOMAIN steps /\ j \in DOMAIN steps[i].bindings /\ steps[i].kind = "Kernel"
               /\ steps[i].bindings[j].role = "Input" /\ steps[i].bindings[j].place = ChunkPlace(d)
               /\ value2place[steps[i].bindings[j].value] # steps[i].bindings[j].place
             Copy(j) == /\ j \in DOMAIN bindings /\ bindings[j].role = "Input" /\ bindings[j].place = ChunkPlace(d)
                        /\ value2place[bindings[j].value] # bindings[j].place
  <2>1. \A u : u \in CopyReads(d) <=> u = <<u[1], u[2]>> /\ Reading(u[1], u[2])
    BY DEF CopyReads
  <2>2. \A u : u \in CopyReads(d)' <=> u = <<u[1], u[2]>> /\ Reading(u[1], u[2])'
    BY DEF CopyReads, ChunkPlace
  <2>3. \A j : j \in CopiesBound(d) <=> Copy(j)
    BY <1>3 DEF CopiesBound
  <2>4. \A i, j : Reading(i, j)' <=> Reading(i, j) \/ (i = m /\ Copy(j))
    BY <1>1, <1>4, <1>5, <1>6 DEF ChunkPlace
  <2>5. \A i, j : Reading(i, j) => i # m
    BY <1>6
  <2> HIDE DEF Reading, Copy
  <2>6. \A u : u \in {m} \X CopiesBound(d) <=> u = <<u[1], u[2]>> /\ u[1] = m /\ Copy(u[2])
    BY <2>3
  <2>7. \A u : u \in CopyReads(d)' <=> u \in CopyReads(d) \/ u \in {m} \X CopiesBound(d)
    BY <2>1, <2>2, <2>4, <2>6
  <2>8. \A u : ~ (u \in CopyReads(d) /\ u \in {m} \X CopiesBound(d))
    BY <2>1, <2>5, <2>6
  <2> QED
    BY <2>7, <2>8
<1>11. \A d : CopiesBound(d)' = {}
  BY <1>3, NothingBoundNext
<1>12. \A d : Cardinality(CopyReads(d)') = Cardinality(CopyReads(d)) + Cardinality(CopiesBound(d))
  <2> SUFFICES ASSUME NEW d
               PROVE  Cardinality(CopyReads(d)') = Cardinality(CopyReads(d)) + Cardinality(CopiesBound(d))
    OBVIOUS
  <2>1. /\ IsFiniteSet(CopyReads(d)) /\ Cardinality(CopyReads(d)) \in Nat
        /\ IsFiniteSet(CopiesBound(d)) /\ Cardinality(CopiesBound(d)) \in Nat
    BY <1>2, UsesFinite
  <2>2. IsFiniteSet({m}) /\ Cardinality({m}) = 1
    BY FS_Singleton
  <2>3. IsFiniteSet({m} \X CopiesBound(d)) /\ Cardinality({m} \X CopiesBound(d)) = Cardinality({m}) * Cardinality(CopiesBound(d))
    BY <2>1, <2>2, FS_Product
  <2>4. Cardinality({m} \X CopiesBound(d)) = Cardinality(CopiesBound(d))
    BY <2>1, <2>2, <2>3
  <2>5. Cardinality(CopyReads(d) \cup ({m} \X CopiesBound(d))) =
          Cardinality(CopyReads(d)) + Cardinality({m} \X CopiesBound(d)) - Cardinality(CopyReads(d) \cap ({m} \X CopiesBound(d)))
    BY <2>1, <2>3, FS_Union
  <2>6. Cardinality(CopyReads(d) \cap ({m} \X CopiesBound(d))) = 0
    BY <1>10, FS_EmptySet
  <2>7. CopyReads(d)' = CopyReads(d) \cup ({m} \X CopiesBound(d))
    BY <1>10
  <2> HIDE <1>10
  <2>8. Cardinality(CopyReads(d) \cup ({m} \X CopiesBound(d))) = Cardinality(CopyReads(d)) + Cardinality(CopiesBound(d))
    BY <2>1, <2>4, <2>5, <2>6
  <2> QED
    BY <2>7, <2>8
<1>13. Accounts'
  <2>1. Cardinality({}) = 0
    BY FS_EmptySet
  <2>2. ASSUME NEW d PROVE UsesOf(d)' = UsesOf(d)
    <3>1. /\ Cardinality(ToRead(d)) \in Nat /\ Cardinality(ToDeliver(d)) \in Nat
          /\ Cardinality(CopyReads(d)) \in Nat /\ Cardinality(CopiesBound(d)) \in Nat
      BY <1>2, UsesFinite
    <3>2. UsesOf(d)' = Cardinality(ToRead(d)) + Cardinality(ToDeliver(d)) + Cardinality(CopyReads(d)') + 0
      BY <1>8, <1>9, <1>11, <2>1 DEF UsesOf
    <3>3. Cardinality(CopyReads(d)') = Cardinality(CopyReads(d)) + Cardinality(CopiesBound(d))
      BY <1>12
    <3> HIDE <1>12
    <3> QED
      BY <3>1, <3>2, <3>3 DEF UsesOf
  <2> QED
    BY <1>1, <1>2, <2>2 DEF Accounts
<1>14. PlacesThere'
  <2>1. \A i \in DOMAIN steps' :
            \/ i \in DOMAIN steps /\ steps'[i] = steps[i]
            \/ \A j \in DOMAIN steps'[i].bindings : There(steps[i].bindings[j].place)'
    BY <1>1, <1>2, <1>4, <1>5, <1>6 DEF PlacesThere, There, IsChunk
  <2> QED
    BY <1>1, <1>2, <2>1, ThereStays
<1>15. BindingsTrue'
  <2>1. \A b : BindingTrue(b)' <=> BindingTrue(b)
    BY <1>1 DEF BindingTrue, IsChunk, NoPlace
  <2>2. (\A i \in DOMAIN bindings : BindingTrue(bindings[i]))'
    BY <1>1, <1>2, <2>1 DEF BindingsTrue, BindingTrue, IsChunk, NoPlace
  <2>3. (\A i \in DOMAIN steps : steps[i].kind = "Kernel" => \A j \in DOMAIN steps[i].bindings : BindingTrue(steps[i].bindings[j]))'
    BY <1>1, <1>2, <1>4, <1>5, <1>6 DEF BindingsTrue, BindingTrue, IsChunk, NoPlace
  <2> QED
    BY <1>3, <2>2, <2>3 DEF BindingsTrue
<1>16. Unplaced'
  <2>1. \A k, j : OutputToPlace(k, j)' => OutputToPlace(k, j)
    BY <1>1 DEF OutputToPlace
  <2>2. \A u : WorkspaceToBind(u)' => WorkspaceToBind(u)
    BY <1>1 DEF WorkspaceToBind
  <2> QED
    BY <1>1, <1>2, <2>1, <2>2, UnplacedStays
<1>17. CopiesTrue'
  <2>1. \A d : CopyReads(d) # {} \/ CopiesBound(d) # {} => CopyReads(d)' # {}
    <3> SUFFICES ASSUME NEW d, CopyReads(d) # {} \/ CopiesBound(d) # {} PROVE CopyReads(d)' # {}
      OBVIOUS
    <3>1. CASE CopyReads(d) # {}
      BY <1>10, <3>1
    <3>2. CASE CopiesBound(d) # {}
      <4>1. PICK j : j \in CopiesBound(d)
        BY <3>2
      <4>2. <<m, j>> \in CopyReads(d)'
        BY <1>10, <4>1
      <4> QED
        BY <4>2
    <3> QED
      BY <3>1, <3>2
  <2> QED
    BY <1>1, <1>2, <2>1, CopiesStay
<1>18. Disciplined
  BY <1>1, <1>2, <1>3, NoCall
<1> QED
  BY <1>13, <1>14, <1>15, <1>16, <1>17, <1>18 DEF AInv, Disciplined

(* A use of a place is given back: its chunk, if any, has one use less.      *)
LEMMA PlaceConsumed ==
  ASSUME IInv, AInv, phase = "post", phase' = "post", NEW p \in Place, There(p), ConsumePlace(p),
         IsChunk(p) => chunks[p.id].live > 0,
         \A d : UsesOf(d)' = UsesOf(d) - IF p = ChunkPlace(d) THEN 1 ELSE 0
  PROVE  /\ Disciplined /\ Accounts'
         /\ DOMAIN chunks' = DOMAIN chunks /\ \A d \in DOMAIN chunks : chunks'[d].tier = chunks[d].tier
<1>1. Fresh = NoChunk /\ Fresh' = NoChunk
  BY DEF Fresh
<1>2. /\ Given /\ TypeOK /\ Standing /\ Accounts /\ CAP!IInv /\ chunks \in Seq(ChunkState)
  BY AInvParts
<1>3. StreamNow \in Stream
  <2>1. Busy
    BY DEF Busy
  <2> QED
    BY <1>2, <2>1, NowTyped
<1>4. CASE IsChunk(p)
  <2>0. PICK c : c = p.id
    OBVIOUS
  <2>1. c \in DOMAIN chunks /\ chunks[c].live > 0 /\ p = ChunkPlace(c)
    BY <1>4, <2>0, ChunkPlaces DEF There
  <2>2. chunks' = ConsumeIn(chunks, c) /\ free' = FreeIfDead(free, chunks', c, StreamNow)
    BY <1>4, <2>0 DEF ConsumePlace
  <2>3. \A d : p = ChunkPlace(d) <=> d = c
    BY <2>1 DEF ChunkPlace
  <2>4. \A d : UsesOf(d)' = UsesOf(d) - IF d = c THEN 1 ELSE 0
    BY <2>3
  <2>5. Accounts' /\ DOMAIN chunks' = DOMAIN chunks /\ \A d \in DOMAIN chunks : chunks'[d].tier = chunks[d].tier
    BY <2>1, <2>2, <2>4, ConsumeAccounts
  <2>6. Disciplined
    BY <1>1, <1>2, <1>3, <2>1, <2>2, ConsumeCall
  <2> QED
    BY <2>5, <2>6
<1>5. CASE ~ IsChunk(p)
  <2>1. UNCHANGED <<chunks, free>>
    BY <1>5 DEF ConsumePlace, alloc
  <2>2. \A d : UsesOf(d)' = UsesOf(d)
    <3>1. \A d : p # ChunkPlace(d) /\ UsesOf(d) \in Nat
      BY <1>2, <1>5, UsesFinite DEF ChunkPlace, IsChunk
    <3> QED
      BY <3>1
  <2>3. Accounts'
    BY <1>2, <2>1, <2>2 DEF Accounts
  <2>4. Disciplined
    BY <1>1, <1>2, <2>1, NoCall
  <2> QED
    BY <2>1, <2>3, <2>4
<1> QED
  BY <1>4, <1>5

LEMMA ConsumeInputAccounts == IInv /\ IInv' /\ AInv /\ ConsumeInput => Disciplined /\ AInv'
<1> SUFFICES ASSUME IInv, IInv', AInv, ConsumeInput PROVE Disciplined /\ AInv'
  OBVIOUS
<1>0. PICK i, v, u, p : i = pos - Len(post_transfers) /\ v = Ins[i] /\ u = <<kid, i>> /\ p = value2place[v]
  OBVIOUS
<1>1. /\ Given /\ TypeOK /\ Standing /\ Accounts /\ PlacesThere /\ CAP!IInv /\ steps \in Seq(StepType)
      /\ value2place \in [Values(graph) -> Place]
  BY AInvParts
<1>2. /\ ConsumePlace(p) /\ pos > Len(post_transfers) /\ pos' = pos + 1
      /\ UNCHANGED <<graph, info, phase, kid, bindings, post_transfers, value2place, value_on_tier, steps>>
      /\ ~ Binds /\ phase = "post" /\ ~ Binds' /\ phase' = "post" /\ Len(post_transfers) \in Nat /\ pos \in Nat
  BY <1>0, <1>1, InputConsumed
<1>3. /\ v \in Values(graph) /\ u \in Slots(graph) /\ ReadAt(graph, u) = v
      /\ ~ Consumed(u) /\ \A w \in Slots(graph) : Consumed(w)' <=> Consumed(w) \/ w = u
  BY <1>0, <1>1, InputConsumed
<1>4. p \in Place /\ There(p)
  BY <1>0, <1>1, <1>3 DEF PlacesThere
<1>5. \A d : ToRead(d)' = ToRead(d) \ {u} /\ (u \in ToRead(d) <=> p = ChunkPlace(d))
  <2> SUFFICES ASSUME NEW d PROVE ToRead(d)' = ToRead(d) \ {u} /\ (u \in ToRead(d) <=> p = ChunkPlace(d))
    OBVIOUS
  <2>1. \A w : w \in ToRead(d)' <=> w \in ToRead(d) /\ w # u
    BY <1>2, <1>3 DEF ToRead, ChunkPlace
  <2> QED
    BY <1>0, <1>3, <2>1 DEF ToRead
<1>6. \A d : ToDeliver(d) = {} /\ ToDeliver(d)' = {} /\ CopiesBound(d) = {} /\ CopiesBound(d)' = {}
  <2>1. \A j \in DOMAIN post_transfers : ~ (j >= pos) /\ ~ (j >= pos + 1)
    <3> DEFINE PT == [src : BindingType, dst : BindingType]
    <3>1. post_transfers \in Seq(PT)
      BY <1>1 DEF TypeOK
    <3> HIDE DEF PT
    <3> QED
      BY <1>2, <3>1
  <2> QED
    BY <1>2, <2>1, NothingBound, NothingBoundNext DEF ToDeliver
<1>7. IsChunk(p) => chunks[p.id].live > 0
  <2> SUFFICES ASSUME IsChunk(p) PROVE chunks[p.id].live > 0
    OBVIOUS
  <2>1. PICK c : c = p.id
    OBVIOUS
  <2>2. p = ChunkPlace(c) /\ c \in DOMAIN chunks
    BY <1>4, <2>1, ChunkPlaces DEF There
  <2>3. ToRead(c) # {}
    BY <1>5, <2>2
  <2> QED
    BY <1>1, <2>1, <2>2, <2>3, UsedIsLive
<1>8. \A d : UsesOf(d)' = UsesOf(d) - IF p = ChunkPlace(d) THEN 1 ELSE 0
  <2> SUFFICES ASSUME NEW d PROVE UsesOf(d)' = UsesOf(d) - IF p = ChunkPlace(d) THEN 1 ELSE 0
    OBVIOUS
  <2>1. IsFiniteSet(ToRead(d)) /\ Cardinality(ToRead(d)) \in Nat /\ Cardinality(CopyReads(d)) \in Nat
    BY <1>1, UsesFinite
  <2>2. CopyReads(d)' = CopyReads(d)
    BY <1>2 DEF CopyReads, ChunkPlace
  <2>3. Cardinality(ToRead(d) \ {u}) = IF u \in ToRead(d) THEN Cardinality(ToRead(d)) - 1 ELSE Cardinality(ToRead(d))
    BY <2>1, FS_RemoveElement
  <2>4. ToRead(d)' = ToRead(d) \ {u} /\ (u \in ToRead(d) <=> p = ChunkPlace(d))
    BY <1>5
  <2>5. Cardinality(ToRead(d)') = Cardinality(ToRead(d)) - IF p = ChunkPlace(d) THEN 1 ELSE 0
    <3> HIDE <1>5, <1>6
    <3> QED
      BY <2>1, <2>3, <2>4
  <2>6. Cardinality({}) = 0
    BY FS_EmptySet
  <2>7. ToDeliver(d) = {} /\ ToDeliver(d)' = {} /\ CopiesBound(d) = {} /\ CopiesBound(d)' = {}
    BY <1>6
  <2> HIDE <1>5, <1>6
  <2>8. UsesOf(d) = Cardinality(ToRead(d)) + 0 + Cardinality(CopyReads(d)) + 0
        /\ UsesOf(d)' = Cardinality(ToRead(d)') + 0 + Cardinality(CopyReads(d)) + 0
    BY <2>2, <2>6, <2>7 DEF UsesOf
  <2>9. CASE p = ChunkPlace(d)
    BY <2>1, <2>5, <2>8, <2>9
  <2>10. CASE p # ChunkPlace(d)
    BY <2>1, <2>5, <2>8, <2>10
  <2> QED
    BY <2>9, <2>10
<1>9. /\ Disciplined /\ Accounts'
      /\ DOMAIN chunks' = DOMAIN chunks /\ \A d \in DOMAIN chunks : chunks'[d].tier = chunks[d].tier
  BY <1>2, <1>4, <1>7, <1>8, PlaceConsumed
<1>10. PlacesThere' /\ BindingsTrue' /\ Unplaced' /\ CopiesTrue'
  <2>1. \A k, j : OutputToPlace(k, j)' => OutputToPlace(k, j)
    BY <1>2 DEF OutputToPlace
  <2>2. \A w : WorkspaceToBind(w)' => WorkspaceToBind(w)
    BY <1>2 DEF WorkspaceToBind
  <2>3. NoKernelAdded
    BY <1>1, <1>2, NothingAdded
  <2> QED
    BY <1>2, <1>6, <1>9, <2>1, <2>2, <2>3, NothingPlaced
<1> QED
  BY <1>9, <1>10 DEF AInv, Disciplined

LEMMA PostTransferAccounts == IInv /\ IInv' /\ AInv /\ PostTransfer => Disciplined /\ AInv'
<1> SUFFICES ASSUME IInv, IInv', AInv, PostTransfer PROVE Disciplined /\ AInv'
  OBVIOUS
<1> DEFINE PT == [src : BindingType, dst : BindingType]
<1>0. PICK n, pt, x, p : /\ n = pos /\ pt = post_transfers[n] /\ x = Transfer(DeviceNow, StreamNow, next_event, pt.src, pt.dst)
                         /\ p = pt.src.place
  OBVIOUS
<1>1. /\ Given /\ TypeOK /\ Standing /\ Accounts /\ PlacesThere /\ CAP!IInv /\ steps \in Seq(StepType)
      /\ post_transfers \in Seq(PT)
  BY AInvParts
<1>2. /\ phase = "post" /\ phase' = "post" /\ steps' = Append(steps, x) /\ ConsumePlace(p) /\ n <= Len(post_transfers)
      /\ pos = n /\ pos' = n + 1
      /\ UNCHANGED <<graph, info, kid, bindings, post_transfers, value2place, value_on_tier>>
  BY <1>0 DEF PostTransfer, input, order
<1>3. ~ Binds /\ ~ Binds' /\ Busy
  BY <1>2 DEF Binds, Busy
<1>4. Len(post_transfers) \in Nat /\ DOMAIN post_transfers = 1..Len(post_transfers) /\ n \in 1..Len(post_transfers)
  <2>1. n \in Nat /\ n # 0
    BY <1>1, <1>2 DEF Standing, TypeOK
  <2> HIDE DEF PT
  <2>2. Len(post_transfers) \in Nat /\ DOMAIN post_transfers = 1..Len(post_transfers)
    BY <1>1
  <2> QED
    BY <1>2, <2>1, <2>2
<1>5. pt \in PT
  <2> HIDE DEF PT
  <2> QED
    BY <1>0, <1>1, <1>4
<1>6. p \in Place /\ There(p) /\ There(pt.dst.place)
  <2>1. p \in Place
    BY <1>0, <1>5 DEF BindingType
  <2>2. TransferThere(pt)
    BY <1>0, <1>1, <1>4 DEF PlacesThere
  <2> QED
    BY <1>0, <2>1, <2>2 DEF TransferThere
<1>7. x.kind = "Transfer" /\ DOMAIN x.bindings = {1, 2} /\ x.bindings[1] = pt.src /\ x.bindings[2] = pt.dst
  <2>1. x.kind = "Transfer" /\ x.bindings = <<pt.src, pt.dst>>
    BY <1>0 DEF Transfer
  <2> QED
    BY <2>1
<1>8. steps' \in Seq(StepType) /\ NoKernelAdded /\ PlacesStay
  BY <1>1, <1>2, <1>7 DEF NoKernelAdded, PlacesStay, IInv, TypeOK
<1>9. ASSUME NEW u \in Slots(graph) PROVE Consumed(u)' <=> Consumed(u)
  <2>1. u[2] \in Nat \ {0}
    BY <1>1, SlotsAreCounted
  <2>2. ~ (u[2] < n - Len(post_transfers)) /\ ~ (u[2] < n + 1 - Len(post_transfers))
    BY <1>4, <2>1
  <2>3. Busy'
    BY <1>2 DEF Busy
  <2>4. ~ (u[2] < pos' - Len(post_transfers'))
    BY <1>2, <1>4, <2>1
  <2>5. Consumed(u) <=> info[u[1]].scheduled /\ u[1] # kid
    BY <1>2, <1>3, <2>2 DEF Consumed
  <2>6. Consumed(u)' <=> info[u[1]].scheduled /\ u[1] # kid
    BY <1>2, <1>3, <2>2, <2>3, <2>4 DEF Consumed
  <2> QED
    BY <2>5, <2>6
<1>10. \A d : /\ ToRead(d)' = ToRead(d) /\ CopyReads(d)' = CopyReads(d) /\ CopiesBound(d) = {} /\ CopiesBound(d)' = {}
              /\ ToDeliver(d)' = ToDeliver(d) \ {n} /\ (n \in ToDeliver(d) <=> p = ChunkPlace(d))
  <2> SUFFICES ASSUME NEW d
               PROVE  /\ ToRead(d)' = ToRead(d) /\ CopyReads(d)' = CopyReads(d) /\ CopiesBound(d) = {} /\ CopiesBound(d)' = {}
                      /\ ToDeliver(d)' = ToDeliver(d) \ {n} /\ (n \in ToDeliver(d) <=> p = ChunkPlace(d))
    OBVIOUS
  <2>1. ToRead(d)' = ToRead(d) /\ CopiesBound(d) = {} /\ CopiesBound(d)' = {}
    BY <1>2, <1>3, <1>9, ReadsStay, NothingBound, NothingBoundNext
  <2>2. CopyReads(d)' = CopyReads(d)
    BY <1>1, <1>8, AInvParts, CopyReadsStay
  <2>3. \A i \in DOMAIN post_transfers : i >= n + 1 <=> i >= n /\ i # n
    BY <1>4
  <2>4. \A i : /\ i \in ToDeliver(d) <=> i \in DOMAIN post_transfers /\ post_transfers[i].src.place = ChunkPlace(d) /\ i >= n
               /\ i \in ToDeliver(d)' <=> i \in DOMAIN post_transfers /\ post_transfers[i].src.place = ChunkPlace(d) /\ i >= n + 1
    BY <1>2, <1>3 DEF ToDeliver, ChunkPlace
  <2>5. \A i : i \in ToDeliver(d)' <=> i \in ToDeliver(d) /\ i # n
    BY <2>3, <2>4
  <2>6. n \in ToDeliver(d) <=> p = ChunkPlace(d)
    BY <1>0, <1>4, <2>4
  <2> QED
    BY <2>1, <2>2, <2>5, <2>6
<1>11. IsChunk(p) => chunks[p.id].live > 0
  <2> SUFFICES ASSUME IsChunk(p) PROVE chunks[p.id].live > 0
    OBVIOUS
  <2>1. PICK c : c = p.id
    OBVIOUS
  <2>2. p = ChunkPlace(c) /\ c \in DOMAIN chunks
    BY <1>6, <2>1, ChunkPlaces DEF There
  <2>3. ToDeliver(c) # {}
    BY <1>10, <2>2
  <2> QED
    BY <1>1, <2>1, <2>2, <2>3, UsedIsLive
<1>12. \A d : UsesOf(d)' = UsesOf(d) - IF p = ChunkPlace(d) THEN 1 ELSE 0
  <2> SUFFICES ASSUME NEW d PROVE UsesOf(d)' = UsesOf(d) - IF p = ChunkPlace(d) THEN 1 ELSE 0
    OBVIOUS
  <2>1. /\ ToRead(d)' = ToRead(d) /\ CopyReads(d)' = CopyReads(d) /\ CopiesBound(d)' = CopiesBound(d)
        /\ ToDeliver(d)' = ToDeliver(d) \ {n} /\ (n \in ToDeliver(d) <=> p = ChunkPlace(d))
    BY <1>10
  <2> HIDE <1>10
  <2>2. /\ IsFiniteSet(ToDeliver(d)) /\ Cardinality(ToDeliver(d)) \in Nat /\ Cardinality(ToRead(d)) \in Nat
        /\ Cardinality(CopyReads(d)) \in Nat /\ Cardinality(CopiesBound(d)) \in Nat
    BY <1>1, UsesFinite
  <2>3. Cardinality(ToDeliver(d) \ {n}) = IF n \in ToDeliver(d) THEN Cardinality(ToDeliver(d)) - 1 ELSE Cardinality(ToDeliver(d))
    BY <2>2, FS_RemoveElement
  <2>4. UsesOf(d)' = Cardinality(ToRead(d)) + Cardinality(ToDeliver(d) \ {n}) + Cardinality(CopyReads(d)) + Cardinality(CopiesBound(d))
    BY <2>1 DEF UsesOf
  <2>5. CASE p = ChunkPlace(d)
    BY <2>1, <2>2, <2>3, <2>4, <2>5 DEF UsesOf
  <2>6. CASE p # ChunkPlace(d)
    BY <2>1, <2>2, <2>3, <2>4, <2>6 DEF UsesOf
  <2> QED
    BY <2>5, <2>6
<1>13. /\ Disciplined /\ Accounts'
       /\ DOMAIN chunks' = DOMAIN chunks /\ \A d \in DOMAIN chunks : chunks'[d].tier = chunks[d].tier
  BY <1>2, <1>6, <1>11, <1>12, PlaceConsumed
<1>14. PlacesThere' /\ BindingsTrue' /\ Unplaced' /\ CopiesTrue'
  <2>1. \A k, j : OutputToPlace(k, j)' => OutputToPlace(k, j)
    BY <1>2 DEF OutputToPlace
  <2>2. \A w : WorkspaceToBind(w)' => WorkspaceToBind(w)
    BY <1>2 DEF WorkspaceToBind
  <2>3. \A j \in DOMAIN x.bindings : There(x.bindings[j].place)'
    BY <1>0, <1>6, <1>7, <1>13 DEF There, IsChunk
  <2>4. \A i \in DOMAIN steps' : (i \in DOMAIN steps /\ steps'[i] = steps[i]) \/ steps'[i] = x
    BY <1>1, <1>2
  <2>5. \A i \in DOMAIN steps' :
            \/ i \in DOMAIN steps /\ steps'[i] = steps[i]
            \/ \A j \in DOMAIN steps'[i].bindings : There(steps[i].bindings[j].place)'
    BY <2>3, <2>4 DEF There, IsChunk
  <2> QED
    BY <1>2, <1>3, <1>8, <1>10, <1>13, <2>1, <2>2, <2>5, NothingPlaced
<1> QED
  BY <1>13, <1>14 DEF AInv, Disciplined

LEMMA PickKernelAccounts == IInv /\ IInv' /\ AInv /\ PickKernel => Disciplined /\ AInv'
<1> SUFFICES ASSUME IInv, IInv', AInv, PickKernel PROVE Disciplined /\ AInv'
  OBVIOUS
<1>1. /\ Given /\ TypeOK /\ Standing /\ Counts /\ Accounts /\ CAP!IInv /\ steps \in Seq(StepType) /\ phase = "pick"
  BY AInvParts DEF PickKernel
<1>2. PICK k \in ready : \E waits \in WaitsFor(k, PickStream(k)) :
        /\ kid' = k
        /\ info' = [info EXCEPT ![k] = [order |-> Cardinality({j \in Kernels(graph) : info[j].scheduled}),
                                        stream |-> PickStream(k), event |-> next_event, scheduled |-> TRUE]]
        /\ steps' = steps \o waits
  BY Zenon DEF PickKernel
<1>3. PICK s, i : /\ s = PickStream(k)
                  /\ i = [order |-> Cardinality({j \in Kernels(graph) : info[j].scheduled}),
                          stream |-> s, event |-> next_event, scheduled |-> TRUE]
  OBVIOUS
<1>4. PICK waits \in WaitsFor(k, s) : kid' = k /\ info' = [info EXCEPT ![k] = i] /\ steps' = steps \o waits
  BY <1>2, <1>3
<1>5. /\ phase' = "bind" /\ pos' = 1 /\ bindings' = <<>> /\ post_transfers' = <<>>
      /\ UNCHANGED <<graph, chunks, free, value2place, value_on_tier>>
  BY DEF PickKernel, input, alloc
<1>6. k \in Kernels(graph) /\ ~ info[k].scheduled /\ s \in Stream
  <2>1. ready = {j \in Kernels(graph) : ~ info[j].scheduled /\ \A p \in deps.preds[j] : Done(p)}
    BY <1>1 DEF Counts
  <2> QED
    BY <1>1, <1>3, <2>1, PickStreamTyped
<1>7. (\A j \in Kernels(graph) : j # k => info'[j] = info[j]) /\ info'[k].scheduled
  <2>1. info \in [Kernels(graph) -> [order : Nat, stream : Stream, event : Nat, scheduled : BOOLEAN]]
    BY <1>1 DEF TypeOK
  <2>2. info'[k] = i
    BY <1>4, <1>6, <2>1
  <2> QED
    BY <1>3, <1>4, <1>6, <2>1, <2>2
<1>8. ~ Binds /\ ~ Busy /\ Binds' /\ Busy' /\ Fresh = NoChunk /\ Fresh' = NoChunk
  BY <1>1, <1>5 DEF Binds, Busy, Fresh
<1>9. ASSUME NEW u \in Slots(graph) PROVE Consumed(u)' <=> Consumed(u)
  <2>1. u[1] \in Kernels(graph)
    BY <1>1, SlotsAreCounted
  <2>2. CASE u[1] = k
    BY <1>4, <1>6, <1>8, <2>2 DEF Consumed
  <2>3. CASE u[1] # k
    BY <1>1, <1>4, <1>7, <1>8, <2>1, <2>3 DEF Consumed
  <2> QED
    BY <2>2, <2>3
<1>10. /\ waits \in Seq(StepType)
       /\ \A j \in 1..Len(waits) : waits[j].kind = "SyncWait" /\ waits[j].bindings = <<>>
  <2>1. Given /\ TypeOK /\ k \in Kernels(graph) /\ s \in Stream /\ waits \in WaitsFor(k, s)
    BY <1>1, <1>4, <1>6
  <2> QED
    BY <2>1, WaitsForFacts
<1>11. /\ Len(steps) \in Nat /\ Len(waits) \in Nat /\ DOMAIN steps = 1..Len(steps)
       /\ DOMAIN steps' = 1..(Len(steps) + Len(waits)) /\ Len(steps') = Len(steps) + Len(waits)
       /\ \A j \in 1..Len(steps) : steps'[j] = steps[j]
       /\ \A j \in 1..(Len(steps) + Len(waits)) : j > Len(steps) =>
             j - Len(steps) \in 1..Len(waits) /\ steps'[j] = waits[j - Len(steps)]
  BY <1>1, <1>4, <1>10, Joined
<1>12. \A j \in DOMAIN steps' :
          \/ j \in DOMAIN steps /\ steps'[j] = steps[j]
          \/ j > Len(steps) /\ steps'[j].kind = "SyncWait" /\ steps'[j].bindings = <<>>
  <2> SUFFICES ASSUME NEW j \in DOMAIN steps'
               PROVE  \/ j \in DOMAIN steps /\ steps'[j] = steps[j]
                      \/ j > Len(steps) /\ steps'[j].kind = "SyncWait" /\ steps'[j].bindings = <<>>
    OBVIOUS
  <2>1. j \in 1..(Len(steps) + Len(waits)) /\ j \in Nat
    BY <1>11
  <2>2. CASE j > Len(steps)
    BY <1>10, <1>11, <2>1, <2>2
  <2>3. CASE ~ (j > Len(steps))
    <3>1. j \in 1..Len(steps)
      BY <1>11, <2>1, <2>3
    <3> QED
      BY <1>11, <3>1
  <2> QED
    BY <2>2, <2>3
<1>13. NoKernelAdded
  <2>1. \A j \in 1..Len(steps') : j > Len(steps) => steps'[j].kind # "Kernel"
    <3>1. \A j \in 1..Len(steps') : j \in DOMAIN steps' /\ (j > Len(steps) => j \notin DOMAIN steps)
      BY <1>11
    <3> QED
      BY <1>12, <3>1
  <2> QED
    BY <1>11, <2>1 DEF NoKernelAdded
<1>14. \A d : ToRead(d)' = ToRead(d) /\ ToDeliver(d)' = ToDeliver(d) /\ CopiesBound(d)' = CopiesBound(d)
  <2>1. \A d : ToDeliver(d) = {} /\ CopiesBound(d) = {}
    BY <1>1, <1>8, NothingBound
  <2>2. \A d : ToDeliver(d)' = {} /\ CopiesBound(d)' = {}
    BY <1>5 DEF ToDeliver, CopiesBound
  <2> QED
    BY <1>5, <1>9, <2>1, <2>2, ReadsStay
<1>15. PlacesThere' /\ BindingsTrue' /\ Unplaced' /\ CopiesTrue' /\ \A d : CopyReads(d)' = CopyReads(d)
  <2>1. ASSUME NEW j \in Kernels(graph), NEW o \in DOMAIN graph.kernels[j].outs, OutputToPlace(j, o)' PROVE OutputToPlace(j, o)
    <3>1. CASE j = k
      BY <1>6, <3>1 DEF OutputToPlace
    <3>2. CASE j # k
      BY <1>4, <1>7, <2>1, <3>2 DEF OutputToPlace
    <3> QED
      BY <3>1, <3>2
  <2>2. ASSUME NEW u \in Slots(graph), WorkspaceToBind(u)' PROVE WorkspaceToBind(u)
    <3>1. u[1] \in Kernels(graph)
      BY <1>1, SlotsAreCounted
    <3>2. CASE u[1] = k
      BY <1>6, <3>2 DEF WorkspaceToBind
    <3>3. CASE u[1] # k
      BY <1>4, <1>7, <2>2, <3>1, <3>3 DEF WorkspaceToBind
    <3> QED
      BY <3>2, <3>3
  <2>3. \A j \in DOMAIN steps' :
            \/ j \in DOMAIN steps /\ steps'[j] = steps[j]
            \/ \A b \in DOMAIN steps'[j].bindings : There(steps[j].bindings[b].place)'
    BY <1>12
  <2>4. Binds' /\ bindings' # <<>> => Binds /\ UNCHANGED kid
    BY <1>5
  <2>5. \A j \in DOMAIN bindings' : j \in DOMAIN bindings /\ bindings'[j] = bindings[j]
    BY <1>5
  <2>6. \A j \in DOMAIN post_transfers' : j \in DOMAIN post_transfers /\ post_transfers'[j] = post_transfers[j]
    BY <1>5
  <2> QED
    BY <1>5, <1>13, <1>14, <2>1, <2>2, <2>3, <2>4, <2>5, <2>6, NothingPlaced
<1>16. Accounts'
  BY <1>1, <1>5, <1>14, <1>15 DEF Accounts, UsesOf
<1>17. Disciplined
  BY <1>1, <1>5, <1>8, NoCall
<1> QED
  BY <1>15, <1>16, <1>17 DEF AInv, Disciplined

-----------------------------------------------------------------------------
(* The scheduler as a whole. *)

(* At first only what comes from outside has a place: nothing a kernel       *)
(* writes, and no workspace.                                                 *)
LEMMA InitUnplaced == Init => Unplaced
<1> SUFFICES ASSUME Init PROVE Unplaced
  OBVIOUS
<1>1. /\ graph \in Graphs /\ Given
      /\ value2place = [v \in Values(graph) |-> IF v \in graph.inputs THEN InputPlace(v)
                                                ELSE IF v \in graph.states THEN SessionState(v)
                                                ELSE IF v \in graph.initializers THEN Initializer(v)
                                                ELSE NoPlace]
  BY InitIInv DEF Init, IInv
<1>2. \A v \in Values(graph) : v \notin graph.inputs \cup graph.initializers \cup graph.states => value2place[v] = NoPlace
  BY <1>1
<1>3. ASSUME NEW k \in Kernels(graph), NEW j \in DOMAIN graph.kernels[k].outs
      PROVE  value2place[graph.kernels[k].outs[j]] = NoPlace
  <2>1. PICK v : v = graph.kernels[k].outs[j]
    OBVIOUS
  <2>2. v \in Values(graph) /\ Writes(graph, k, v)
    <3>1. /\ DOMAIN graph.kernels[k].outs = 1..Len(graph.kernels[k].outs)
          /\ \A i \in 1..Len(graph.kernels[k].outs) : graph.kernels[k].outs[i] \in Values(graph)
      BY <1>1, KernelTyped
    <3> QED
      BY <2>1, <3>1 DEF Writes
  <2>3. Producer(graph, v) \in Kernels(graph)
    BY <2>2 DEF Producer
  <2>4. \A p \in Kernels(graph) : p # NoKernel
    BY <1>1, GraphTyped DEF NoKernel
  <2>5. v \in graph.inputs \cup graph.initializers \cup graph.states => Producer(graph, v) = NoKernel
    BY <1>1, <2>2, GraphTyped DEF WellFormed
  <2> QED
    BY <1>2, <2>1, <2>2, <2>3, <2>4, <2>5
<1>4. ASSUME NEW u \in Slots(graph), ReadAt(graph, u) \in Workspaces(graph)
      PROVE  value2place[ReadAt(graph, u)] = NoPlace
  BY <1>2, <1>4 DEF Workspaces
<1> QED
  BY <1>3, <1>4 DEF Unplaced

(* At first no chunk was asked for, and nothing is placed on one.            *)
LEMMA InitAccounts == Init => CA!Init /\ AInv
<1> SUFFICES ASSUME Init PROVE CA!Init /\ AInv
  OBVIOUS
<1>1. /\ graph \in Graphs /\ phase = "pick" /\ kid = NoKernel /\ bindings = <<>> /\ post_transfers = <<>>
      /\ chunks = <<>> /\ free = NoFree /\ steps = <<>>
      /\ value2place = [v \in Values(graph) |-> IF v \in graph.inputs THEN InputPlace(v)
                                                ELSE IF v \in graph.states THEN SessionState(v)
                                                ELSE IF v \in graph.initializers THEN Initializer(v)
                                                ELSE NoPlace]
      /\ value_on_tier = [x \in Values(graph) \X Tier |-> [place |-> NoPlace, event |-> 0, stream |-> 0]]
  BY DEF Init
<1>2. Fresh = NoChunk /\ ~ Binds
  BY <1>1 DEF Fresh, Binds
<1>3. CA!Init
  BY <1>1, <1>2 DEF CA!Init, CA!NoFree, CA!NoChunk, CA!FreeList, NoFree, NoChunk, FreeList
<1>4. CAP!IInv
  <2>1. CAP!Init
    BY <1>1, <1>2 DEF CAP!Init, CAP!NoFree, CAP!NoChunk, CAP!FreeList, NoFree, NoChunk, FreeList
  <2> QED
    BY <2>1, CAP!InitIInv, SizesNatural, AlignAssumption
<1>5. Accounts
  BY <1>1 DEF Accounts
<1>6. \A v \in Values(graph) : ~ IsChunk(value2place[v])
  BY <1>1 DEF IsChunk, InputPlace, SessionState, Initializer, NoPlace
<1>7. \A x \in Values(graph) \X Tier : value_on_tier[x].place = NoPlace
  BY <1>1
<1>8. PlacesThere
  BY <1>1, <1>6, <1>7 DEF PlacesThere, There, IsChunk, NoPlace
<1>9. BindingsTrue
  BY <1>1, <1>2 DEF BindingsTrue
<1>10. CopiesTrue
  BY <1>7 DEF CopiesTrue
<1> QED
  BY <1>3, <1>4, <1>5, <1>8, <1>9, <1>10, InitUnplaced DEF AInv

(* Every step is a call of the allocator that keeps its discipline, or none, *)
(* and keeps the accounts.                                                   *)
LEMMA NextAInv == IInv /\ AInv /\ [Next]_vars => Disciplined /\ AInv'
<1> SUFFICES ASSUME IInv, AInv, [Next]_vars PROVE Disciplined /\ AInv'
  OBVIOUS
<1>0. IInv'
  BY NextIInv
<1>1. CASE PickKernel
  BY <1>0, <1>1, PickKernelAccounts
<1>2. CASE BindInitializer
  BY <1>0, <1>2, BindInitializerAccounts
<1>3. CASE BindWorkspace
  BY <1>0, <1>3, BindWorkspaceAccounts
<1>4. CASE BindStored
  BY <1>0, <1>4, BindStoredAccounts
<1>5. CASE UseCopy
  BY <1>0, <1>5, UseCopyAccounts
<1>6. CASE MakeCopy
  BY <1>0, <1>6, MakeCopyAccounts
<1>7. CASE PlaceInPlace
  BY <1>0, <1>7, PlaceInPlaceAccounts
<1>8. CASE PlaceOnOutput
  BY <1>0, <1>8, PlaceOnOutputAccounts
<1>9. CASE PlaceOnChunk
  BY <1>0, <1>9, PlaceOnChunkAccounts
<1>10. CASE DeliverOutput
  BY <1>0, <1>10, DeliverOutputAccounts
<1>11. CASE ReleaseOutput
  BY <1>0, <1>11, ReleaseOutputAccounts
<1>12. CASE EmitStep
  BY <1>0, <1>12, EmitStepAccounts
<1>13. CASE PostTransfer
  BY <1>0, <1>13, PostTransferAccounts
<1>14. CASE ConsumeInput
  BY <1>0, <1>14, ConsumeInputAccounts
<1>15. CASE AdvanceReady
  BY <1>0, <1>15, AdvanceReadyAccounts
<1>16. CASE FinalizeOutput
  BY <1>0, <1>16, FinalizeOutputAccounts
<1>17. CASE FinishPlan
  BY <1>0, <1>17, FinishPlanAccounts
<1>18. CASE UNCHANGED vars
  <2>1. UNCHANGED <<graph, deps, output_alias, phase, kid, pos, bindings, post_transfers, chunks, free,
                    value2place, remaining, value_on_tier, pending, ready, info, load, next_event, steps>>
    BY <1>18 DEF vars
  <2>2. Fresh' = Fresh
    BY <2>1 DEF Fresh, Out, Outs, Ins, Kernel, IsChunk, NoChunk
  <2>3. Disciplined
    BY <2>1, <2>2, AInvParts, NoCall
  <2>4. Accounts' /\ PlacesThere'
    <3>1. \A d : CopyReads(d)' = CopyReads(d)
      BY <2>1 DEF CopyReads, ChunkPlace
    <3>2. \A d : ToRead(d)' = ToRead(d)
      BY <2>1 DEF ToRead, Consumed, Binds, ChunkPlace
    <3>3. \A d : ToDeliver(d)' = ToDeliver(d) /\ CopiesBound(d)' = CopiesBound(d)
      BY <2>1 DEF ToDeliver, CopiesBound, Binds, ChunkPlace
    <3>4. Accounts'
      BY <2>1, <3>1, <3>2, <3>3 DEF AInv, Accounts, UsesOf
    <3>5. PlacesThere'
      BY <2>1 DEF AInv, PlacesThere, TransferThere, There, IsChunk
    <3> QED
      BY <3>4, <3>5
  <2>5. BindingsTrue' /\ Unplaced' /\ CopiesTrue'
    BY <2>1 DEF AInv, BindingsTrue, BindingTrue, Binds, Ins, Kernel, IsChunk, NoPlace, Unplaced, OutputToPlace,
                WorkspaceToBind, CopiesTrue, CopyReads, CopiesBound, ChunkPlace
  <2> QED
    BY <2>3, <2>4, <2>5 DEF AInv, Disciplined
<1> QED
  BY <1>1, <1>2, <1>3, <1>4, <1>5, <1>6, <1>7, <1>8, <1>9, <1>10, <1>11, <1>12, <1>13, <1>14, <1>15,
     <1>16, <1>17, <1>18 DEF Next

(* Between two kernels the uses are the reads to come and those of copies.   *)
LEMMA AccountsSuffice == IInv /\ AInv => LiveUsesAccounted
<1> SUFFICES ASSUME IInv, AInv, phase = "pick", NEW c \in DOMAIN chunks
             PROVE  chunks[c].live = Cardinality(ReadsToCome(c)) + Cardinality(CopyReads(c))
  BY DEF LiveUsesAccounted
<1>1. Given /\ TypeOK /\ Accounts /\ ~ Binds
  BY AInvParts DEF Binds
<1>2. ToRead(c) = ReadsToCome(c)
  BY <1>1 DEF ToRead, ReadsToCome, Consumed
<1>3. ToDeliver(c) = {} /\ CopiesBound(c) = {}
  BY <1>1, NothingBound
<1>4. Cardinality({}) = 0 /\ Cardinality(ToRead(c)) \in Nat /\ Cardinality(CopyReads(c)) \in Nat
  BY <1>1, UsesFinite, FS_EmptySet
<1>5. chunks[c].live = Cardinality(ToRead(c)) + 0 + Cardinality(CopyReads(c)) + 0
  BY <1>1, <1>3, <1>4 DEF Accounts, UsesOf
<1> QED
  BY <1>2, <1>4, <1>5

(* Both invariants always hold of the scheduler.                             *)
LEMMA BothHold == Spec => [](IInv /\ AInv)
<1>1. Init => IInv /\ AInv
  BY InitIInv, InitAccounts
<1>2. IInv /\ AInv /\ [Next]_vars => (IInv /\ AInv)'
  BY NextIInv, NextAInv
<1> QED
  BY <1>1, <1>2, PTL DEF Spec

(* Whatever the graph, a chunk is alive between two kernels for exactly the  *)
(* reads still to come of the values placed on it, and one more for every    *)
(* read of a copy: no use is lost, and none but a copy's is kept for good    *)
(* (schedule_kernel, consume, ensure_value_on_tier).                         *)
THEOREM LiveUsesAlwaysAccounted == Spec => []LiveUsesAccounted
  BY BothHold, AccountsSuffice, PTL

(* The scheduler implements the chunk allocator's discipline: every step is  *)
(* one call of the allocator, for a chunk the scheduler holds, or none, so   *)
(* that what the allocator promises its callers holds of every plan          *)
(* (bind_kernel, ensure_value_on_tier, consume, release_if_dead).            *)
THEOREM KeepsTheDiscipline == Spec => AllocatorDiscipline
<1>1. Init => CA!Init
  BY InitAccounts
<1>2. (IInv /\ AInv) /\ [Next]_vars => [CA!Next]_(CA!vars)
  BY NextAInv DEF Disciplined, CA!vars
<1> QED
  BY <1>1, <1>2, BothHold, PTL DEF Spec, AllocatorDiscipline, CA!Spec

-----------------------------------------------------------------------------
(* Which values are the same bytes. *)

(* The value x forwards, or x itself.                                        *)
Up(x) == IF ForwardedFrom(graph, x) = NoValue THEN x ELSE ForwardedFrom(graph, x)

LEMMA NoValueNone ==
  ASSUME Given
  PROVE  NoValue \notin Values(graph) /\ NoKernel \notin Kernels(graph)
  BY GraphTyped DEF NoValue, NoKernel

(* A value is produced by the kernel that writes it, or by none.             *)
LEMMA ProducerFacts ==
  ASSUME Given, NEW v
  PROVE  /\ Producer(graph, v) \in Nat
         /\ Producer(graph, v) # NoKernel => Producer(graph, v) \in Kernels(graph) /\ Writes(graph, Producer(graph, v), v)
         /\ v \in Values(graph) => \A k \in Kernels(graph) : Writes(graph, k, v) => Producer(graph, v) = k
<1>1. Kernels(graph) = 1..Len(graph.kernels) /\ Len(graph.kernels) \in Nat
  BY GraphTyped
<1>2. CASE \E k \in Kernels(graph) : Writes(graph, k, v)
  <2>1. PICK p : p = CHOOSE k \in Kernels(graph) : Writes(graph, k, v)
    OBVIOUS
  <2>2. p \in Kernels(graph) /\ Writes(graph, p, v)
    BY <1>2, <2>1, Zenon
  <2>3. Producer(graph, v) = p
    BY <1>2, <2>1 DEF Producer
  <2>4. ASSUME v \in Values(graph), NEW k \in Kernels(graph), Writes(graph, k, v) PROVE p = k
    BY <2>2, <2>4, OneWriter
  <2> QED
    BY <1>1, <2>2, <2>3, <2>4
<1>3. CASE ~ \E k \in Kernels(graph) : Writes(graph, k, v)
  <2>1. Producer(graph, v) = NoKernel
    BY <1>3 DEF Producer
  <2> QED
    BY <1>3, <2>1 DEF NoKernel
<1> QED
  BY <1>2, <1>3

(* What a kernel reads is produced before it.                                *)
LEMMA ReadsBefore ==
  ASSUME Given, NEW k \in Kernels(graph), NEW i, i \in DOMAIN graph.kernels[k].ins, NEW w, w = graph.kernels[k].ins[i]
  PROVE  Producer(graph, w) < k
<1>1. CASE Producer(graph, w) = NoKernel
  BY <1>1, GraphTyped DEF NoKernel
<1>2. CASE Producer(graph, w) # NoKernel
  <2>1. PICK p : p = Producer(graph, w)
    OBVIOUS
  <2>2. p \in Kernels(graph) /\ Writes(graph, p, w)
    BY <1>2, <2>1, ProducerFacts
  <2>3. ~ Writes(graph, k, w)
    BY GraphTyped DEF WellFormed
  <2>4. p \in Preds(graph, k)
    BY <2>2, <2>3 DEF Preds
  <2>5. p < k
    BY <2>4, GraphTyped DEF WellFormed
  <2> QED
    BY <2>1, <2>5
<1> QED
  BY <1>1, <1>2

(* A forwarded value comes from the only input of a forward, which is        *)
(* produced before it.                                                       *)
LEMMA ForwardedFacts ==
  ASSUME Given, NEW v \in Values(graph), NEW w, w = ForwardedFrom(graph, v), w # NoValue
  PROVE  \E k \in Kernels(graph) : /\ k = Producer(graph, v) /\ graph.kernels[k].op = "Forward"
                                   /\ w = graph.kernels[k].ins[1] /\ w \in Values(graph)
                                   /\ Producer(graph, w) < k
<1>1. PICK k : k = Producer(graph, v)
  OBVIOUS
<1>2. k # NoKernel /\ graph.kernels[k].op = "Forward" /\ w = graph.kernels[k].ins[1]
  BY <1>1 DEF ForwardedFrom
<1>3. k \in Kernels(graph) /\ Writes(graph, k, v)
  BY <1>1, <1>2, ProducerFacts
<1>4. w \in Values(graph)
  BY ForwardedTyped
<1>5. 1 \in DOMAIN graph.kernels[k].ins
  BY <1>3, KernelTyped
<1>6. Producer(graph, w) < k
  BY <1>2, <1>3, <1>5, ReadsBefore
<1> QED
  BY <1>1, <1>2, <1>3, <1>4, <1>6

LEMMA UpTyped ==
  ASSUME Given, NEW v \in Values(graph)
  PROVE  Up(v) \in Values(graph)
  BY ForwardedTyped DEF Up

(* What Origin computes: as many steps up as there are kernels.              *)
Climb(v, f) == f[0] = v /\ \A n \in 1..Len(graph.kernels) : f[n] = Up(f[n - 1])

LEMMA OriginIsClimb ==
  ASSUME Given, NEW v \in Values(graph)
  PROVE  \E f \in [0..Len(graph.kernels) -> Values(graph)] : Climb(v, f) /\ Origin(graph, v) = f[Len(graph.kernels)]
<1> DEFINE N == Len(graph.kernels)
           V == Values(graph)
           F == [x \in V |-> Up(x)]
           After(w) == LET pred == ForwardedFrom(graph, w) IN IF pred = NoValue THEN w ELSE pred
           Rec(e) == [n \in 0..N |-> IF n = 0 THEN v ELSE After(e[n - 1])]
           e == CHOOSE u : u = Rec(u)
<1>1. N \in Nat /\ v \in V
  BY GraphTyped
<1>2. F \in [V -> V]
  BY UpTyped
<1>3. PICK f \in [0..N -> V] : f[0] = v /\ \A n \in 1..N : f[n] = F[f[n - 1]]
  <2> HIDE DEF F, N, V
  <2>1. PICK f \in [0..N -> V] : Iterates(N, v, F, f)
    BY <1>1, <1>2, IteratesExist
  <2> QED
    BY <2>1 DEF Iterates
<1>4. \A w : After(w) = Up(w)
  BY DEF Up
<1>5. ASSUME NEW n \in 1..N PROVE f[n] = Up(f[n - 1]) /\ f[n - 1] \in V /\ n - 1 \in 0..N
  <2>1. n - 1 \in 0..N
    BY <1>1
  <2>2. f[n - 1] \in V
    <3> HIDE DEF V, N
    <3> QED
      BY <1>3, <2>1
  <2>3. f[n] = F[f[n - 1]]
    <3> HIDE DEF F, N
    <3> QED
      BY <1>3
  <2>4. F[f[n - 1]] = Up(f[n - 1])
    BY <2>2
  <2> HIDE DEF F
  <2> QED
    BY <2>1, <2>2, <2>3, <2>4
<1>6. f = Rec(f)
  <2>1. ASSUME NEW n \in 0..N PROVE f[n] = Rec(f)[n]
    <3>1. CASE n = 0
      <4> HIDE DEF After
      <4> QED
        BY <1>3, <3>1
    <3>2. CASE n # 0
      <4>1. n \in 1..N
        BY <1>1, <3>2
      <4>2. f[n] = After(f[n - 1])
        <5> HIDE DEF After, N, V
        <5> QED
          BY <1>4, <1>5, <4>1
      <4> HIDE DEF After, N
      <4> QED
        BY <3>2, <4>2
    <3> QED
      BY <3>1, <3>2
  <2> HIDE DEF After, N, V
  <2> QED
    BY <1>3, <2>1
<1>7. e = Rec(e)
  <2> HIDE DEF Rec
  <2> QED
    BY <1>6
<1>8. Origin(graph, v) = e[N]
  BY DEF Origin
<1>9. \A n \in 0..N : e[n] = f[n]
  <2> DEFINE T == {m \in 0..N : e[m] = f[m]}
  <2>1. 0 \in T
    <3>1. 0 \in 0..N
      BY <1>1
    <3>2. e[0] = v
      <4> HIDE DEF e, N, After
      <4> QED
        BY <1>7, <3>1
    <3> HIDE DEF e, N, V
    <3> QED
      BY <1>3, <3>1, <3>2
  <2>2. ASSUME NEW m \in 0..(N - 1), m \in T PROVE m + 1 \in T
    <3>1. m + 1 \in 1..N /\ m + 1 \in 0..N /\ m + 1 # 0 /\ (m + 1) - 1 = m
      <4> HIDE DEF N, e
      <4> QED
        BY <1>1
    <3>2. e[m + 1] = After(e[m])
      <4> HIDE DEF e, N, After
      <4> QED
        BY <1>7, <3>1
    <3>3. e[m] = f[m]
      BY <2>2
    <3>4. f[m + 1] = Up(f[m])
      <4> HIDE DEF N, V
      <4> QED
        BY <1>5, <3>1
    <3> HIDE DEF e, N, After
    <3> QED
      BY <1>4, <3>1, <3>2, <3>3, <3>4
  <2>3. \A m \in 0..N : m \in T
    <3> HIDE DEF T, N
    <3> QED
      BY <1>1, <2>1, <2>2, UpTo
  <2> QED
    BY <2>3
<1>10. Climb(v, f) /\ N \in 0..N
  <2>1. N \in 0..N
    <3> HIDE DEF N
    <3> QED
      BY <1>1
  <2> QED
    BY <1>3, <1>5, <2>1 DEF Climb
<1> HIDE DEF e
<1> QED
  BY <1>3, <1>8, <1>9, <1>10

(* Where a climb of n steps from v stands: every step goes to an earlier     *)
(* producer, until nothing more is forwarded.                                *)
Climbed(v, n, x) ==
  /\ x \in Values(graph) /\ Producer(graph, x) <= Producer(graph, v)
  /\ x = v \/ \E k \in Kernels(graph) : graph.kernels[k].op = "Forward" /\ graph.kernels[k].ins[1] = x
  /\ Producer(graph, x) + n <= Producer(graph, v) \/ ForwardedFrom(graph, x) = NoValue

LEMMA ClimbStep ==
  ASSUME Given, NEW v \in Values(graph), NEW n \in Nat, NEW x, Climbed(v, n, x)
  PROVE  Climbed(v, n + 1, Up(x))
<1>1. x \in Values(graph) /\ Producer(graph, x) \in Nat /\ Producer(graph, v) \in Nat
  BY ProducerFacts DEF Climbed
<1>2. CASE ForwardedFrom(graph, x) = NoValue
  <2>1. Up(x) = x
    BY <1>2 DEF Up
  <2> QED
    BY <1>2, <2>1 DEF Climbed
<1>3. CASE ForwardedFrom(graph, x) # NoValue
  <2>1. PICK y : y = Up(x) /\ y = ForwardedFrom(graph, x)
    BY <1>3 DEF Up
  <2>2. PICK k \in Kernels(graph) : /\ k = Producer(graph, x) /\ graph.kernels[k].op = "Forward"
                                    /\ y = graph.kernels[k].ins[1] /\ y \in Values(graph)
                                    /\ Producer(graph, y) < k
    BY <1>1, <1>3, <2>1, ForwardedFacts
  <2>3. PICK py, px, pv : py = Producer(graph, y) /\ px = Producer(graph, x) /\ pv = Producer(graph, v)
    OBVIOUS
  <2>4. py \in Nat /\ px \in Nat /\ pv \in Nat /\ py < px /\ px <= pv /\ px + n <= pv
    BY <1>1, <1>3, <2>2, <2>3, ProducerFacts DEF Climbed
  <2>5. py <= pv /\ py + (n + 1) <= pv
    BY <2>4
  <2> QED
    BY <2>1, <2>2, <2>3, <2>5 DEF Climbed
<1> QED
  BY <1>2, <1>3

LEMMA Climbing ==
  ASSUME Given, NEW v \in Values(graph), NEW f \in [0..Len(graph.kernels) -> Values(graph)], Climb(v, f)
  PROVE  \A n \in 0..Len(graph.kernels) : Climbed(v, n, f[n])
<1> DEFINE N == Len(graph.kernels)
           T == {m \in 0..N : Climbed(v, m, f[m])}
<1>1. N \in Nat
  BY GraphTyped
<1>2. 0 \in T
  <2>1. 0 \in 0..N /\ f[0] = v
    BY <1>1 DEF Climb
  <2>2. Producer(graph, v) \in Nat
    BY ProducerFacts
  <2>3. Climbed(v, 0, v)
    BY <2>2 DEF Climbed
  <2> QED
    BY <2>1, <2>3
<1>3. ASSUME NEW m \in 0..(N - 1), m \in T PROVE m + 1 \in T
  <2>1. m + 1 \in 1..N /\ m + 1 \in 0..N /\ (m + 1) - 1 = m /\ m \in Nat
    BY <1>1
  <2>2. f[m + 1] = Up(f[m])
    BY <2>1 DEF Climb
  <2>3. Climbed(v, m, f[m])
    BY <1>3
  <2>4. Climbed(v, m + 1, Up(f[m]))
    BY <2>1, <2>3, ClimbStep
  <2> QED
    BY <2>1, <2>2, <2>4
<1>4. \A m \in 0..N : m \in T
  <2> HIDE DEF T, N
  <2> QED
    BY <1>1, <1>2, <1>3, UpTo
<1> QED
  BY <1>4

(* The origin of a value (Origin): it is of the graph, produced no later     *)
(* than the value, and it is the value itself or what a forward forwards.    *)
LEMMA OriginFacts ==
  ASSUME Given, NEW v \in Values(graph)
  PROVE  /\ Origin(graph, v) \in Values(graph) /\ Producer(graph, Origin(graph, v)) <= Producer(graph, v)
         /\ \/ Origin(graph, v) = v
            \/ \E k \in Kernels(graph) : graph.kernels[k].op = "Forward" /\ graph.kernels[k].ins[1] = Origin(graph, v)
<1>1. PICK f \in [0..Len(graph.kernels) -> Values(graph)] : Climb(v, f) /\ Origin(graph, v) = f[Len(graph.kernels)]
  BY OriginIsClimb
<1>2. Len(graph.kernels) \in 0..Len(graph.kernels)
  BY GraphTyped
<1>3. Climbed(v, Len(graph.kernels), Origin(graph, v))
  BY <1>1, <1>2, Climbing
<1> QED
  BY <1>3 DEF Climbed

(* A value that forwards nothing is its own origin.                          *)
LEMMA OriginOfItself ==
  ASSUME Given, NEW v \in Values(graph), ForwardedFrom(graph, v) = NoValue
  PROVE  Origin(graph, v) = v
<1> DEFINE N == Len(graph.kernels)
<1>1. PICK f \in [0..N -> Values(graph)] : Climb(v, f) /\ Origin(graph, v) = f[N]
  BY OriginIsClimb
<1> DEFINE T == {m \in 0..N : f[m] = v}
<1>2. N \in Nat
  BY GraphTyped
<1>3. 0 \in T
  BY <1>1, <1>2 DEF Climb
<1>4. ASSUME NEW m \in 0..(N - 1), m \in T PROVE m + 1 \in T
  <2>1. m + 1 \in 1..N /\ m + 1 \in 0..N /\ (m + 1) - 1 = m
    BY <1>2
  <2>2. f[m + 1] = Up(v)
    BY <1>1, <1>4, <2>1 DEF Climb
  <2> QED
    BY <2>1, <2>2 DEF Up
<1>5. \A m \in 0..N : m \in T
  <2> HIDE DEF T, N
  <2> QED
    BY <1>2, <1>3, <1>4, UpTo
<1> QED
  BY <1>1, <1>2, <1>5

(* A forwarded value has the origin of the value it forwards.                *)
LEMMA OriginForwarded ==
  ASSUME Given, NEW v \in Values(graph), NEW w, w = ForwardedFrom(graph, v), w # NoValue
  PROVE  w \in Values(graph) /\ Origin(graph, v) = Origin(graph, w)
<1> DEFINE N == Len(graph.kernels)
<1>1. PICK k \in Kernels(graph) : k = Producer(graph, v) /\ w \in Values(graph) /\ Producer(graph, w) < k
  BY ForwardedFacts
<1>2. N \in Nat /\ k \in 1..N /\ N - 1 \in 0..(N - 1) /\ N - 1 \in 0..N /\ N \in 1..N
  BY <1>1, GraphTyped
<1>3. PICK f \in [0..N -> Values(graph)] : Climb(v, f) /\ Origin(graph, v) = f[N]
  BY OriginIsClimb
<1>4. PICK h \in [0..N -> Values(graph)] : Climb(w, h) /\ Origin(graph, w) = h[N]
  BY <1>1, OriginIsClimb
<1> DEFINE T == {m \in 0..(N - 1) : f[m + 1] = h[m]}
<1>5. 0 \in T
  <2>1. 1 \in 1..N /\ 0 \in 0..(N - 1)
    BY <1>2
  <2>2. f[1] = Up(v) /\ h[0] = w
    BY <1>3, <1>4, <2>1 DEF Climb
  <2> QED
    BY <2>1, <2>2 DEF Up
<1>6. ASSUME NEW m \in 0..(N - 1 - 1), m \in T PROVE m + 1 \in T
  <2>1. m + 1 \in 1..N /\ m + 1 \in 0..(N - 1) /\ (m + 1) - 1 = m /\ (m + 1) + 1 \in 1..N /\ ((m + 1) + 1) - 1 = m + 1
    BY <1>2
  <2>2. f[(m + 1) + 1] = Up(f[m + 1])
    BY <1>3, <2>1 DEF Climb
  <2>3. h[m + 1] = Up(h[m])
    BY <1>4, <2>1 DEF Climb
  <2> QED
    BY <1>6, <2>1, <2>2, <2>3
<1>7. \A m \in 0..(N - 1) : m \in T
  <2>1. N - 1 \in Nat
    BY <1>2
  <2> HIDE DEF T, N
  <2> QED
    BY <1>5, <1>6, <2>1, UpTo, SMTT(30)
<1>8. f[N] = h[N - 1]
  <2>1. (N - 1) + 1 = N
    BY <1>2
  <2> QED
    BY <1>2, <1>7, <2>1
<1>9. ForwardedFrom(graph, h[N - 1]) = NoValue
  <2>1. PICK x : x = h[N - 1]
    OBVIOUS
  <2>2. Climbed(w, N - 1, x)
    BY <1>1, <1>2, <1>4, <2>1, Climbing
  <2>3. PICK px, pw : px = Producer(graph, x) /\ pw = Producer(graph, w)
    OBVIOUS
  <2>4. px \in Nat /\ pw \in Nat
    BY <2>3, ProducerFacts
  <2>5. CASE px + (N - 1) <= pw
    <3>1. px = 0
      BY <1>1, <1>2, <2>3, <2>4, <2>5
    <3> QED
      BY <2>1, <2>3, <3>1 DEF ForwardedFrom, NoKernel
  <2> QED
    BY <2>1, <2>2, <2>3, <2>5 DEF Climbed
<1>10. h[N] = h[N - 1]
  <2>1. h[N] = Up(h[N - 1])
    BY <1>2, <1>4 DEF Climb
  <2> QED
    BY <1>9, <2>1 DEF Up
<1> QED
  BY <1>1, <1>3, <1>4, <1>8, <1>10

(* The walk back from the outputs only ever names an output that is the same *)
(* bytes.                                                                    *)
Walked(st) ==
  /\ st \in WalkState
  /\ \A v \in Values(graph) : st.alias[v] # NoValue => Origin(graph, v) = Origin(graph, st.alias[v])
  /\ \A v \in Values(graph) : IsOutput(graph, v) => st.alias[v] # NoValue
  /\ \A i \in 1..Len(st.queue) : st.alias[st.queue[i]] # NoValue

LEMMA WalkStaysTrue ==
  ASSUME Given, NEW st, Walked(st)
  PROVE  Walked(WalkBack(graph, st))
<1>1. st \in WalkState /\ WalkBack(graph, st) \in WalkState
  BY WalkTyped DEF Walked
<1>2. st.alias \in [Values(graph) -> Values(graph) \cup {NoValue}] /\ st.queue \in Seq(Values(graph))
  BY <1>1 DEF WalkState
<1>3. CASE st.queue = <<>>
  BY <1>3 DEF WalkBack
<1>4. CASE st.queue # <<>>
  <2>1. PICK v, pred, rest : /\ v = st.queue[Len(st.queue)] /\ pred = ForwardedFrom(graph, v)
                             /\ rest = SubSeq(st.queue, 1, Len(st.queue) - 1)
    OBVIOUS
  <2>2. /\ v \in Values(graph) /\ rest \in Seq(Values(graph)) /\ Len(rest) = Len(st.queue) - 1
        /\ \A i \in 1..Len(rest) : rest[i] = st.queue[i] /\ i \in 1..Len(st.queue)
        /\ Len(st.queue) \in 1..Len(st.queue)
    BY <1>2, <1>4, <2>1
  <2>3. CASE pred = NoValue
    <3>1. WalkBack(graph, st) = [st EXCEPT !.queue = rest]
      BY <1>4, <2>1, <2>3 DEF WalkBack
    <3>2. WalkBack(graph, st).alias = st.alias /\ WalkBack(graph, st).queue = rest
      BY <1>1, <3>1 DEF WalkState
    <3> QED
      BY <1>1, <2>2, <3>2 DEF Walked
  <2>4. CASE pred # NoValue
    <3>1. pred \in Values(graph) /\ Origin(graph, v) = Origin(graph, pred)
      BY <2>1, <2>2, <2>4, OriginForwarded
    <3>2. PICK t, a, q : /\ t = st.alias[v] /\ a = [st.alias EXCEPT ![pred] = t]
                         /\ q = IF st.alias[pred] = NoValue THEN Append(rest, pred) ELSE rest
      OBVIOUS
    <3>3. WalkBack(graph, st) = [alias |-> a, queue |-> q]
      BY <1>4, <2>1, <2>4, <3>2 DEF WalkBack
    <3>4. t # NoValue /\ Origin(graph, v) = Origin(graph, t)
      BY <2>1, <2>2, <3>2 DEF Walked
    <3>5. a[pred] = t /\ \A w \in Values(graph) : w # pred => a[w] = st.alias[w]
      BY <1>2, <3>1, <3>2
    <3>6. \A w \in Values(graph) : a[w] # NoValue => Origin(graph, w) = Origin(graph, a[w])
      BY <3>1, <3>4, <3>5 DEF Walked
    <3>7. \A w \in Values(graph) : IsOutput(graph, w) => a[w] # NoValue
      BY <3>4, <3>5 DEF Walked
    <3>8. \A i \in 1..Len(rest) : rest[i] \in Values(graph) /\ a[rest[i]] # NoValue
      <4>1. \A i \in 1..Len(rest) : st.alias[rest[i]] # NoValue
        BY <2>2 DEF Walked
      <4>2. \A i \in 1..Len(rest) : rest[i] \in Values(graph)
        BY <2>2
      <4> QED
        BY <3>4, <3>5, <4>1, <4>2
    <3>9. \A i \in 1..Len(q) : a[q[i]] # NoValue
      <4>1. CASE st.alias[pred] = NoValue
        <5>1. q = Append(rest, pred)
          BY <3>2, <4>1
        <5>2. \A i \in 1..Len(q) : (i \in 1..Len(rest) /\ q[i] = rest[i]) \/ q[i] = pred
          BY <2>2, <5>1
        <5> QED
          BY <3>4, <3>5, <3>8, <5>2
      <4>2. CASE st.alias[pred] # NoValue
        BY <3>2, <3>8, <4>2
      <4> QED
        BY <4>1, <4>2
    <3>10. WalkBack(graph, st).alias = a /\ WalkBack(graph, st).queue = q
      BY <3>3
    <3> QED
      BY <1>1, <3>6, <3>7, <3>9, <3>10 DEF Walked
  <2> QED
    BY <2>3, <2>4
<1> QED
  BY <1>3, <1>4

(* A value lands in the buffer of an output only if it is that output's      *)
(* bytes, and every output lands in one (Schedule::output_aliases).          *)
LEMMA AliasTrue ==
  ASSUME Given, NEW v \in Values(graph)
  PROVE  /\ output_alias[v] \in Values(graph) \cup {NoValue}
         /\ output_alias[v] # NoValue => output_alias[v] \in Values(graph) /\ Origin(graph, v) = Origin(graph, output_alias[v])
         /\ IsOutput(graph, v) => output_alias[v] # NoValue
<1> DEFINE S == {st \in WalkState : Walked(st)}
<1>1. WalkFrom(graph) \in S
  <2>1. WalkFrom(graph) \in WalkState
    BY WalkTyped
  <2>2. /\ WalkFrom(graph).queue = graph.outputs
        /\ \A w \in Values(graph) : WalkFrom(graph).alias[w] = IF IsOutput(graph, w) THEN w ELSE NoValue
    BY DEF WalkFrom
  <2>3. \A i \in 1..Len(graph.outputs) : graph.outputs[i] \in Values(graph) /\ IsOutput(graph, graph.outputs[i])
    <3>1. graph.outputs \in Seq(Values(graph))
      BY GraphTyped DEF GraphType
    <3> HIDE DEF S
    <3> QED
      BY <3>1 DEF IsOutput
  <2> QED
    BY <2>1, <2>2, <2>3, NoValueNone DEF Walked
<1>2. \A st \in S : WalkBack(graph, st) \in S
  BY WalkStaysTrue, WalkTyped
<1>3. PICK st \in S : output_alias = st.alias
  <2> HIDE DEF S
  <2> QED
    BY <1>1, <1>2, AliasOf
<1>4. Walked(st) /\ st.alias \in [Values(graph) -> Values(graph) \cup {NoValue}]
  BY <1>3 DEF WalkState
<1> QED
  BY <1>3, <1>4 DEF Walked

-----------------------------------------------------------------------------
(* Where values are: the inductive invariant. *)

(* No chunk is to keep two different values at once, whatever the phase.     *)
HeldApart ==
  \A c \in DOMAIN chunks : \A v, w \in Held(c) : Origin(graph, v) = Origin(graph, w)

(* A value can be kept at a place that is large enough, a state only at its  *)
(* own.                                                                      *)
SoundAt(v, p) ==
  /\ IsChunk(p) => graph.size[v] <= chunks[p.id].size
  /\ v \in graph.states => p = SessionState(v)
  /\ p.kind = "None" => p = NoPlace
SoundBinding(b) == b.value \in Values(graph) /\ SoundAt(b.value, b.place)
SoundPlaces ==
  /\ \A v \in Values(graph) : SoundAt(v, value2place[v])
  /\ \A x \in Values(graph) \X Tier :
       value_on_tier[x].place # NoPlace => SoundAt(x[1], value_on_tier[x].place)
  /\ \A i \in DOMAIN bindings : SoundBinding(bindings[i])
  /\ \A i \in DOMAIN post_transfers :
       SoundBinding(post_transfers[i].src) /\ SoundBinding(post_transfers[i].dst)
  /\ \A i \in DOMAIN steps : \A b \in DOMAIN steps[i].bindings : SoundBinding(steps[i].bindings[b])

(* A kernel of tier t can use what is kept at place p.                       *)
AtTier(p, t) ==
  IF IsChunk(p) THEN chunks[p.id].tier = t
  ELSE IF p.kind = "SessionState" THEN StateTier(p.id) = t
  ELSE p.kind = "Initializer" \/ t = "HostArena"
OnTier(b, t) == AtTier(b.place, t) \/ (b.value \in graph.scalars /\ t = "GpuArena")

(* The update of state s has been placed.                                    *)
Updated(s) ==
  \E u \in Kernels(graph) : InPlaceInput(graph, u) = s /\ value2place[graph.kernels[u].outs[1]] # NoPlace

(* What comes from outside has its place; what is in the buffer of an output *)
(* is that output's bytes; only its update stands in a state's buffer.       *)
Homes ==
  \A v \in Values(graph) : LET p == value2place[v] IN
    /\ v \in graph.inputs => p = InputPlace(v)
    /\ p.kind = "Output" => p.id \in Values(graph) /\ Origin(graph, v) = Origin(graph, p.id)
    /\ p.kind = "SessionState" => p.id \in graph.states /\ (p.id # v => Updated(p.id))

(* No output or workspace of kernel k shares its place with another operand, *)
(* but the first input it forwards or updates.                               *)
Shares(b, k) ==
  /\ b.role = "Input" /\ graph.kernels[k].op \in {"Forward", "InPlace"}
  /\ b.value = graph.kernels[k].ins[1]
Apart(bs, k) ==
  \A b, d \in DOMAIN bs : b # d /\ bs[b].role # "Input" /\ bs[b].place = bs[d].place => Shares(bs[d], k)

(* What the operands bound so far are: an input is read where its value is   *)
(* or in a copy, a workspace is the kernel's own, and an output that must be *)
(* delivered has its transfer.                                               *)
BoundInput(i) ==
  LET b == bindings[i]
  IN  \/ /\ b.role = "Input" /\ Ins[i] \notin Workspaces(graph)
         /\ b.place \in {Initializer(Ins[i]), value2place[Ins[i]], value_on_tier[<<Ins[i], TierNow>>].place}
      \/ /\ b.role = "Workspace" /\ Ins[i] \in Workspaces(graph)
         /\ IsChunk(b.place) /\ b.place = value2place[Ins[i]]
BoundOutput(i) ==
  LET b == bindings[i]
  IN  /\ b.role = "Output" /\ b.value = Outs[i - Len(Ins)] /\ b.place = value2place[b.value]
      /\ output_alias[b.value] # NoValue /\ b.place.kind # "Output" =>
           \E m \in DOMAIN post_transfers : post_transfers[m].src.place = b.place
BoundAt(i) ==
  /\ bindings[i].place # NoPlace /\ OnTier(bindings[i], TierNow)
  /\ i <= Len(Ins) => BoundInput(i)
  /\ i > Len(Ins) => BoundOutput(i)
BoundGood == Binds => Apart(bindings, kid) /\ \A i \in DOMAIN bindings : BoundAt(i)

(* The place just chosen for an output is one it can have.                   *)
OutputGood ==
  phase = "deliver" =>
    /\ value2place[Out] # NoPlace /\ AtTier(value2place[Out], TierNow)
    /\ \A i \in DOMAIN bindings : bindings[i].place = value2place[Out] => Shares(bindings[i], kid)

(* Every kernel in the plan has its operands apart and on its tier.          *)
StepGood(s) ==
  s.kind = "Kernel" =>
    /\ Apart(s.bindings, s.kernel)
    /\ \A b \in DOMAIN s.bindings : OnTier(s.bindings[b], TierOfDevice(s.device))
StepsGood == \A i \in DOMAIN steps : StepGood(steps[i])

OInv == HeldApart /\ SoundPlaces /\ Homes /\ BoundGood /\ OutputGood /\ StepsGood

-----------------------------------------------------------------------------
(* What a step leaves alone. *)

(* The two instances of the allocator take the same steps.                   *)
LEMMA SameCalls == CA!Next => CAP!Next
<1>1. ASSUME NEW t \in Tier, NEW s \in Stream, NEW size \in Sizes, NEW uses \in UseCounts, CA!Alloc(t, s, size, uses)
      PROVE  CAP!Alloc(t, s, size, uses)
  BY <1>1 DEF CA!Alloc, CA!AllocChunks, CA!PopFree, CA!NextChunk, CA!NoChunk,
              CAP!Alloc, CAP!AllocChunks, CAP!PopFree, CAP!NextChunk, CAP!NoChunk
<1>2. ASSUME NEW c \in DOMAIN chunks, NEW n \in UseCounts, CA!AddUses(c, n) PROVE CAP!AddUses(c, n)
  BY <1>2 DEF CA!AddUses, CA!Held, CA!AddUsesTo, CA!NoChunk, CAP!AddUses, CAP!Held, CAP!AddUsesTo, CAP!NoChunk
<1>3. ASSUME NEW c \in DOMAIN chunks, NEW s \in Stream, CA!ReleaseIfDead(c, s) PROVE CAP!ReleaseIfDead(c, s)
  BY <1>3 DEF CA!ReleaseIfDead, CA!Held, CA!FreeIfDead, CA!FreeOn, CA!NoChunk,
              CAP!ReleaseIfDead, CAP!Held, CAP!FreeIfDead, CAP!FreeOn, CAP!NoChunk
<1>4. ASSUME NEW c \in DOMAIN chunks, NEW s \in Stream, CA!Consume(c, s) PROVE CAP!Consume(c, s)
  BY <1>4 DEF CA!Consume, CA!ConsumeIn, CA!Decrement, CA!FreeIfDead, CA!FreeOn,
              CAP!Consume, CAP!ConsumeIn, CAP!Decrement, CAP!FreeIfDead, CAP!FreeOn
<1> QED
  BY <1>1, <1>2, <1>3, <1>4, Zenon DEF CA!Next, CAP!Next

(* Chunks are only added and only grow.                                      *)
Grown ==
  /\ DOMAIN chunks \subseteq DOMAIN chunks'
  /\ \A d \in DOMAIN chunks : /\ chunks'[d].tier = chunks[d].tier /\ chunks'[d].size >= chunks[d].size
                              /\ chunks[d].size \in Nat /\ chunks'[d].size \in Nat

LEMMA ChunksGrow ==
  ASSUME IInv, AInv, TypeOK', Disciplined
  PROVE  Grown
<1>1. chunks \in Seq(ChunkState) /\ chunks' \in Seq(ChunkState) /\ CAP!IInv
  BY AInvParts DEF TypeOK
<1>0. \A q \in Seq(ChunkState) : \A d \in 1..Len(q) : q[d].size \in Nat
  <2> TAKE q \in Seq(ChunkState)
  <2> TAKE d \in 1..Len(q)
  <2>1. q[d] \in ChunkState
    OBVIOUS
  <2> QED
    BY <2>1 DEF ChunkState
<1>2. [CAP!Next]_(CAP!vars)
  BY SameCalls DEF Disciplined, CAP!vars
<1>3. [CAP!SlotsGrow]_(CAP!vars)
  BY <1>1, <1>2, CAP!NextGrows, SizesNatural, AlignAssumption
<1>4. DOMAIN chunks = 1..Len(chunks) /\ DOMAIN chunks' = 1..Len(chunks') /\ Len(chunks) \in Nat /\ Len(chunks') \in Nat
  BY <1>1
<1>5. Len(chunks') >= Len(chunks) /\ \A d \in 1..Len(chunks) : chunks'[d].size >= chunks[d].size /\ chunks'[d].tier = chunks[d].tier
  <2>1. \A d \in 1..Len(chunks) : chunks[d].size \in Nat
    BY <1>0, <1>1
  <2>2. CASE CAP!SlotsGrow
    BY <2>2 DEF CAP!SlotsGrow
  <2>3. CASE UNCHANGED CAP!vars
    BY <1>4, <2>1, <2>3 DEF CAP!vars
  <2> QED
    BY <1>3, <2>2, <2>3
<1>6. \A d \in 1..Len(chunks') : chunks'[d].size \in Nat
  BY <1>0, <1>1
<1>7. \A d \in 1..Len(chunks) : chunks[d].size \in Nat
  BY <1>0, <1>1
<1> QED
  BY <1>4, <1>5, <1>6, <1>7 DEF Grown

LEMMA SoundAtStays ==
  ASSUME Grown, UNCHANGED graph, NEW v, NEW p, There(p), graph.size[v] \in Nat, SoundAt(v, p)
  PROVE  SoundAt(v, p)'
<1>1. IsChunk(p) => graph.size[v] <= chunks'[p.id].size
  BY DEF Grown, There, SoundAt
<1> QED
  BY <1>1 DEF SoundAt, IsChunk, SessionState, NoPlace

LEMMA AtTierStays ==
  ASSUME Grown, UNCHANGED graph, NEW p, There(p), NEW t, AtTier(p, t)
  PROVE  AtTier(p, t)'
<1>1. StateTier(p.id)' = StateTier(p.id)
  BY DEF StateTier
<1>2. IsChunk(p) => chunks'[p.id].tier = chunks[p.id].tier
  BY DEF Grown, There
<1> QED
  BY <1>1, <1>2 DEF AtTier, IsChunk

LEMMA SoundStays ==
  ASSUME Given, PlacesThere, SoundPlaces, Grown, UNCHANGED graph,
         \A v \in Values(graph) : value2place'[v] = value2place[v] \/ SoundAt(v, value2place[v])',
         \A x \in Values(graph) \X Tier :
            value_on_tier'[x] = value_on_tier[x] \/ SoundAt(x[1], value_on_tier[x].place)',
         \A i \in DOMAIN bindings' :
            (i \in DOMAIN bindings /\ bindings'[i] = bindings[i]) \/ SoundBinding(bindings[i])',
         \A i \in DOMAIN post_transfers' :
            \/ i \in DOMAIN post_transfers /\ post_transfers'[i] = post_transfers[i]
            \/ SoundBinding(post_transfers[i].src)' /\ SoundBinding(post_transfers[i].dst)',
         \A i \in DOMAIN steps' :
            \/ i \in DOMAIN steps /\ steps'[i] = steps[i]
            \/ \A j \in DOMAIN steps'[i].bindings : SoundBinding(steps[i].bindings[j])'
  PROVE  SoundPlaces'
<1>1. \A v \in Values(graph) : graph.size[v] \in Nat
  BY GraphTyped
<1>2. ASSUME NEW v \in Values(graph) PROVE SoundAt(v, value2place[v])'
  <2>1. CASE value2place'[v] = value2place[v]
    <3>1. PICK p : p = value2place[v]
      OBVIOUS
    <3>2. There(p) /\ SoundAt(v, p)
      BY <3>1 DEF PlacesThere, SoundPlaces
    <3>3. SoundAt(v, p)'
      BY <1>1, <3>2, SoundAtStays
    <3> QED
      BY <2>1, <3>1, <3>3
  <2> QED
    BY <2>1
<1>3. ASSUME NEW x \in Values(graph) \X Tier, value_on_tier'[x].place # NoPlace
      PROVE  SoundAt(x[1], value_on_tier[x].place)'
  <2>1. CASE value_on_tier'[x] = value_on_tier[x]
    <3>1. PICK p : p = value_on_tier[x].place
      OBVIOUS
    <3>2. PICK v : v = x[1]
      OBVIOUS
    <3>3. There(p) /\ SoundAt(v, p) /\ v \in Values(graph)
      BY <1>3, <2>1, <3>1, <3>2 DEF PlacesThere, SoundPlaces
    <3>4. SoundAt(v, p)'
      BY <1>1, <3>3, SoundAtStays
    <3> QED
      BY <2>1, <3>1, <3>2, <3>4
  <2> QED
    BY <2>1
<1>4. ASSUME NEW b, SoundBinding(b), There(b.place) PROVE SoundBinding(b)'
  <2>1. PICK v, p : v = b.value /\ p = b.place
    OBVIOUS
  <2>2. SoundAt(v, p)'
    BY <1>1, <1>4, <2>1, SoundAtStays DEF SoundBinding
  <2> QED
    BY <1>4, <2>1, <2>2 DEF SoundBinding
<1>5. ASSUME NEW i \in DOMAIN bindings' PROVE SoundBinding(bindings[i])'
  <2>1. CASE i \in DOMAIN bindings /\ bindings'[i] = bindings[i]
    <3>1. PICK b : b = bindings[i]
      OBVIOUS
    <3>2. SoundBinding(b) /\ There(b.place)
      BY <2>1, <3>1 DEF PlacesThere, SoundPlaces
    <3>3. SoundBinding(b)'
      BY <1>4, <3>2
    <3> QED
      BY <2>1, <3>1, <3>3
  <2> QED
    BY <2>1
<1>6. ASSUME NEW i \in DOMAIN post_transfers'
      PROVE  SoundBinding(post_transfers[i].src)' /\ SoundBinding(post_transfers[i].dst)'
  <2>1. CASE i \in DOMAIN post_transfers /\ post_transfers'[i] = post_transfers[i]
    <3>1. PICK b, d : b = post_transfers[i].src /\ d = post_transfers[i].dst
      OBVIOUS
    <3>2. SoundBinding(b) /\ There(b.place) /\ SoundBinding(d) /\ There(d.place)
      BY <2>1, <3>1 DEF PlacesThere, SoundPlaces, TransferThere
    <3>3. SoundBinding(b)' /\ SoundBinding(d)'
      BY <1>4, <3>2
    <3> QED
      BY <2>1, <3>1, <3>3
  <2> QED
    BY <2>1
<1>7. ASSUME NEW i \in DOMAIN steps', NEW j \in DOMAIN steps'[i].bindings PROVE SoundBinding(steps[i].bindings[j])'
  <2>1. CASE i \in DOMAIN steps /\ steps'[i] = steps[i]
    <3>1. PICK b : b = steps[i].bindings[j]
      OBVIOUS
    <3>2. SoundBinding(b) /\ There(b.place)
      BY <1>7, <2>1, <3>1 DEF PlacesThere, SoundPlaces
    <3>3. SoundBinding(b)'
      BY <1>4, <3>2
    <3> QED
      BY <2>1, <3>1, <3>3
  <2> QED
    BY <2>1
<1> QED
  BY <1>2, <1>3, <1>5, <1>6, <1>7 DEF SoundPlaces

LEMMA HeldIsThere ==
  ASSUME PlacesThere, NEW c, NEW v \in Held(c)
  PROVE  c \in DOMAIN chunks
<1>1. IsChunk(ChunkPlace(c)) /\ ChunkPlace(c).id = c
  BY DEF IsChunk, ChunkPlace
<1>2. CASE v \in Values(graph) /\ value2place[v] = ChunkPlace(c)
  BY <1>1, <1>2 DEF PlacesThere, There
<1>3. CASE v \in Values(graph) /\ \E t \in Tier : value_on_tier[<<v, t>>].place = ChunkPlace(c)
  <2>1. PICK t \in Tier : value_on_tier[<<v, t>>].place = ChunkPlace(c)
    BY <1>3
  <2>2. <<v, t>> \in Values(graph) \X Tier
    BY <1>3
  <2>3. There(value_on_tier[<<v, t>>].place)
    BY <2>2 DEF PlacesThere
  <2> QED
    BY <1>1, <2>1, <2>3 DEF There
<1> QED
  BY <1>2, <1>3 DEF Held

LEMMA HeldStays ==
  ASSUME HeldApart, UNCHANGED graph,
         \A c \in DOMAIN chunks' : \A v, w \in Held(c)' :
            (c \in DOMAIN chunks /\ v \in Held(c) /\ w \in Held(c)) \/ Origin(graph, v) = Origin(graph, w)
  PROVE  HeldApart'
  BY DEF HeldApart

(* The place of one value: Homes is Home of every value.                     *)
Home(v, p) ==
  /\ v \in graph.inputs => p = InputPlace(v)
  /\ p.kind = "Output" => p.id \in Values(graph) /\ Origin(graph, v) = Origin(graph, p.id)
  /\ p.kind = "SessionState" => p.id \in graph.states /\ (p.id # v => Updated(p.id))

LEMMA UpdatedStays ==
  ASSUME Given, PlacesStay, UNCHANGED graph, NEW s, Updated(s)
  PROVE  Updated(s)'
<1>1. PICK u \in Kernels(graph) : InPlaceInput(graph, u) = s /\ value2place[graph.kernels[u].outs[1]] # NoPlace
  BY DEF Updated
<1>2. graph.kernels[u].outs[1] \in Values(graph)
  BY KernelTyped
<1>3. value2place'[graph.kernels[u].outs[1]] = value2place[graph.kernels[u].outs[1]]
  BY <1>1, <1>2 DEF PlacesStay
<1> QED
  BY <1>1, <1>3 DEF Updated, NoPlace

LEMMA HomesStay ==
  ASSUME Given, Homes, PlacesStay, UNCHANGED graph,
         \A v \in Values(graph) : value2place'[v] = value2place[v] \/ Home(v, value2place[v])'
  PROVE  Homes'
<1>2. ASSUME NEW v \in Values(graph), NEW p, Home(v, p) PROVE Home(v, p)'
  BY <1>2, UpdatedStays DEF Home, InputPlace
<1>3. ASSUME NEW v \in Values(graph) PROVE Home(v, value2place[v])'
  <2>1. CASE value2place'[v] = value2place[v]
    <3>1. PICK p : p = value2place[v]
      OBVIOUS
    <3>2. Home(v, p)
      BY <3>1 DEF Homes, Home
    <3>3. Home(v, p)'
      BY <1>2, <3>2
    <3> QED
      BY <2>1, <3>1, <3>3
  <2> QED
    BY <2>1
<1>4. \A v \in Values(graph)' : Home(v, value2place[v])'
  BY <1>3
<1> QED
  BY <1>4 DEF Homes, Home

(* What was bound stays good.                                                *)
CopiesStand == \A x \in Values(graph) \X Tier : value_on_tier[x].place # NoPlace => value_on_tier'[x] = value_on_tier[x]
TransfersStand == \A m \in DOMAIN post_transfers : m \in DOMAIN post_transfers' /\ post_transfers'[m] = post_transfers[m]

LEMMA BoundStays ==
  ASSUME IInv, AInv, SoundPlaces, BoundGood, Binds, Grown, PlacesStay, CopiesStand, TransfersStand,
         UNCHANGED <<graph, kid, output_alias, info>>, Apart(bindings, kid)',
         \A i \in DOMAIN bindings' : (i \in DOMAIN bindings /\ bindings'[i] = bindings[i]) \/ BoundAt(i)'
  PROVE  BoundGood'
<1>1. Given /\ TypeOK /\ Standing /\ Busy /\ PlacesThere
  BY AInvParts DEF Busy
<1>2. Ins' = Ins /\ Outs' = Outs /\ TierNow' = TierNow /\ TierNow \in Tier /\ Len(Ins) \in Nat
  BY <1>1, NowTyped DEF Ins, Outs, Kernel, TierNow, DeviceNow, TierOfDevice
<1>3. ASSUME NEW i \in DOMAIN bindings, bindings'[i] = bindings[i], BoundAt(i) PROVE BoundAt(i)'
  <2>1. PICK b, p, t : b = bindings[i] /\ p = b.place /\ t = TierNow
    OBVIOUS
  <2>2. There(p) /\ SoundBinding(b)
    BY <1>1, <2>1 DEF PlacesThere, SoundPlaces
  <2>3. p # NoPlace /\ OnTier(b, t)
    BY <1>3, <2>1 DEF BoundAt
  <2>4. OnTier(b, t)'
    BY <2>1, <2>2, <2>3, AtTierStays DEF OnTier
  <2>5. ASSUME i <= Len(Ins) PROVE BoundInput(i)'
    <3>1. PICK v : v = Ins[i]
      OBVIOUS
    <3>2. v \in Values(graph)
      <4>1. v = b.value
        BY <1>1, <2>1, <2>5, <3>1 DEF Standing
      <4> QED
        BY <2>2, <4>1 DEF SoundBinding
    <3>3. <<v, t>> \in Values(graph) \X Tier
      BY <1>2, <2>1, <3>2
    <3>4. BoundInput(i)
      BY <1>3, <2>5 DEF BoundAt
    <3>5. CASE b.role = "Input" /\ v \notin Workspaces(graph)
                 /\ p \in {Initializer(v), value2place[v], value_on_tier[<<v, t>>].place}
      <4>1. p \in {Initializer(v), value2place'[v], value_on_tier'[<<v, t>>].place}
        BY <2>3, <3>2, <3>3, <3>5 DEF PlacesStay, CopiesStand
      <4> QED
        BY <1>2, <1>3, <2>1, <3>1, <3>5, <4>1 DEF BoundInput, Initializer
    <3>6. CASE b.role = "Workspace" /\ v \in Workspaces(graph) /\ IsChunk(p) /\ p = value2place[v]
      <4>1. p = value2place'[v]
        BY <2>3, <3>2, <3>6 DEF PlacesStay
      <4> QED
        BY <1>2, <1>3, <2>1, <3>1, <3>6, <4>1 DEF BoundInput, IsChunk
    <3> QED
      BY <2>1, <3>1, <3>4, <3>5, <3>6 DEF BoundInput
  <2>6. ASSUME i > Len(Ins) PROVE BoundOutput(i)'
    <3>1. BoundOutput(i)
      BY <1>3, <2>6 DEF BoundAt
    <3>2. PICK v : v = b.value
      OBVIOUS
    <3>3. v \in Values(graph) /\ p = value2place[v] /\ b.role = "Output" /\ v = Outs[i - Len(Ins)]
      BY <2>1, <2>2, <3>1, <3>2 DEF BoundOutput, SoundBinding
    <3>4. value2place'[v] = p
      BY <2>3, <3>3 DEF PlacesStay
    <3>5. ASSUME output_alias[v] # NoValue, p.kind # "Output"
          PROVE  \E m \in DOMAIN post_transfers' : post_transfers'[m].src.place = p
      <4>1. PICK m \in DOMAIN post_transfers : post_transfers[m].src.place = p
        BY <2>1, <3>1, <3>2, <3>5 DEF BoundOutput
      <4> QED
        BY <4>1 DEF TransfersStand
    <3> QED
      BY <1>2, <1>3, <2>1, <3>2, <3>3, <3>4, <3>5 DEF BoundOutput, NoValue
  <2> QED
    BY <1>2, <1>3, <2>1, <2>3, <2>4, <2>5, <2>6 DEF BoundAt, NoPlace
<1>4. \A i \in DOMAIN bindings' : BoundAt(i)'
  <2> TAKE i \in DOMAIN bindings'
  <2>1. CASE i \in DOMAIN bindings /\ bindings'[i] = bindings[i]
    <3>1. BoundAt(i)
      BY <2>1 DEF BoundGood
    <3> QED
      BY <1>3, <2>1, <3>1
  <2> QED
    BY <2>1
<1> QED
  BY <1>4 DEF BoundGood

LEMMA StepsStay ==
  ASSUME StepsGood, PlacesThere, Grown, UNCHANGED graph,
         \A i \in DOMAIN steps' : (i \in DOMAIN steps /\ steps'[i] = steps[i]) \/ StepGood(steps[i])'
  PROVE  StepsGood'
<1>1. ASSUME NEW s, StepGood(s), \A j \in DOMAIN s.bindings : There(s.bindings[j].place) PROVE StepGood(s)'
  <2>1. Apart(s.bindings, s.kernel)' <=> Apart(s.bindings, s.kernel)
    BY DEF Apart, Shares
  <2>2. ASSUME NEW t, NEW j \in DOMAIN s.bindings, OnTier(s.bindings[j], t) PROVE OnTier(s.bindings[j], t)'
    <3>1. PICK b, p : b = s.bindings[j] /\ p = b.place
      OBVIOUS
    <3>2. There(p)
      BY <1>1, <3>1
    <3>3. AtTier(p, t) => AtTier(p, t)'
      BY <3>2, AtTierStays
    <3> QED
      BY <2>2, <3>1, <3>3 DEF OnTier
  <2>3. \A j \in DOMAIN s.bindings : OnTier(s.bindings[j], TierOfDevice(s.device)) => OnTier(s.bindings[j], TierOfDevice(s.device))'
    <3> TAKE j \in DOMAIN s.bindings
    <3>1. PICK t : t = TierOfDevice(s.device)
      OBVIOUS
    <3>2. OnTier(s.bindings[j], t) => OnTier(s.bindings[j], t)'
      BY <2>2
    <3> QED
      BY <3>1, <3>2 DEF TierOfDevice
  <2> QED
    BY <1>1, <2>1, <2>3 DEF StepGood
<1>2. ASSUME NEW i \in DOMAIN steps' PROVE StepGood(steps[i])'
  <2>1. CASE i \in DOMAIN steps /\ steps'[i] = steps[i]
    <3>1. PICK s : s = steps[i]
      OBVIOUS
    <3>2. StepGood(s) /\ \A j \in DOMAIN s.bindings : There(s.bindings[j].place)
      BY <2>1, <3>1 DEF StepsGood, PlacesThere
    <3>3. StepGood(s)'
      BY <1>1, <3>2
    <3> QED
      BY <2>1, <3>1, <3>3
  <2> QED
    BY <2>1
<1> QED
  BY <1>2 DEF StepsGood

(* A step that puts no value anywhere.                                       *)
LEMMA QuietStep ==
  ASSUME IInv, AInv, OInv, Disciplined, TypeOK', UNCHANGED <<graph, value2place, value_on_tier>>,
         \A v \in Values(graph) : remaining'[v] > 0 => remaining[v] > 0,
         \A i \in DOMAIN bindings' : i \in DOMAIN bindings /\ bindings'[i] = bindings[i],
         \A i \in DOMAIN post_transfers' : i \in DOMAIN post_transfers /\ post_transfers'[i] = post_transfers[i],
         \A i \in DOMAIN steps' :
            \/ i \in DOMAIN steps /\ steps'[i] = steps[i]
            \/ StepGood(steps[i])' /\ \A j \in DOMAIN steps'[i].bindings : SoundBinding(steps[i].bindings[j])'
  PROVE  Grown /\ PlacesStay /\ HeldApart' /\ SoundPlaces' /\ Homes' /\ StepsGood'
<1>1. Grown
  BY ChunksGrow
<1>2. PlacesStay
  BY DEF PlacesStay
<1>3. Given /\ PlacesThere
  BY AInvParts
<1>4. HeldApart'
  <2>1. ASSUME NEW c, NEW v, v \in Held(c)' PROVE v \in Held(c) /\ c \in DOMAIN chunks
    <3>1. v \in Held(c)
      BY <2>1 DEF Held, ChunkPlace
    <3>2. c \in DOMAIN chunks
      BY <1>3, <3>1, HeldIsThere
    <3> QED
      BY <3>1, <3>2
  <2> QED
    BY <2>1, HeldStays DEF OInv
<1>5. SoundPlaces'
  <2>1. \A i \in DOMAIN steps' :
            \/ i \in DOMAIN steps /\ steps'[i] = steps[i]
            \/ \A j \in DOMAIN steps'[i].bindings : SoundBinding(steps[i].bindings[j])'
    OBVIOUS
  <2> QED
    BY <1>1, <1>3, <2>1, SoundStays DEF OInv
<1>6. Homes'
  BY <1>2, <1>3, HomesStay DEF OInv
<1>7. StepsGood'
  BY <1>1, <1>3, StepsStay DEF OInv
<1> QED
  BY <1>1, <1>2, <1>4, <1>5, <1>6, <1>7

-----------------------------------------------------------------------------
(* The steps that put no value anywhere. *)

(* A step that keeps the other invariants.                                   *)
Between == IInv /\ IInv' /\ AInv /\ AInv' /\ Disciplined /\ Placeable(graph) /\ OInv

LEMMA BetweenParts ==
  ASSUME Between
  PROVE  /\ IInv /\ IInv' /\ AInv /\ AInv' /\ Disciplined /\ TypeOK' /\ Placeable(graph) /\ OInv /\ Grown
         /\ Given /\ TypeOK /\ Standing /\ Counts /\ Accounts /\ PlacesThere /\ BindingsTrue /\ Unplaced /\ CopiesTrue
         /\ HeldApart /\ SoundPlaces /\ Homes /\ BoundGood /\ OutputGood /\ StepsGood /\ WellFormed(graph)
         /\ steps \in Seq(StepType) /\ bindings \in Seq(BindingType)
         /\ post_transfers \in Seq([src : BindingType, dst : BindingType])
         /\ DOMAIN steps = 1..Len(steps) /\ Len(steps) \in Nat
         /\ DOMAIN bindings = 1..Len(bindings) /\ Len(bindings) \in Nat
         /\ DOMAIN post_transfers = 1..Len(post_transfers) /\ Len(post_transfers) \in Nat
<1>1. TypeOK'
  BY DEF Between, IInv
<1>2. Grown
  BY <1>1, ChunksGrow DEF Between
<1>3. /\ Given /\ TypeOK /\ Standing /\ Counts /\ Accounts /\ PlacesThere /\ BindingsTrue /\ Unplaced /\ CopiesTrue
      /\ WellFormed(graph) /\ steps \in Seq(StepType) /\ bindings \in Seq(BindingType)
      /\ post_transfers \in Seq([src : BindingType, dst : BindingType])
  BY AInvParts DEF Between
<1> QED
  BY <1>1, <1>2, <1>3 DEF Between, OInv

LEMMA SoundBindingStays ==
  ASSUME Given, Grown, UNCHANGED graph, NEW b, SoundBinding(b), There(b.place)
  PROVE  SoundBinding(b)'
<1>1. PICK v, p : v = b.value /\ p = b.place
  OBVIOUS
<1>2. graph.size[v] \in Nat
  BY <1>1, GraphTyped DEF SoundBinding
<1>3. SoundAt(v, p)'
  BY <1>1, <1>2, SoundAtStays DEF SoundBinding
<1> QED
  BY <1>1, <1>3 DEF SoundBinding

(* A transfer is added to the plan.                                          *)
LEMMA TransferGood ==
  ASSUME Between, UNCHANGED graph, NEW dev, NEW s, NEW e, NEW b, NEW d, steps' = Append(steps, Transfer(dev, s, e, b, d)),
         SoundBinding(b)', SoundBinding(d)'
  PROVE  \A i \in DOMAIN steps' :
            \/ i \in DOMAIN steps /\ steps'[i] = steps[i]
            \/ StepGood(steps[i])' /\ \A j \in DOMAIN steps'[i].bindings : SoundBinding(steps[i].bindings[j])'
<1>1. PICK x : x = Transfer(dev, s, e, b, d)
  OBVIOUS
<1>2. x.kind # "Kernel" /\ x.bindings = <<b, d>>
  BY <1>1 DEF Transfer
<1>3. \A j \in DOMAIN x.bindings : SoundBinding(x.bindings[j])'
  <2>1. DOMAIN <<b, d>> = 1..2 /\ <<b, d>>[1] = b /\ <<b, d>>[2] = d
    OBVIOUS
  <2> QED
    BY <1>2, <2>1
<1>4. \A i \in DOMAIN steps' : (i \in DOMAIN steps /\ steps'[i] = steps[i]) \/ steps'[i] = x
  BY <1>1, BetweenParts
<1> QED
  BY <1>2, <1>3, <1>4 DEF StepGood

LEMMA NothingLeft ==
  ASSUME ~ Binds'
  PROVE  BoundGood' /\ OutputGood'
  BY DEF BoundGood, OutputGood, Binds

LEMMA AdvanceReadyPlaces == Between /\ AdvanceReady => OInv'
<1> SUFFICES ASSUME Between, AdvanceReady PROVE OInv'
  OBVIOUS
<1>1. UNCHANGED <<graph, value2place, value_on_tier, remaining, bindings, post_transfers, steps>> /\ phase' = "pick"
  BY DEF AdvanceReady, input
<1>2. HeldApart' /\ SoundPlaces' /\ Homes' /\ StepsGood'
  BY <1>1, BetweenParts, QuietStep
<1>3. ~ Binds'
  BY <1>1 DEF Binds
<1> QED
  BY <1>2, <1>3, NothingLeft DEF OInv

LEMMA FinishPlanPlaces == Between /\ FinishPlan => OInv'
<1> SUFFICES ASSUME Between, FinishPlan PROVE OInv'
  OBVIOUS
<1>1. UNCHANGED <<graph, value2place, value_on_tier, remaining, bindings, post_transfers, steps>> /\ phase' = "planned"
  BY DEF FinishPlan, input
<1>2. HeldApart' /\ SoundPlaces' /\ Homes' /\ StepsGood'
  BY <1>1, BetweenParts, QuietStep
<1>3. ~ Binds'
  BY <1>1 DEF Binds
<1> QED
  BY <1>2, <1>3, NothingLeft DEF OInv

LEMMA ConsumeInputPlaces == Between /\ ConsumeInput => OInv'
<1> SUFFICES ASSUME Between, ConsumeInput PROVE OInv'
  OBVIOUS
<1>1. /\ UNCHANGED <<graph, value2place, value_on_tier, bindings, post_transfers, steps>> /\ phase' = "post"
      /\ \E u : remaining' = [remaining EXCEPT ![u] = @ - 1]
  BY DEF ConsumeInput, input
<1>2. \A v \in Values(graph) : remaining'[v] > 0 => remaining[v] > 0
  <2>1. remaining \in [Values(graph) -> Nat]
    BY BetweenParts DEF TypeOK
  <2> QED
    BY <1>1, <2>1
<1>3. HeldApart' /\ SoundPlaces' /\ Homes' /\ StepsGood'
  BY <1>1, <1>2, BetweenParts, QuietStep
<1>4. ~ Binds'
  BY <1>1 DEF Binds
<1> QED
  BY <1>3, <1>4, NothingLeft DEF OInv

LEMMA PostTransferPlaces == Between /\ PostTransfer => OInv'
<1> SUFFICES ASSUME Between, PostTransfer PROVE OInv'
  OBVIOUS
<1>1. /\ UNCHANGED <<graph, value2place, value_on_tier, remaining, bindings, post_transfers>> /\ phase' = "post"
      /\ pos <= Len(post_transfers)
  BY DEF PostTransfer, input
<1>2. PICK pt, b, d : pt = post_transfers[pos] /\ b = pt.src /\ d = pt.dst
  OBVIOUS
<1>3. pos \in DOMAIN post_transfers
  <2>1. phase = "post"
    BY DEF PostTransfer
  <2> QED
    BY <1>1, <2>1, BetweenParts DEF Standing
<1>4. SoundBinding(b) /\ SoundBinding(d) /\ There(b.place) /\ There(d.place)
  BY <1>2, <1>3, BetweenParts DEF SoundPlaces, PlacesThere, TransferThere
<1>5. SoundBinding(b)' /\ SoundBinding(d)'
  BY <1>1, <1>4, BetweenParts, SoundBindingStays
<1>6. \E dev, s, e : steps' = Append(steps, Transfer(dev, s, e, b, d))
  BY <1>2 DEF PostTransfer
<1>7. HeldApart' /\ SoundPlaces' /\ Homes' /\ StepsGood'
  BY <1>1, <1>5, <1>6, BetweenParts, QuietStep, TransferGood
<1>8. ~ Binds'
  BY <1>1 DEF Binds
<1> QED
  BY <1>7, <1>8, NothingLeft DEF OInv

LEMMA FinalizeOutputPlaces == Between /\ FinalizeOutput => OInv'
<1> SUFFICES ASSUME Between, FinalizeOutput PROVE OInv'
  OBVIOUS
<1>1. /\ UNCHANGED <<graph, value2place, value_on_tier, remaining, bindings, post_transfers>> /\ phase' = "pick"
      /\ phase = "pick" /\ pos <= Len(graph.outputs)
  BY DEF FinalizeOutput, input
<1>2. PICK v, q, b, d : /\ v = graph.outputs[pos] /\ q = value2place[v]
                        /\ b = Binding(v, "Input", q) /\ d = Binding(v, "Output", OutputPlace(v))
  OBVIOUS
<1>3. v \in Values(graph) /\ IsOutput(graph, v)
  <2>1. pos \in DOMAIN graph.outputs
    BY <1>1, BetweenParts, GraphTyped DEF Standing, TypeOK, GraphType
  <2>2. graph.outputs \in Seq(Values(graph))
    BY BetweenParts, GraphTyped DEF GraphType
  <2>3. v \in Values(graph)
    BY <1>2, <2>1, <2>2
  <2> QED
    BY <1>2, <2>1, <2>3 DEF IsOutput
<1>4. SoundBinding(b)' /\ SoundBinding(d)'
  <2>1. SoundBinding(b) /\ There(b.place)
    BY <1>2, <1>3, BetweenParts DEF SoundPlaces, PlacesThere, SoundBinding, Binding
  <2>2. SoundBinding(d) /\ There(d.place)
    BY <1>2, <1>3, BetweenParts DEF Placeable, SoundBinding, SoundAt, Binding, OutputPlace, IsChunk, There
  <2> QED
    BY <1>1, <2>1, <2>2, BetweenParts, SoundBindingStays
<1>5. steps' = steps \/ \E dev, s, e : steps' = Append(steps, Transfer(dev, s, e, b, d))
  BY <1>2 DEF FinalizeOutput
<1>6. \A i \in DOMAIN steps' :
            \/ i \in DOMAIN steps /\ steps'[i] = steps[i]
            \/ StepGood(steps[i])' /\ \A j \in DOMAIN steps'[i].bindings : SoundBinding(steps[i].bindings[j])'
  BY <1>1, <1>4, <1>5, TransferGood
<1>7. HeldApart' /\ SoundPlaces' /\ Homes' /\ StepsGood'
  BY <1>1, <1>6, BetweenParts, QuietStep
<1>8. ~ Binds'
  BY <1>1 DEF Binds
<1> QED
  BY <1>7, <1>8, NothingLeft DEF OInv

LEMMA PickKernelPlaces == Between /\ PickKernel => OInv'
<1> SUFFICES ASSUME Between, PickKernel PROVE OInv'
  OBVIOUS
<1>1. /\ UNCHANGED <<graph, value2place, value_on_tier, remaining>> /\ phase' = "bind"
      /\ bindings' = <<>> /\ post_transfers' = <<>>
  BY DEF PickKernel, input
<1>2. \E k \in Kernels(graph), s \in Stream : \E waits \in WaitsFor(k, s) : steps' = steps \o waits
  <2>1. PICK k \in ready : \E waits \in WaitsFor(k, PickStream(k)) : steps' = steps \o waits
    BY DEF PickKernel
  <2>2. k \in Kernels(graph)
    BY <2>1, BetweenParts DEF TypeOK
  <2>3. PICK s : s = PickStream(k)
    OBVIOUS
  <2>4. s \in Stream
    BY <2>2, <2>3, BetweenParts, PickStreamTyped
  <2> QED
    BY <2>1, <2>2, <2>3, <2>4
<1>10. PICK k, s, waits : k \in Kernels(graph) /\ s \in Stream /\ waits \in WaitsFor(k, s) /\ steps' = steps \o waits
  BY <1>2
<1>3. waits \in Seq(StepType) /\ \A i \in 1..Len(waits) : waits[i].kind = "SyncWait" /\ waits[i].bindings = <<>>
  BY <1>10, BetweenParts, WaitsForFacts
<1>4. \A i \in DOMAIN steps' :
            \/ i \in DOMAIN steps /\ steps'[i] = steps[i]
            \/ StepGood(steps[i])' /\ \A j \in DOMAIN steps'[i].bindings : SoundBinding(steps[i].bindings[j])'
  <2>1. steps \in Seq(StepType)
    BY BetweenParts
  <2>2. /\ DOMAIN steps' = 1..(Len(steps) + Len(waits)) /\ Len(steps) \in Nat /\ Len(waits) \in Nat
        /\ \A i \in 1..Len(steps) : steps'[i] = steps[i]
        /\ \A i \in 1..(Len(steps) + Len(waits)) : i > Len(steps) => i - Len(steps) \in 1..Len(waits) /\ steps'[i] = waits[i - Len(steps)]
    BY <1>10, <1>3, <2>1, Joined
  <2>3. DOMAIN steps = 1..Len(steps)
    BY <2>1
  <2>4. ASSUME NEW i \in DOMAIN steps', i > Len(steps)
        PROVE  StepGood(steps[i])' /\ \A j \in DOMAIN steps'[i].bindings : SoundBinding(steps[i].bindings[j])'
    <3>1. PICK x : x = steps'[i]
      OBVIOUS
    <3>2. x.kind = "SyncWait" /\ x.bindings = <<>>
      BY <1>3, <2>2, <2>4, <3>1
    <3>3. x.kind # "Kernel" /\ DOMAIN x.bindings = {}
      BY <3>2
    <3> QED
      BY <3>1, <3>3 DEF StepGood
  <2> QED
    BY <2>2, <2>3, <2>4
<1>5. DOMAIN bindings' = {} /\ DOMAIN post_transfers' = {}
  BY <1>1
<1>6. HeldApart' /\ SoundPlaces' /\ Homes' /\ StepsGood'
  BY <1>1, <1>4, <1>5, BetweenParts, QuietStep
<1>7. BoundGood' /\ OutputGood'
  BY <1>1, <1>5 DEF BoundGood, OutputGood, Apart
<1> QED
  BY <1>6, <1>7 DEF OInv

LEMMA ReleaseOutputPlaces == Between /\ ReleaseOutput => OInv'
<1> SUFFICES ASSUME Between, ReleaseOutput PROVE OInv'
  OBVIOUS
<1>1. /\ UNCHANGED <<graph, output_alias, kid, info, value2place, value_on_tier, remaining, bindings, post_transfers, steps>>
      /\ phase' = "bind" /\ Binds
  BY DEF ReleaseOutput, input, order, Binds
<1>2. HeldApart' /\ SoundPlaces' /\ Homes' /\ StepsGood' /\ PlacesStay
  BY <1>1, BetweenParts, QuietStep
<1>3. BoundGood'
  <2>1. CopiesStand /\ TransfersStand
    BY <1>1 DEF CopiesStand, TransfersStand
  <2>2. Apart(bindings, kid)'
    BY <1>1, BetweenParts DEF BoundGood, Apart, Shares
  <2> QED
    BY <1>1, <1>2, <2>1, <2>2, BetweenParts, BoundStays
<1>4. OutputGood'
  BY <1>1 DEF OutputGood
<1> QED
  BY <1>2, <1>3, <1>4 DEF OInv

LEMMA EmitStepPlaces == Between /\ EmitStep => OInv'
<1> SUFFICES ASSUME Between, EmitStep PROVE OInv'
  OBVIOUS
<1>1. /\ UNCHANGED <<graph, output_alias, kid, info, value2place, value_on_tier, remaining, bindings, post_transfers, chunks>>
      /\ phase' = "post" /\ Binds
  BY DEF EmitStep, input, order, alloc, Binds
<1>2. PICK x : x = KernelStep(kid, DeviceNow, StreamNow, info[kid].event, bindings)
  OBVIOUS
<1>3. x.bindings = bindings /\ x.kernel = kid /\ TierOfDevice(x.device) = TierNow
  BY <1>2 DEF KernelStep, TierNow
<1>4. Apart(x.bindings, x.kernel) /\ \A b \in DOMAIN x.bindings : OnTier(x.bindings[b], TierOfDevice(x.device))
  BY <1>1, <1>3, BetweenParts DEF BoundGood, BoundAt
<1>5. StepGood(x)'
  BY <1>1, <1>4 DEF StepGood, Apart, Shares, OnTier, AtTier, StateTier, TierOfDevice, IsChunk
<1>6. \A j \in DOMAIN x.bindings : SoundBinding(x.bindings[j])'
  BY <1>1, <1>3, BetweenParts DEF SoundPlaces, SoundBinding, SoundAt, IsChunk, SessionState, NoPlace
<1>7. \A i \in DOMAIN steps' :
            \/ i \in DOMAIN steps /\ steps'[i] = steps[i]
            \/ StepGood(steps[i])' /\ \A j \in DOMAIN steps'[i].bindings : SoundBinding(steps[i].bindings[j])'
  <2>1. steps' = Append(steps, x)
    BY <1>2 DEF EmitStep
  <2>2. \A i \in DOMAIN steps' : (i \in DOMAIN steps /\ steps'[i] = steps[i]) \/ steps'[i] = x
    BY <2>1, BetweenParts
  <2> QED
    BY <1>5, <1>6, <2>2
<1>8. HeldApart' /\ SoundPlaces' /\ Homes' /\ StepsGood'
  BY <1>1, <1>7, BetweenParts, QuietStep
<1>9. ~ Binds'
  BY <1>1 DEF Binds
<1> QED
  BY <1>8, <1>9, NothingLeft DEF OInv

-----------------------------------------------------------------------------
(* bind_kernel: the inputs. *)

(* What the kernel reads is kept where it is placed.                         *)
LEMMA OperandIsHeld ==
  ASSUME Between, Binds, NEW i, i \in 1..Len(Ins), NEW v, v = Ins[i]
  PROVE  /\ v \in Values(graph) /\ remaining[v] > 0 /\ <<kid, i>> \in Slots(graph) /\ ~ Consumed(<<kid, i>>)
         /\ ReadAt(graph, <<kid, i>>) = v
         /\ \A c : value2place[v] = ChunkPlace(c) => v \in Held(c) /\ <<kid, i>> \in ToRead(c)
<1>1. Busy /\ kid \in Kernels(graph) /\ DOMAIN Ins = 1..Len(Ins) /\ v \in Values(graph)
  BY BetweenParts, NowTyped DEF Busy
<1>2. <<kid, i>> \in Slots(graph) /\ ReadAt(graph, <<kid, i>>) = v
  BY <1>1, BetweenParts, SlotFacts DEF ReadAt, Ins, Kernel
<1>3. ~ Consumed(<<kid, i>>)
  BY DEF Consumed
<1>4. <<kid, i>> \in Unread(v)
  BY <1>2, <1>3 DEF Unread
<1>5. remaining[v] = Cardinality(Unread(v))
  BY <1>1, BetweenParts DEF Counts
<1>6. remaining[v] > 0
  BY <1>4, <1>5, BetweenParts, UnreadFacts
<1> QED
  BY <1>1, <1>2, <1>3, <1>6 DEF Held, ToRead

(* A value some kernel reads after the one that writes it is still to be     *)
(* read.                                                                     *)
LEMMA WrittenIsUnread ==
  ASSUME Between, Binds, NEW w, Writes(graph, kid, w), NEW u \in Slots(graph), ReadAt(graph, u) = w
  PROVE  ~ Consumed(u)
<1>1. Busy /\ kid \in Kernels(graph)
  BY BetweenParts DEF Busy, Standing
<1>2. /\ u[1] \in Kernels(graph) /\ u[2] \in DOMAIN graph.kernels[u[1]].ins
      /\ graph.kernels[u[1]].ins[u[2]] = w
  BY BetweenParts, SlotFacts DEF ReadAt
<1>3. ASSUME Consumed(u) PROVE FALSE
  <2>1. info[u[1]].scheduled /\ u[1] # kid
    BY <1>3 DEF Consumed
  <2>2. kid \in Preds(graph, u[1])
    BY <1>1, <1>2, <2>1 DEF Preds
  <2>3. kid \in deps.preds[u[1]]
    BY <1>2, <2>2, BetweenParts DEF Given, Deps
  <2>4. Done(kid)
    BY <1>2, <2>1, <2>3, BetweenParts DEF Counts
  <2> QED
    BY <1>1, <2>4 DEF Done
<1> QED
  BY <1>3

(* A chunk an allocation may return holds nothing, and no operand is there.  *)
LEMMA NothingOn ==
  ASSUME Between, BindingInput \/ BindingOutput, NEW c, c \in DOMAIN chunks => chunks[c].live = 0
  PROVE  Held(c) = {} /\ \A i \in DOMAIN bindings : bindings[i].place # ChunkPlace(c)
<1>1. ToRead(c) = {} /\ ToDeliver(c) = {} /\ CopyReads(c) = {} /\ CopiesBound(c) = {}
  BY BetweenParts, Unused
<1>2. Binds /\ Busy /\ phase = "bind"
  BY DEF BindingInput, BindingOutput, Binds, Busy
<1>3. /\ kid \in Kernels(graph) /\ Len(Ins) \in Nat /\ Len(Outs) \in Nat /\ pos \in Nat /\ pos <= Len(Ins) + Len(Outs)
      /\ DOMAIN bindings = 1..(pos - 1) /\ \A i \in 1..Len(Outs) : Outs[i] \in Values(graph)
  <2>1. Len(Ins) \in Nat /\ Len(Outs) \in Nat /\ kid \in Kernels(graph) /\ \A i \in 1..Len(Outs) : Outs[i] \in Values(graph)
    BY <1>2, BetweenParts, NowTyped
  <2>2. pos \in Nat /\ Len(bindings) = pos - 1
    BY <1>2, <2>1, BetweenParts DEF Standing
  <2> QED
    BY <2>1, <2>2, BetweenParts DEF BindingInput, BindingOutput
<1>4. Held(c) = {}
  <2>1. ASSUME NEW v \in Values(graph), value2place[v] = ChunkPlace(c), remaining[v] > 0 PROVE FALSE
    <3>1. remaining[v] = Cardinality(Unread(v))
      BY BetweenParts DEF Counts
    <3>2. Unread(v) # {}
      BY <2>1, <3>1, FS_EmptySet
    <3>3. PICK u \in Slots(graph) : ReadAt(graph, u) = v /\ ~ Consumed(u)
      BY <3>2 DEF Unread
    <3> QED
      BY <1>1, <2>1, <3>3 DEF ToRead
  <2>2. ASSUME NEW v \in Values(graph), NEW t \in Tier, value_on_tier[<<v, t>>].place = ChunkPlace(c) PROVE FALSE
    <3>1. PICK x : x = <<v, t>>
      OBVIOUS
    <3>2. x \in Values(graph) \X Tier /\ value_on_tier[x].place = ChunkPlace(c)
      BY <2>2, <3>1
    <3>3. value_on_tier[x].place # NoPlace /\ value_on_tier[x].place.id = c
      BY <3>2 DEF ChunkPlace, NoPlace
    <3> QED
      BY <1>1, <3>2, <3>3, BetweenParts DEF CopiesTrue
  <2> QED
    BY <2>1, <2>2 DEF Held
<1>5. ASSUME NEW i \in DOMAIN bindings, bindings[i].place = ChunkPlace(c) PROVE FALSE
  <2>1. BoundAt(i) /\ i \in Nat \ {0} /\ i < pos
    BY <1>2, <1>3, BetweenParts DEF BoundGood
  <2>2. CASE i <= Len(Ins)
    <3>1. PICK v : v = Ins[i]
      OBVIOUS
    <3>2. i \in 1..Len(Ins)
      BY <1>3, <2>1, <2>2
    <3>3. value2place[v] # ChunkPlace(c)
      BY <1>1, <1>2, <3>1, <3>2, OperandIsHeld
    <3>4. bindings[i].role = "Input"
      BY <1>5, <2>1, <2>2, <3>1, <3>3 DEF BoundAt, BoundInput
    <3>5. bindings[i].value = v
      BY <1>2, <1>5, <2>2, <3>1, BetweenParts DEF Standing
    <3>6. i \in CopiesBound(c)
      BY <1>2, <1>5, <3>3, <3>4, <3>5 DEF CopiesBound
    <3> QED
      BY <1>1, <3>6
  <2>3. CASE i > Len(Ins)
    <3>1. PICK j, w : j = i - Len(Ins) /\ w = Outs[j]
      OBVIOUS
    <3>2. j \in 1..(Len(Outs) - 1) /\ j \in 1..Len(Outs) /\ w \in Values(graph)
      BY <1>3, <2>1, <2>3, <3>1
    <3>3. bindings[i].value = w /\ value2place[w] = ChunkPlace(c)
      BY <1>5, <2>1, <2>3, <3>1 DEF BoundAt, BoundOutput
    <3>4. Writes(graph, kid, w)
      <4>1. j \in DOMAIN Outs
        BY <1>2, <3>2, BetweenParts, NowTyped
      <4> QED
        BY <3>1, <4>1 DEF Writes, Outs, Kernel
    <3>5. UsesCount(graph, w) > 0 \/ IsOutput(graph, w)
      BY <1>3, <3>1, <3>2, BetweenParts DEF Placeable, NoDeadSibling, Outs, Kernel
    <3>6. CASE UsesCount(graph, w) > 0
      <4>1. {u \in Slots(graph) : ReadAt(graph, u) = w} # {}
        BY <3>6, FS_EmptySet DEF UsesCount
      <4>2. PICK u \in Slots(graph) : ReadAt(graph, u) = w
        BY <4>1
      <4>3. ~ Consumed(u)
        BY <1>2, <3>4, <4>2, WrittenIsUnread
      <4>4. u \in ToRead(c)
        BY <3>3, <4>2, <4>3 DEF ToRead
      <4> QED
        BY <1>1, <4>4
    <3>7. CASE IsOutput(graph, w)
      <4>1. output_alias[w] # NoValue
        BY <3>2, <3>7, BetweenParts, AliasTrue
      <4>2. bindings[i].place.kind # "Output"
        BY <1>5 DEF ChunkPlace
      <4>3. PICK m \in DOMAIN post_transfers : post_transfers[m].src.place = ChunkPlace(c)
        BY <1>5, <2>1, <2>3, <3>3, <4>1, <4>2 DEF BoundAt, BoundOutput
      <4>4. m \in ToDeliver(c)
        BY <1>2, <4>3 DEF ToDeliver
      <4> QED
        BY <1>1, <4>4
    <3> QED
      BY <3>5, <3>6, <3>7
  <2> QED
    BY <1>3, <2>1, <2>2, <2>3
<1> QED
  BY <1>4, <1>5

(* What is read from a chunk shares it with no workspace.                    *)
LEMMA NoWorkspaceThere ==
  ASSUME Between, BindingInput, NEW v, v = Ins[pos], v \notin Workspaces(graph), NEW c, v \in Held(c),
         NEW i \in DOMAIN bindings, bindings[i].place = ChunkPlace(c)
  PROVE  bindings[i].role = "Input"
<1>1. /\ Binds /\ pos \in 1..Len(Ins) /\ Len(Ins) \in Nat /\ DOMAIN bindings = 1..(pos - 1) /\ v \in Values(graph)
  BY BetweenParts, InputNow
<1>2. i \in 1..Len(Ins) /\ BoundAt(i)
  BY <1>1, BetweenParts DEF BoundGood
<1>3. ASSUME bindings[i].role = "Workspace" PROVE FALSE
  <2>1. PICK w : w = Ins[i]
    OBVIOUS
  <2>2. w \in Workspaces(graph) /\ value2place[w] = ChunkPlace(c)
    BY <1>2, <1>3, <2>1 DEF BoundAt, BoundInput
  <2>3. w \in Held(c) /\ w \in Values(graph)
    BY <1>1, <1>2, <2>1, <2>2, OperandIsHeld
  <2>4. c \in DOMAIN chunks
    BY BetweenParts, HeldIsThere
  <2>5. Origin(graph, v) = Origin(graph, w)
    BY <2>3, <2>4, BetweenParts DEF HeldApart
  <2>6. ForwardedFrom(graph, w) = NoValue
    BY <2>2 DEF Workspaces, ForwardedFrom
  <2>7. Origin(graph, v) = w
    BY <2>3, <2>5, <2>6, BetweenParts, OriginOfItself
  <2> QED
    BY <1>1, <2>2, <2>7, BetweenParts, OriginFacts DEF Placeable
<1> QED
  BY <1>2, <1>3 DEF BoundAt, BoundInput

LEMMA HeldSame ==
  ASSUME PlacesThere, HeldApart, UNCHANGED <<graph, value2place, value_on_tier>>,
         \A v \in Values(graph) : remaining'[v] > 0 => remaining[v] > 0
  PROVE  HeldApart'
<1>1. ASSUME NEW c, NEW v, v \in Held(c)' PROVE v \in Held(c) /\ c \in DOMAIN chunks
  <2>1. v \in Held(c)
    BY <1>1 DEF Held, ChunkPlace
  <2> QED
    BY <2>1, HeldIsThere
<1> QED
  BY <1>1, HeldStays

(* One more operand is bound.                                                *)
LEMMA ApartAppended ==
  ASSUME bindings \in Seq(BindingType), Apart(bindings, kid), UNCHANGED <<graph, kid>>, NEW b, bindings' = Append(bindings, b),
         \A i \in DOMAIN bindings : bindings[i].place = b.place =>
            /\ bindings[i].role # "Input" => Shares(b, kid)
            /\ b.role # "Input" => Shares(bindings[i], kid)
  PROVE  Apart(bindings, kid)'
<1>1. PICK n : n = Len(bindings) + 1
  OBVIOUS
<1>2. /\ DOMAIN bindings = 1..(n - 1) /\ DOMAIN bindings' = 1..n /\ n \in Nat \ {0} /\ bindings'[n] = b
      /\ \A i \in 1..(n - 1) : bindings'[i] = bindings[i]
  BY <1>1
<1>3. ASSUME NEW i \in 1..n, NEW j \in 1..n, i # j, bindings'[i].role # "Input", bindings'[i].place = bindings'[j].place
      PROVE  Shares(bindings'[j], kid)
  <2>1. CASE i = n
    <3>1. j \in 1..(n - 1)
      BY <1>2, <1>3, <2>1
    <3> QED
      BY <1>2, <1>3, <2>1, <3>1
  <2>2. CASE j = n
    <3>1. i \in 1..(n - 1)
      BY <1>2, <1>3, <2>2
    <3> QED
      BY <1>2, <1>3, <2>2, <3>1
  <2>3. CASE i # n /\ j # n
    <3>1. i \in 1..(n - 1) /\ j \in 1..(n - 1)
      BY <1>2, <1>3, <2>3
    <3> QED
      BY <1>2, <1>3, <3>1 DEF Apart
  <2> QED
    BY <2>1, <2>2, <2>3
<1>4. \A i, j \in DOMAIN bindings' : i # j /\ bindings'[i].role # "Input" /\ bindings'[i].place = bindings'[j].place
        => Shares(bindings'[j], kid)
  BY <1>2, <1>3
<1> QED
  BY <1>4 DEF Apart, Shares

LEMMA InputGood ==
  ASSUME Between, BindingInput, NEW b \in BindingType, bindings' = Append(bindings, b), pos' = pos + 1,
         UNCHANGED <<input, phase, kid, post_transfers, order>>,
         b.place # NoPlace, OnTier(b, TierNow)', SoundBinding(b)', NEW n, n = pos, BoundInput(n)',
         \A i \in DOMAIN bindings : bindings[i].place = b.place => bindings[i].role = "Input" /\ b.role = "Input",
         PlacesStay, CopiesStand, HeldApart',
         \A v \in Values(graph) :
            value2place'[v] = value2place[v] \/ (SoundAt(v, value2place[v])' /\ Home(v, value2place[v])'),
         \A x \in Values(graph) \X Tier :
            value_on_tier'[x] = value_on_tier[x] \/ SoundAt(x[1], value_on_tier[x].place)',
         \A i \in DOMAIN steps' :
            \/ i \in DOMAIN steps /\ steps'[i] = steps[i]
            \/ StepGood(steps[i])' /\ \A j \in DOMAIN steps'[i].bindings : SoundBinding(steps[i].bindings[j])'
  PROVE  OInv'
<1>1. /\ pos \in 1..Len(Ins) /\ Len(Ins) \in Nat /\ DOMAIN bindings = 1..(pos - 1) /\ Binds /\ phase = "bind"
  BY BetweenParts, InputNow
<1>2. /\ DOMAIN bindings' = 1..pos /\ bindings'[pos] = b /\ \A i \in 1..(pos - 1) : bindings'[i] = bindings[i]
      /\ Ins' = Ins /\ TierNow' = TierNow /\ UNCHANGED <<graph, info, kid, output_alias, phase, post_transfers>>
  BY BetweenParts, InputBound DEF input
<1>3. \A i \in DOMAIN bindings' : (i \in DOMAIN bindings /\ bindings'[i] = bindings[i]) \/ i = n
  BY <1>1, <1>2
<1>4. SoundPlaces'
  <2>1. \A i \in DOMAIN bindings' : (i \in DOMAIN bindings /\ bindings'[i] = bindings[i]) \/ SoundBinding(bindings[i])'
    BY <1>2, <1>3
  <2>2. \A v \in Values(graph) : value2place'[v] = value2place[v] \/ SoundAt(v, value2place[v])'
    OBVIOUS
  <2>3. \A i \in DOMAIN steps' :
            \/ i \in DOMAIN steps /\ steps'[i] = steps[i]
            \/ \A j \in DOMAIN steps'[i].bindings : SoundBinding(steps[i].bindings[j])'
    OBVIOUS
  <2>4. \A i \in DOMAIN post_transfers' : i \in DOMAIN post_transfers /\ post_transfers'[i] = post_transfers[i]
    BY <1>2
  <2> QED
    BY <1>2, <2>1, <2>2, <2>3, <2>4, BetweenParts, SoundStays
<1>5. Homes'
  BY <1>2, BetweenParts, HomesStay
<1>6. StepsGood'
  BY <1>2, BetweenParts, StepsStay
<1>7. BoundAt(n)'
  <2>1. bindings'[n] = b /\ n <= Len(Ins') /\ ~ (n > Len(Ins'))
    BY <1>1, <1>2
  <2>2. OnTier(bindings[n], TierNow)'
    BY <2>1
  <2> QED
    BY <2>1, <2>2 DEF BoundAt, NoPlace
<1>8. Apart(bindings, kid)'
  <2>1. Apart(bindings, kid)
    BY <1>1, BetweenParts DEF BoundGood
  <2> QED
    BY <1>2, <2>1, BetweenParts, ApartAppended
<1>9. BoundGood'
  <2>1. \A i \in DOMAIN bindings' : (i \in DOMAIN bindings /\ bindings'[i] = bindings[i]) \/ BoundAt(i)'
    BY <1>3, <1>7
  <2>2. TransfersStand
    BY <1>2 DEF TransfersStand
  <2> QED
    BY <1>1, <1>2, <1>8, <2>1, <2>2, BetweenParts, BoundStays
<1>10. OutputGood'
  BY <1>1, <1>2 DEF OutputGood
<1> QED
  BY <1>4, <1>5, <1>6, <1>9, <1>10 DEF OInv

(* The operands bound before the one at hand are inputs and workspaces.      *)
LEMMA BoundBefore ==
  ASSUME Between, BindingInput, NEW i \in DOMAIN bindings
  PROVE  bindings[i].role = "Input" \/ IsChunk(bindings[i].place)
<1>1. /\ Binds /\ pos \in 1..Len(Ins) /\ Len(Ins) \in Nat /\ DOMAIN bindings = 1..(pos - 1)
  BY BetweenParts, InputNow
<1>2. i \in 1..Len(Ins) /\ BoundAt(i)
  BY <1>1, BetweenParts DEF BoundGood
<1> QED
  BY <1>2 DEF BoundAt, BoundInput

(* An input read where it is or in an earlier copy.                          *)
LEMMA ReadGood ==
  ASSUME Between, BindingInput, NEW v, v = Ins[pos], NEW p \in Place, Bind(v, "Input", p), v \notin Workspaces(graph),
         UNCHANGED <<input, phase, kid, post_transfers, value2place, remaining, value_on_tier, order>>,
         p \in {Initializer(v), value2place[v], value_on_tier[<<v, TierNow>>].place}, p # NoPlace, There(p),
         OnTier(Binding(v, "Input", p), TierNow), SoundAt(v, p), IsChunk(p) => v \in Held(p.id),
         \A i \in DOMAIN steps' :
            \/ i \in DOMAIN steps /\ steps'[i] = steps[i]
            \/ StepGood(steps[i])' /\ \A j \in DOMAIN steps'[i].bindings : SoundBinding(steps[i].bindings[j])'
  PROVE  OInv'
<1>1. PICK b, n : b = Binding(v, "Input", p) /\ n = pos
  OBVIOUS
<1>2. b.value = v /\ b.role = "Input" /\ b.place = p /\ bindings' = Append(bindings, b) /\ pos' = pos + 1
  BY <1>1 DEF Binding, Bind
<1>3. v \in Values(graph) /\ TierNow \in Tier /\ n \in 1..Len(Ins) /\ DOMAIN bindings = 1..(n - 1)
  BY <1>1, BetweenParts, InputNow
<1>4. b \in BindingType
  BY <1>1, <1>3, BetweenParts, PlacesTyped
<1>5. /\ DOMAIN bindings' = 1..n /\ bindings'[n] = b /\ Ins' = Ins /\ TierNow' = TierNow
      /\ UNCHANGED <<graph, info, kid, output_alias, phase, post_transfers, value2place, value_on_tier, remaining>>
  BY <1>1, <1>2, <1>4, BetweenParts, InputBound DEF input
<1>6. OnTier(b, TierNow)'
  <2>1. PICK t : t = TierNow
    OBVIOUS
  <2>2. AtTier(p, t) => AtTier(p, t)'
    BY <1>5, BetweenParts, AtTierStays
  <2> QED
    BY <1>1, <1>2, <1>5, <2>1, <2>2 DEF OnTier
<1>7. SoundBinding(b)'
  <2>1. SoundBinding(b)
    BY <1>2, <1>3 DEF SoundBinding
  <2> QED
    BY <1>2, <1>5, <2>1, BetweenParts, SoundBindingStays
<1>8. BoundInput(n)'
  BY <1>1, <1>2, <1>5 DEF BoundInput, Workspaces, Initializer
<1>9. \A i \in DOMAIN bindings : bindings[i].place = b.place => bindings[i].role = "Input" /\ b.role = "Input"
  <2> TAKE i \in DOMAIN bindings
  <2>1. CASE IsChunk(p)
    <3>1. PICK c : c = p.id
      OBVIOUS
    <3>2. p = ChunkPlace(c) /\ v \in Held(c)
      BY <2>1, <3>1, ChunkPlaces
    <3> QED
      BY <1>2, <3>2, NoWorkspaceThere
  <2>2. CASE ~ IsChunk(p)
    BY <1>2, <2>2, BoundBefore
  <2> QED
    BY <2>1, <2>2
<1>10. HeldApart'
  BY <1>5, BetweenParts, HeldSame
<1>11. PlacesStay /\ CopiesStand
  BY <1>5 DEF PlacesStay, CopiesStand
<1> QED
  BY <1>1, <1>2, <1>4, <1>5, <1>6, <1>7, <1>8, <1>9, <1>10, <1>11, InputGood

LEMMA BindInitializerPlaces == Between /\ BindInitializer => OInv'
<1> SUFFICES ASSUME Between, BindInitializer PROVE OInv'
  OBVIOUS
<1>1. PICK v, p : v = Ins[pos] /\ p = Initializer(v)
  OBVIOUS
<1>2. /\ BindingInput /\ v \in graph.initializers /\ Bind(v, "Input", p)
      /\ UNCHANGED <<input, phase, kid, post_transfers, value2place, remaining, value_on_tier, order, steps>>
  BY <1>1 DEF BindInitializer
<1>3. v \in Values(graph)
  BY <1>1, <1>2, BetweenParts, InputNow
<1>4. p \in Place /\ ~ IsChunk(p) /\ p.kind = "Initializer" /\ p # NoPlace /\ v \notin Workspaces(graph)
  BY <1>1, <1>2, <1>3, BetweenParts, PlacesTyped DEF Initializer, IsChunk, NoPlace, Workspaces
<1>5. SoundAt(v, p) /\ There(p)
  BY <1>2, <1>4, BetweenParts DEF SoundAt, There, Placeable
<1>6. OnTier(Binding(v, "Input", p), TierNow)
  BY <1>4 DEF OnTier, AtTier, Binding
<1> QED
  BY <1>1, <1>2, <1>4, <1>5, <1>6, ReadGood

LEMMA BindStoredPlaces == Between /\ BindStored => OInv'
<1> SUFFICES ASSUME Between, BindStored PROVE OInv'
  OBVIOUS
<1>1. PICK v, p, t : v = Ins[pos] /\ p = value2place[v] /\ t = TierNow
  OBVIOUS
<1>2. /\ BindingInput /\ Stored(v) /\ ~ NeedsTransfer(v, p, t) /\ Bind(v, "Input", p)
      /\ UNCHANGED <<input, phase, kid, post_transfers, value2place, remaining, value_on_tier, order, steps>>
  BY <1>1 DEF BindStored
<1>3. v \in Values(graph) /\ t \in Tier /\ pos \in 1..Len(Ins) /\ Binds
  BY <1>1, <1>2, BetweenParts, InputNow
<1>4. p \in Place /\ p # NoPlace /\ There(p) /\ SoundAt(v, p) /\ v \notin Workspaces(graph)
  BY <1>1, <1>2, <1>3, BetweenParts DEF TypeOK, PlacesThere, SoundPlaces, Stored
<1>5. OnTier(Binding(v, "Input", p), t)
  <2>1. Binding(v, "Input", p).place = p /\ Binding(v, "Input", p).value = v
    BY DEF Binding
  <2>2. CASE v \notin graph.scalars
    <3>1. p.kind \in {"Chunk", "Output", "Initializer", "SessionState", "Input"}
      BY <1>4 DEF Place, SoundAt
    <3>2. AtTier(p, t)
      BY <1>2, <2>2, <3>1 DEF NeedsTransfer, AtTier, IsChunk
    <3> QED
      BY <2>1, <3>2 DEF OnTier
  <2>3. CASE v \in graph.scalars
    <3>1. p = InputPlace(v)
      BY <1>1, <1>3, <2>3, BetweenParts DEF Homes, WellFormed
    <3>2. t = "HostArena" => AtTier(p, t)
      BY <3>1 DEF AtTier, InputPlace, IsChunk
    <3>3. t \in {"HostArena", "GpuArena"}
      BY <1>3, TierAssumption
    <3> QED
      BY <2>1, <2>3, <3>2, <3>3 DEF OnTier
  <2> QED
    BY <2>2, <2>3
<1>6. ASSUME IsChunk(p) PROVE v \in Held(p.id)
  BY <1>1, <1>3, <1>4, <1>6, OperandIsHeld, ChunkPlaces
<1> QED
  BY <1>1, <1>2, <1>4, <1>5, <1>6, ReadGood

LEMMA UseCopyPlaces == Between /\ UseCopy => OInv'
<1> SUFFICES ASSUME Between, UseCopy PROVE OInv'
  OBVIOUS
<1>1. PICK v, t, x, p : v = Ins[pos] /\ t = TierNow /\ x = <<v, t>> /\ p = value_on_tier[x].place
  OBVIOUS
<1>2. /\ BindingInput /\ Stored(v) /\ p # NoPlace /\ Bind(v, "Input", p)
      /\ UNCHANGED <<input, phase, kid, post_transfers, value2place, remaining, value_on_tier, order>>
      /\ steps' = steps \/ \E dev, s, e : steps' = Append(steps, SyncWait(dev, s, e))
  BY <1>1 DEF UseCopy, Copied, MustCopy
<1>3. v \in Values(graph) /\ t \in Tier /\ x \in Values(graph) \X Tier
  BY <1>1, <1>2, BetweenParts, InputNow
<1>4. p \in Place /\ There(p) /\ SoundAt(v, p) /\ v \notin Workspaces(graph)
  <2>1. p \in Place
    BY <1>1, <1>3, BetweenParts DEF TypeOK
  <2>2. There(p)
    BY <1>1, <1>3, BetweenParts DEF PlacesThere
  <2>3. SoundAt(v, p)
    BY <1>1, <1>2, <1>3, BetweenParts DEF SoundPlaces
  <2> QED
    BY <1>2, <2>1, <2>2, <2>3 DEF Stored
<1>5. IsChunk(p) /\ chunks[p.id].tier = t
  BY <1>1, <1>2, <1>3, BetweenParts DEF CopiesTrue
<1>6. OnTier(Binding(v, "Input", p), t)
  BY <1>5 DEF OnTier, AtTier, Binding
<1>7. v \in Held(p.id)
  BY <1>1, <1>3, <1>4, <1>5, ChunkPlaces DEF Held
<1>8. \A i \in DOMAIN steps' :
            \/ i \in DOMAIN steps /\ steps'[i] = steps[i]
            \/ StepGood(steps[i])' /\ \A j \in DOMAIN steps'[i].bindings : SoundBinding(steps[i].bindings[j])'
  <2>1. CASE steps' = steps
    BY <2>1
  <2>2. CASE \E dev, s, e : steps' = Append(steps, SyncWait(dev, s, e))
    <3>1. PICK dev, s, e, y : y = SyncWait(dev, s, e) /\ steps' = Append(steps, y)
      BY <2>2
    <3>2. y.kind # "Kernel" /\ DOMAIN y.bindings = {}
      BY <3>1 DEF SyncWait
    <3>3. \A i \in DOMAIN steps' : (i \in DOMAIN steps /\ steps'[i] = steps[i]) \/ steps'[i] = y
      BY <3>1, BetweenParts
    <3> QED
      BY <3>2, <3>3 DEF StepGood
  <2> QED
    BY <1>2, <2>1, <2>2
<1> QED
  BY <1>1, <1>2, <1>4, <1>6, <1>7, <1>8, ReadGood

(* The chunk an allocation returns.                                          *)
LEMMA AllocLarge ==
  ASSUME CAP!IInv, NEW t \in Tier, NEW s \in Stream, NEW size \in Nat, NEW uses \in Nat,
         NEW c, c = NextChunk(chunks, free, t, s),
         chunks' = AllocChunks(chunks, free, t, s, size, uses)
  PROVE  chunks'[c].size >= size
<1>1. chunks \in Seq(ChunkState) /\ Len(chunks) \in Nat /\ DOMAIN chunks = 1..Len(chunks)
  BY DEF CAP!IInv, CAP!TypeOK, CAP!ChunkState, ChunkState
<1>2. c \in Nat \ {0} /\ \A d : d \in DOMAIN chunks' <=> d \in DOMAIN chunks \/ d = c
  BY AllocFacts
<1>3. CASE c > Len(chunks)
  <2>1. PICK new : new = [tier |-> t, size |-> size, live |-> uses]
    OBVIOUS
  <2>2. chunks' = Append(chunks, new)
    BY <1>3, <2>1 DEF AllocChunks
  <2>3. DOMAIN chunks' = 1..(Len(chunks) + 1) /\ chunks'[Len(chunks) + 1] = new
    BY <1>1, <2>2
  <2>4. c = Len(chunks) + 1
    BY <1>1, <1>2, <1>3, <2>3
  <2> QED
    BY <2>1, <2>3, <2>4
<1>4. CASE ~ (c > Len(chunks))
  <2>1. PICK new : new = [tier |-> chunks[c].tier, size |-> IF size > chunks[c].size THEN size ELSE chunks[c].size,
                          live |-> chunks[c].live + uses]
    OBVIOUS
  <2>2. chunks' = [chunks EXCEPT ![c] = new]
    BY <1>4, <2>1 DEF AllocChunks
  <2>3. c \in DOMAIN chunks
    BY <1>1, <1>2, <1>4
  <2>4. chunks[c].size \in Nat
    <3>1. chunks[c] \in ChunkState
      BY <1>1, <2>3
    <3> QED
      BY <3>1 DEF ChunkState
  <2>5. chunks'[c] = new
    BY <1>1, <2>2, <2>3
  <2> QED
    BY <2>1, <2>4, <2>5
<1> QED
  BY <1>3, <1>4

(* The one value a fresh chunk keeps.                                        *)
LEMMA HeldFresh ==
  ASSUME HeldApart, PlacesThere, UNCHANGED graph, NEW c, NEW v, \A w \in Held(c)' : w = v,
         \A d : d # c => Held(d)' \subseteq Held(d)
  PROVE  HeldApart'
<1>1. ASSUME NEW d \in DOMAIN chunks', NEW w \in Held(d)', NEW u \in Held(d)'
      PROVE  (d \in DOMAIN chunks /\ w \in Held(d) /\ u \in Held(d)) \/ Origin(graph, w) = Origin(graph, u)
  <2>1. CASE d = c
    <3>1. w = v /\ u = v
      BY <1>1, <2>1
    <3> QED
      BY <3>1
  <2>2. CASE d # c
    <3>1. w \in Held(d) /\ u \in Held(d)
      BY <1>1, <2>2
    <3> QED
      BY <3>1, HeldIsThere
  <2> QED
    BY <2>1, <2>2
<1> QED
  BY <1>1, HeldStays

(* A value gets a chunk of its own.                                          *)
LEMMA PlacedAlone ==
  ASSUME HeldApart, PlacesThere, UNCHANGED <<graph, value_on_tier>>, value2place \in [Values(graph) -> Place],
         \A u \in Values(graph) : remaining'[u] = remaining[u],
         NEW v, NEW c, Held(c) = {}, value2place' = [value2place EXCEPT ![v] = ChunkPlace(c)]
  PROVE  HeldApart'
<1>1. \A d, e : ChunkPlace(d) = ChunkPlace(e) => d = e
  BY DEF ChunkPlace
<1>2. \A u \in Values(graph) : u # v => value2place'[u] = value2place[u]
  OBVIOUS
<1>3. v \in Values(graph) => value2place'[v] = ChunkPlace(c)
  OBVIOUS
<1>4. ASSUME NEW d, NEW u \in Held(d)' PROVE u \in Held(d) \/ (u = v /\ d = c)
  <2>1. CASE u \in Values(graph) /\ value2place'[u] = ChunkPlace(d) /\ remaining'[u] > 0
    BY <1>1, <1>2, <1>3, <2>1 DEF Held
  <2>2. CASE u \in Values(graph) /\ \E t \in Tier : value_on_tier'[<<u, t>>].place = ChunkPlace(d)
    BY <2>2 DEF Held
  <2> QED
    BY <1>4, <2>1, <2>2 DEF Held, ChunkPlace
<1>5. \A w \in Held(c)' : w = v
  BY <1>4
<1>6. \A d : d # c => Held(d)' \subseteq Held(d)
  BY <1>4
<1> QED
  BY <1>5, <1>6, HeldFresh

(* The chunk that is allocated for an operand.                               *)
LEMMA FreshGood ==
  ASSUME Between, BindingInput \/ BindingOutput, NEW v \in Values(graph), NEW uses \in Nat, NEW c,
         c = NextChunk(chunks, free, TierNow, StreamNow),
         chunks' = AllocChunks(chunks, free, TierNow, StreamNow, graph.size[v], uses), UNCHANGED <<graph, kid>>
  PROVE  /\ c \in Nat \ {0} /\ c \in DOMAIN chunks' /\ Held(c) = {}
         /\ \A i \in DOMAIN bindings : bindings[i].place # ChunkPlace(c)
         /\ AtTier(ChunkPlace(c), TierNow)'
         /\ v \notin graph.states => SoundAt(v, ChunkPlace(c))'
         /\ c \in DOMAIN chunks => chunks[c].tier = TierNow
<1>1. Busy
  BY DEF BindingInput, BindingOutput, Busy, Binds
<1>2. TierNow \in Tier /\ StreamNow \in Stream
  BY <1>1, BetweenParts, NowTyped
<1>3. graph.size[v] \in Nat /\ CAP!IInv
  BY BetweenParts, GraphTyped, AInvParts
<1>4. PICK t, s, n : t = TierNow /\ s = StreamNow /\ n = graph.size[v]
  OBVIOUS
<1>5. /\ c \in Nat \ {0} /\ \A d : d \in DOMAIN chunks' <=> d \in DOMAIN chunks \/ d = c
      /\ c \in DOMAIN chunks => chunks[c].live = 0 /\ chunks[c].tier = t
      /\ chunks'[c].tier = t
  BY <1>2, <1>3, <1>4, AllocFacts
<1>6. chunks'[c].size >= n
  BY <1>2, <1>3, <1>4, AllocLarge
<1>7. Held(c) = {} /\ \A i \in DOMAIN bindings : bindings[i].place # ChunkPlace(c)
  BY <1>5, NothingOn
<1>8. IsChunk(ChunkPlace(c)) /\ ChunkPlace(c).id = c /\ ChunkPlace(c).kind # "None"
  BY DEF IsChunk, ChunkPlace
<1>9. chunks'[c].size \in Nat
  <2>1. chunks' \in Seq(ChunkState)
    BY BetweenParts DEF TypeOK
  <2>2. chunks'[c] \in ChunkState
    BY <1>5, <2>1
  <2> QED
    BY <2>2 DEF ChunkState
<1>10. v \notin graph.states => SoundAt(v, ChunkPlace(c))'
  BY <1>3, <1>4, <1>6, <1>8, <1>9 DEF SoundAt, IsChunk, ChunkPlace
<1>11. AtTier(ChunkPlace(c), t)'
  BY <1>5, <1>8 DEF AtTier, IsChunk, ChunkPlace
<1>12. TierNow' = t
  BY <1>4 DEF TierNow, DeviceNow, Kernel, TierOfDevice
<1> QED
  BY <1>4, <1>5, <1>7, <1>10, <1>11, <1>12

(* A session state is on the tier of the kernels that read it.               *)
LEMMA StatesAtHand ==
  ASSUME Between, Busy, NEW s \in graph.states, Reads(graph, kid, s)
  PROVE  StateTier(s) = TierNow
<1>1. kid \in Kernels(graph) /\ s \in Values(graph)
  BY BetweenParts, GraphTyped DEF Standing, GraphType
<1>2. \A k \in Kernels(graph) : ~ Writes(graph, k, s)
  <2>1. Producer(graph, s) = NoKernel
    BY <1>1, BetweenParts DEF WellFormed
  <2> QED
    BY <1>1, <2>1, BetweenParts, ProducerFacts, NoValueNone
<1>3. \A k \in Kernels(graph) : Reads(graph, k, s) => graph.kernels[k].dev = DeviceNow
  BY <1>1, BetweenParts DEF Placeable, DeviceNow, Kernel
<1>4. DeviceNow \in Device
  BY BetweenParts, NowTyped
<1>5. CASE DeviceNow = "CUDA"
  <2>1. \E k \in Kernels(graph) : graph.kernels[k].dev = "CUDA" /\ (Reads(graph, k, s) \/ Writes(graph, k, s))
    BY <1>1, <1>5 DEF DeviceNow, Kernel
  <2> QED
    BY <1>5, <2>1 DEF StateTier, TierNow, TierOfDevice
<1>6. CASE DeviceNow = "CPU"
  BY <1>2, <1>3, <1>6 DEF StateTier, TierNow, TierOfDevice
<1> QED
  BY <1>4, <1>5, <1>6 DEF Device

LEMMA BindWorkspacePlaces == Between /\ BindWorkspace => OInv'
<1> SUFFICES ASSUME Between, BindWorkspace PROVE OInv'
  OBVIOUS
<1>0. PICK v, c, b, n : v = Ins[pos] /\ c = NextChunk(chunks, free, TierNow, StreamNow)
                        /\ b = Binding(v, "Workspace", ChunkPlace(c)) /\ n = pos
  OBVIOUS
<1>1. /\ BindingInput /\ v \in Workspaces(graph)
      /\ chunks' = AllocChunks(chunks, free, TierNow, StreamNow, graph.size[v], remaining[v])
      /\ value2place' = [value2place EXCEPT ![v] = ChunkPlace(c)]
      /\ bindings' = Append(bindings, b) /\ pos' = pos + 1
      /\ UNCHANGED <<input, graph, phase, kid, post_transfers, remaining, value_on_tier, order, steps>>
  BY <1>0 DEF BindWorkspace, Bind, input
<1>2. /\ v \in Values(graph) /\ TierNow \in Tier /\ n \in 1..Len(Ins) /\ DOMAIN bindings = 1..(n - 1)
      /\ <<kid, n>> \in Slots(graph) /\ ReadAt(graph, <<kid, n>>) = v /\ phase = "bind"
  BY <1>0, <1>1, BetweenParts, InputNow
<1>3. remaining[v] \in Nat /\ value2place \in [Values(graph) -> Place]
  BY <1>2, BetweenParts DEF TypeOK
<1>4. value2place[v] = NoPlace
  <2>1. WorkspaceToBind(<<kid, n>>)
    BY <1>0, <1>2 DEF WorkspaceToBind
  <2> QED
    BY <1>1, <1>2, <2>1, BetweenParts DEF Unplaced
<1>5. PICK uses : uses = remaining[v]
  OBVIOUS
<1>6. /\ c \in Nat \ {0} /\ c \in DOMAIN chunks' /\ Held(c) = {}
      /\ \A i \in DOMAIN bindings : bindings[i].place # ChunkPlace(c)
      /\ AtTier(ChunkPlace(c), TierNow)'
      /\ v \notin graph.states => SoundAt(v, ChunkPlace(c))'
  BY <1>0, <1>1, <1>2, <1>3, <1>5, FreshGood
<1>7. b \in BindingType /\ b.value = v /\ b.role = "Workspace" /\ b.place = ChunkPlace(c)
  BY <1>0, <1>2, <1>6, BetweenParts, PlacesTyped DEF Binding
<1>8. /\ DOMAIN bindings' = 1..n /\ bindings'[n] = b /\ Ins' = Ins /\ TierNow' = TierNow
  BY <1>0, <1>1, <1>7, BetweenParts, InputBound DEF input
<1>9. OnTier(b, TierNow)'
  BY <1>6, <1>7, <1>8 DEF OnTier
<1>10. SoundAt(v, ChunkPlace(c))'
  BY <1>1, <1>6 DEF Workspaces
<1>11. SoundBinding(b)'
  BY <1>1, <1>2, <1>7, <1>10 DEF SoundBinding
<1>12. IsChunk(ChunkPlace(c)) /\ ChunkPlace(c) # NoPlace /\ ChunkPlace(c).kind = "Chunk"
  BY DEF IsChunk, ChunkPlace, NoPlace
<1>13. value2place'[v] = ChunkPlace(c) /\ \A u \in Values(graph) : u # v => value2place'[u] = value2place[u]
  BY <1>1, <1>2, <1>3
<1>14. BoundInput(n)'
  BY <1>0, <1>1, <1>7, <1>8, <1>12, <1>13 DEF BoundInput, Workspaces, IsChunk
<1>15. PlacesStay /\ CopiesStand
  BY <1>1, <1>4, <1>13 DEF PlacesStay, CopiesStand
<1>16. HeldApart'
  BY <1>1, <1>3, <1>6, BetweenParts, PlacedAlone
<1>17. \A u \in Values(graph) :
            value2place'[u] = value2place[u] \/ (SoundAt(u, value2place[u])' /\ Home(u, value2place[u])')
  <2>1. Home(v, ChunkPlace(c))'
    BY <1>1, <1>12 DEF Home, Workspaces
  <2>2. SoundAt(v, value2place[v])' /\ Home(v, value2place[v])'
    BY <1>10, <1>13, <2>1
  <2> QED
    BY <1>13, <2>2
<1> QED
  BY <1>0, <1>1, <1>6, <1>7, <1>9, <1>11, <1>12, <1>14, <1>15, <1>16, <1>17, InputGood

LEMMA MakeCopyPlaces == Between /\ MakeCopy => OInv'
<1> SUFFICES ASSUME Between, MakeCopy PROVE OInv'
  OBVIOUS
<1>0. PICK v, x, c, b, n, q, copy : /\ v = Ins[pos] /\ x = <<v, TierNow>>
        /\ c = NextChunk(chunks, free, TierNow, StreamNow) /\ b = Binding(v, "Input", ChunkPlace(c)) /\ n = pos
        /\ q = value2place[v]
        /\ copy = [place |-> ChunkPlace(c), event |-> next_event, stream |-> StreamNow]
  OBVIOUS
<1>1. /\ BindingInput /\ MustCopy(v) /\ value_on_tier[x].place = NoPlace
      /\ chunks' = AllocChunks(chunks, free, TierNow, StreamNow, graph.size[v], 1)
      /\ \E dev, s, e : steps' = Append(steps, Transfer(dev, s, e, Binding(v, "Input", q), Binding(v, "Output", ChunkPlace(c))))
      /\ value_on_tier' = [value_on_tier EXCEPT ![x] = copy]
      /\ bindings' = Append(bindings, b) /\ pos' = pos + 1
      /\ UNCHANGED <<input, graph, phase, kid, post_transfers, value2place, remaining, order>>
  BY <1>0 DEF MakeCopy, Copied, Bind, input
<1>2. /\ v \in Values(graph) /\ TierNow \in Tier /\ n \in 1..Len(Ins) /\ DOMAIN bindings = 1..(n - 1)
      /\ kid \in Kernels(graph) /\ Busy /\ phase = "bind" /\ x \in Values(graph) \X Tier
  BY <1>0, <1>1, BetweenParts, InputNow
<1>3. value_on_tier \in [Values(graph) \X Tier -> [place : Place, event : Nat, stream : Stream]]
  BY BetweenParts DEF TypeOK
<1>4. /\ c \in Nat \ {0} /\ c \in DOMAIN chunks' /\ Held(c) = {}
      /\ \A i \in DOMAIN bindings : bindings[i].place # ChunkPlace(c)
      /\ AtTier(ChunkPlace(c), TierNow)'
      /\ v \notin graph.states => SoundAt(v, ChunkPlace(c))'
  <2>1. 1 \in Nat
    OBVIOUS
  <2> QED
    BY <1>0, <1>1, <1>2, <2>1, FreshGood
<1>5. b \in BindingType /\ b.value = v /\ b.role = "Input" /\ b.place = ChunkPlace(c)
  BY <1>0, <1>2, <1>4, BetweenParts, PlacesTyped DEF Binding
<1>6. /\ DOMAIN bindings' = 1..n /\ bindings'[n] = b /\ Ins' = Ins /\ TierNow' = TierNow
  BY <1>0, <1>1, <1>5, BetweenParts, InputBound DEF input
<1>7. v \notin graph.states
  <2>1. ASSUME v \in graph.states PROVE FALSE
    <3>1. q = SessionState(v)
      BY <1>0, <1>2, <2>1, BetweenParts DEF SoundPlaces, SoundAt
    <3>2. Reads(graph, kid, v)
      <4>1. n \in DOMAIN Ins
        BY <1>2, BetweenParts, NowTyped
      <4> QED
        BY <1>0, <4>1 DEF Reads, Ins, Kernel
    <3>3. StateTier(v) = TierNow
      BY <1>2, <2>1, <3>2, StatesAtHand
    <3>4. NeedsTransfer(v, q, TierNow)
      BY <1>0, <1>1 DEF MustCopy
    <3> QED
      BY <3>1, <3>3, <3>4 DEF NeedsTransfer, SessionState
  <2> QED
    BY <2>1
<1>8. OnTier(b, TierNow)'
  BY <1>4, <1>5, <1>6 DEF OnTier
<1>9. SoundBinding(b)'
  BY <1>1, <1>2, <1>4, <1>5, <1>7 DEF SoundBinding
<1>10. ChunkPlace(c) # NoPlace
  BY DEF ChunkPlace, NoPlace
<1>11. value_on_tier'[x].place = ChunkPlace(c) /\ \A y \in Values(graph) \X Tier : y # x => value_on_tier'[y] = value_on_tier[y]
  BY <1>0, <1>1, <1>2, <1>3
<1>12. BoundInput(n)'
  <2>1. v \notin Workspaces(graph)
    BY <1>1 DEF MustCopy, Stored
  <2>2. value_on_tier'[<<Ins'[n], TierNow'>>].place = ChunkPlace(c)
    BY <1>0, <1>6, <1>11
  <2> QED
    BY <1>0, <1>1, <1>5, <1>6, <2>1, <2>2 DEF BoundInput, Workspaces
<1>13. PlacesStay /\ CopiesStand
  BY <1>1, <1>11 DEF PlacesStay, CopiesStand
<1>14. HeldApart'
  <2>1. \A d, e : ChunkPlace(d) = ChunkPlace(e) => d = e
    BY DEF ChunkPlace
  <2>2. ASSUME NEW d, NEW u \in Held(d)' PROVE u \in Held(d) \/ (u = v /\ d = c)
    <3>1. CASE u \in Values(graph) /\ value2place'[u] = ChunkPlace(d) /\ remaining'[u] > 0
      BY <1>1, <3>1 DEF Held
    <3>2. CASE u \in Values(graph) /\ \E t \in Tier : value_on_tier'[<<u, t>>].place = ChunkPlace(d)
      <4>1. PICK t \in Tier : value_on_tier'[<<u, t>>].place = ChunkPlace(d)
        BY <3>2
      <4>2. CASE <<u, t>> = x
        <5>1. u = v
          BY <1>0, <4>2
        <5> QED
          BY <1>11, <2>1, <4>1, <4>2, <5>1
      <4>3. CASE <<u, t>> # x
        <5>1. value_on_tier[<<u, t>>].place = ChunkPlace(d)
          BY <1>11, <3>2, <4>1, <4>3
        <5> QED
          BY <3>2, <5>1 DEF Held
      <4> QED
        BY <4>2, <4>3
    <3> QED
      BY <1>1, <2>2, <3>1, <3>2 DEF Held, ChunkPlace
  <2>3. \A w \in Held(c)' : w = v
    BY <1>4, <2>2
  <2>4. \A d : d # c => Held(d)' \subseteq Held(d)
    BY <2>2
  <2> QED
    BY <1>1, <2>3, <2>4, BetweenParts, HeldFresh
<1>15. \A y \in Values(graph) \X Tier :
            value_on_tier'[y] = value_on_tier[y] \/ SoundAt(y[1], value_on_tier[y].place)'
  <2>1. x[1] = v
    BY <1>0
  <2>2. SoundAt(x[1], value_on_tier[x].place)'
    BY <1>4, <1>7, <1>11, <2>1
  <2> QED
    BY <1>11, <2>2
<1>16. \A i \in DOMAIN steps' :
            \/ i \in DOMAIN steps /\ steps'[i] = steps[i]
            \/ StepGood(steps[i])' /\ \A j \in DOMAIN steps'[i].bindings : SoundBinding(steps[i].bindings[j])'
  <2>1. PICK e, d : e = Binding(v, "Input", q) /\ d = Binding(v, "Output", ChunkPlace(c))
    OBVIOUS
  <2>2. SoundBinding(e) /\ There(e.place)
    BY <1>0, <1>2, <2>1, BetweenParts DEF SoundPlaces, PlacesThere, SoundBinding, Binding
  <2>3. SoundBinding(e)'
    BY <1>1, <2>2, BetweenParts, SoundBindingStays
  <2>4. d.value = v /\ d.place = ChunkPlace(c)
    BY <2>1 DEF Binding
  <2>5. SoundBinding(d)'
    BY <1>1, <1>2, <1>4, <1>7, <2>4 DEF SoundBinding
  <2> QED
    BY <1>1, <2>1, <2>3, <2>5, TransferGood
<1> QED
  BY <1>0, <1>1, <1>4, <1>5, <1>8, <1>9, <1>10, <1>12, <1>13, <1>14, <1>15, <1>16, InputGood

-----------------------------------------------------------------------------
(* bind_kernel: the outputs. *)

(* What a kernel writes is produced by it alone.                             *)
LEMMA WrittenHere ==
  ASSUME Between, NEW k \in Kernels(graph), NEW j, j \in DOMAIN graph.kernels[k].outs, NEW v, v = graph.kernels[k].outs[j]
  PROVE  /\ v \in Values(graph) /\ Producer(graph, v) = k
         /\ v \notin graph.states /\ v \notin graph.inputs
         /\ graph.kernels[k].op # "Forward" => ForwardedFrom(graph, v) = NoValue /\ Origin(graph, v) = v
<1>1. v \in Values(graph)
  BY BetweenParts, KernelTyped
<1>2. Writes(graph, k, v)
  BY DEF Writes
<1>3. Producer(graph, v) = k
  BY <1>1, <1>2, BetweenParts, ProducerFacts
<1>4. k # NoKernel
  BY BetweenParts, NoValueNone
<1>5. v \notin graph.states /\ v \notin graph.inputs
  BY <1>1, <1>3, <1>4, BetweenParts DEF WellFormed
<1>6. graph.kernels[k].op # "Forward" => ForwardedFrom(graph, v) = NoValue
  BY <1>3 DEF ForwardedFrom
<1> QED
  BY <1>1, <1>3, <1>5, <1>6, BetweenParts, OriginOfItself

(* The output at hand.                                                       *)
LEMMA OutputHere ==
  ASSUME Between, BindingOutput, NEW v, v = Out
  PROVE  /\ Binds /\ phase = "bind" /\ Busy /\ kid \in Kernels(graph) /\ Len(Ins) \in Nat \ {0} /\ Len(Outs) \in Nat
         /\ pos \in (Len(Ins) + 1)..(Len(Ins) + Len(Outs)) /\ DOMAIN bindings = 1..(pos - 1)
         /\ v \in Values(graph) /\ value2place[v] = NoPlace /\ Producer(graph, v) = kid
         /\ v \notin graph.states /\ v \notin graph.inputs
         /\ graph.kernels[kid].op # "Forward" => ForwardedFrom(graph, v) = NoValue /\ Origin(graph, v) = v
         /\ graph.kernels[kid].op # "Compute" => Len(Outs) = 1 /\ v = graph.kernels[kid].outs[1]
         /\ graph.kernels[kid].op = "Forward" => Len(Ins) = 1
         /\ \A i \in DOMAIN bindings : BoundAt(i) /\ (i <= Len(Ins) => bindings[i].value = Ins[i])
<1>1. Binds /\ phase = "bind" /\ pos \in (Len(Ins) + 1)..(Len(Ins) + Len(Outs)) /\ value2place[v] = NoPlace
  BY BetweenParts, BindingOutputNow
<1>2. Busy
  BY <1>1 DEF Busy
<1>3. kid \in Kernels(graph) /\ Len(Ins) \in Nat \ {0} /\ Len(Outs) \in Nat
  BY <1>2, BetweenParts, NowTyped
<1>4. Len(bindings) = pos - 1
  BY <1>1, BetweenParts DEF Standing
<1>5. DOMAIN bindings = 1..(pos - 1)
  BY <1>4, BetweenParts
<1>6. pos - Len(Ins) \in DOMAIN graph.kernels[kid].outs /\ v = graph.kernels[kid].outs[pos - Len(Ins)]
  BY <1>1, BetweenParts, OutputNow
<1>7. PICK j : j = pos - Len(Ins)
  OBVIOUS
<1>8. /\ v \in Values(graph) /\ Producer(graph, v) = kid /\ v \notin graph.states /\ v \notin graph.inputs
      /\ graph.kernels[kid].op # "Forward" => ForwardedFrom(graph, v) = NoValue /\ Origin(graph, v) = v
  BY <1>3, <1>6, <1>7, WrittenHere
<1>9. graph.kernels[kid].op # "Compute" => Len(Outs) = 1
  BY <1>3, BetweenParts DEF WellFormed, Outs, Kernel
<1>10. Len(Outs) = 1 => v = graph.kernels[kid].outs[1]
  BY <1>1, <1>3, <1>6
<1>11. graph.kernels[kid].op = "Forward" => Len(Ins) = 1
  BY <1>3, BetweenParts DEF WellFormed, Ins, Kernel
<1>12. \A i \in DOMAIN bindings : BoundAt(i)
  BY <1>1, BetweenParts DEF BoundGood
<1>13. \A i \in DOMAIN bindings : i <= Len(Ins) => bindings[i].value = Ins[i]
  BY <1>1, BetweenParts DEF Standing
<1> QED
  BY <1>1, <1>2, <1>3, <1>5, <1>8, <1>9, <1>10, <1>11, <1>12, <1>13

(* An output gets its place.                                                 *)
LEMMA OutputPlaced ==
  ASSUME Between, BindingOutput, NEW v, v = Out, NEW p \in Place, PutOutput(p), p # NoPlace, AtTier(p, TierNow)',
         SoundAt(v, p)', Home(v, p)', HeldApart',
         \A i \in DOMAIN bindings : bindings[i].place = p => Shares(bindings[i], kid)
  PROVE  OInv'
<1>1. /\ Binds /\ v \in Values(graph) /\ value2place[v] = NoPlace /\ Busy
  BY OutputHere
<1>2. /\ value2place' = [value2place EXCEPT ![v] = p] /\ phase' = "deliver"
      /\ UNCHANGED <<graph, output_alias, info, kid, pos, bindings, post_transfers, value_on_tier, steps>>
  BY DEF PutOutput, input, order
<1>3. value2place \in [Values(graph) -> Place]
  BY BetweenParts DEF TypeOK
<1>4. value2place'[v] = p /\ \A u \in Values(graph) : u # v => value2place'[u] = value2place[u]
  BY <1>1, <1>2, <1>3
<1>5. PlacesStay
  BY <1>1, <1>4 DEF PlacesStay
<1>6. SoundPlaces'
  <2>1. \A u \in Values(graph) : value2place'[u] = value2place[u] \/ SoundAt(u, value2place[u])'
    BY <1>4
  <2>2. /\ \A x \in Values(graph) \X Tier : value_on_tier'[x] = value_on_tier[x]
        /\ \A i \in DOMAIN bindings' : i \in DOMAIN bindings /\ bindings'[i] = bindings[i]
        /\ \A i \in DOMAIN post_transfers' : i \in DOMAIN post_transfers /\ post_transfers'[i] = post_transfers[i]
        /\ \A i \in DOMAIN steps' : i \in DOMAIN steps /\ steps'[i] = steps[i]
    BY <1>2
  <2> QED
    BY <1>2, <2>1, <2>2, BetweenParts, SoundStays
<1>7. Homes'
  <2>1. \A u \in Values(graph) : value2place'[u] = value2place[u] \/ Home(u, value2place[u])'
    BY <1>4
  <2> QED
    BY <1>2, <1>5, <2>1, BetweenParts, HomesStay
<1>8. StepsGood'
  BY <1>2, BetweenParts, StepsStay
<1>9. BoundGood'
  <2>1. CopiesStand /\ TransfersStand
    BY <1>2 DEF CopiesStand, TransfersStand
  <2>2. Apart(bindings, kid)'
    BY <1>1, <1>2, BetweenParts DEF BoundGood, Apart, Shares
  <2>3. \A i \in DOMAIN bindings' : i \in DOMAIN bindings /\ bindings'[i] = bindings[i]
    BY <1>2
  <2> QED
    BY <1>1, <1>2, <1>5, <2>1, <2>2, <2>3, BetweenParts, BoundStays
<1>10. OutputGood'
  <2>1. Out' = v
    BY <1>2 DEF Out, Outs, Ins, Kernel
  <2>2. value2place'[Out'] = p
    BY <1>4, <2>1
  <2>3. \A i \in DOMAIN bindings' : bindings'[i].place = p => Shares(bindings'[i], kid')
    BY <1>2
  <2>4. value2place'[Out'] # NoPlace /\ AtTier(value2place[Out], TierNow)'
    BY <2>2
  <2>5. \A i \in DOMAIN bindings' : bindings'[i].place = value2place'[Out'] => Shares(bindings[i], kid)'
    BY <1>2, <2>2, <2>3 DEF Shares
  <2> QED
    BY <2>4, <2>5 DEF OutputGood, NoPlace
<1> QED
  BY <1>6, <1>7, <1>8, <1>9, <1>10 DEF OInv

LEMMA PlaceOnChunkPlaces == Between /\ PlaceOnChunk => OInv'
<1> SUFFICES ASSUME Between, PlaceOnChunk PROVE OInv'
  OBVIOUS
<1>0. PICK v, c, p, uses : v = Out /\ c = NextChunk(chunks, free, TierNow, StreamNow) /\ p = ChunkPlace(c) /\ uses = remaining[v]
  OBVIOUS
<1>1. /\ BindingOutput /\ chunks' = AllocChunks(chunks, free, TierNow, StreamNow, graph.size[v], uses)
      /\ PutOutput(p) /\ UNCHANGED <<graph, kid, value_on_tier, remaining>>
      /\ value2place' = [value2place EXCEPT ![v] = ChunkPlace(c)]
  BY <1>0 DEF PlaceOnChunk, PutOutput, input
<1>2. v \in Values(graph) /\ v \notin graph.states /\ v \notin graph.inputs
  BY <1>0, <1>1, OutputHere
<1>3. uses \in Nat /\ value2place \in [Values(graph) -> Place]
  BY <1>0, <1>2, BetweenParts DEF TypeOK
<1>4. /\ c \in Nat \ {0} /\ Held(c) = {} /\ \A i \in DOMAIN bindings : bindings[i].place # ChunkPlace(c)
      /\ AtTier(p, TierNow)' /\ SoundAt(v, p)'
  BY <1>0, <1>1, <1>2, <1>3, FreshGood
<1>5. p \in Place /\ p # NoPlace /\ p.kind = "Chunk"
  BY <1>0, <1>4, BetweenParts, PlacesTyped DEF ChunkPlace, NoPlace
<1>6. Home(v, p)'
  BY <1>1, <1>2, <1>5 DEF Home
<1>7. HeldApart'
  BY <1>1, <1>3, <1>4, BetweenParts, PlacedAlone
<1> QED
  BY <1>0, <1>1, <1>4, <1>5, <1>6, <1>7, OutputPlaced

(* What takes a place that is no chunk changes nothing that chunks keep.     *)
LEMMA HeldElsewhere ==
  ASSUME HeldApart, PlacesThere, UNCHANGED <<graph, value_on_tier, remaining>>, value2place \in [Values(graph) -> Place],
         NEW v, NEW p, ~ IsChunk(p), value2place' = [value2place EXCEPT ![v] = p]
  PROVE  HeldApart'
<1>1. \A d : ChunkPlace(d) # p
  BY DEF IsChunk, ChunkPlace
<1>2. ASSUME NEW d, NEW u \in Held(d)' PROVE u \in Held(d)
  <2>1. CASE u \in Values(graph) /\ value2place'[u] = ChunkPlace(d) /\ remaining'[u] > 0
    BY <1>1, <2>1 DEF Held
  <2>2. CASE u \in Values(graph) /\ \E t \in Tier : value_on_tier'[<<u, t>>].place = ChunkPlace(d)
    BY <2>2 DEF Held
  <2> QED
    BY <1>2, <2>1, <2>2 DEF Held, ChunkPlace
<1>3. \A c \in DOMAIN chunks' : \A u, w \in Held(c)' : c \in DOMAIN chunks /\ u \in Held(c) /\ w \in Held(c)
  BY <1>2, HeldIsThere
<1> QED
  BY <1>3, HeldStays

(* An input that is not read from a chunk is read where its value is, or is  *)
(* an initializer.                                                           *)
LEMMA ReadWhereItIs ==
  ASSUME Between, Binds, NEW i \in DOMAIN bindings, i <= Len(Ins), NEW w, w = Ins[i], NEW p, p = bindings[i].place,
         p.kind \in {"Output", "SessionState"}
  PROVE  bindings[i].role = "Input" /\ bindings[i].value = w /\ w \in Values(graph) /\ value2place[w] = p
<1>1. BoundAt(i) /\ bindings[i].value = w
  BY BetweenParts DEF BoundGood, Standing
<1>2. w \in Values(graph) /\ TierNow \in Tier
  <2>1. Busy
    BY DEF Busy
  <2>2. TierNow \in Tier
    BY <2>1, BetweenParts, NowTyped
  <2> QED
    BY <1>1, <2>2, BetweenParts DEF SoundPlaces, SoundBinding
<1>3. ~ IsChunk(p) /\ p.kind # "Initializer" /\ p # NoPlace
  BY DEF IsChunk, NoPlace
<1>4. bindings[i].role = "Input" /\ p \in {Initializer(w), value2place[w], value_on_tier[<<w, TierNow>>].place}
  BY <1>1, <1>3 DEF BoundAt, BoundInput
<1>5. PICK x : x = <<w, TierNow>>
  OBVIOUS
<1>6. x \in Values(graph) \X Tier
  BY <1>2, <1>5
<1>7. value_on_tier[x].place # p
  BY <1>3, <1>6, BetweenParts DEF CopiesTrue
<1> QED
  BY <1>1, <1>2, <1>3, <1>4, <1>5, <1>7 DEF Initializer

(* A forward has one operand before its output, the value it forwards.       *)
LEMMA ForwardShares ==
  ASSUME Between, BindingOutput, graph.kernels[kid].op = "Forward"
  PROVE  \A i \in DOMAIN bindings : i = 1 /\ Shares(bindings[i], kid)
<1>1. PICK v : v = Out
  OBVIOUS
<1>2. /\ kid \in Kernels(graph) /\ Len(Ins) = 1 /\ Len(Outs) = 1 /\ pos \in (Len(Ins) + 1)..(Len(Ins) + Len(Outs))
      /\ DOMAIN bindings = 1..(pos - 1)
      /\ \A i \in DOMAIN bindings : BoundAt(i) /\ (i <= Len(Ins) => bindings[i].value = Ins[i])
  BY <1>1, OutputHere
<1>3. DOMAIN bindings = {1}
  BY <1>2
<1>4. BoundAt(1) /\ bindings[1].value = Ins[1]
  BY <1>2, <1>3
<1>5. Ins[1] = graph.kernels[kid].ins[1] /\ Ins[1] \notin Workspaces(graph)
  BY <1>2, BetweenParts DEF Placeable, Ins, Kernel
<1>6. bindings[1].role = "Input"
  BY <1>2, <1>4, <1>5 DEF BoundAt, BoundInput
<1> QED
  BY <1>3, <1>4, <1>5, <1>6 DEF Shares

LEMMA PlaceOnOutputPlaces == Between /\ PlaceOnOutput => OInv'
<1> SUFFICES ASSUME Between, PlaceOnOutput PROVE OInv'
  OBVIOUS
<1>0. PICK v, t, p : v = Out /\ t = output_alias[v] /\ p = OutputPlace(t)
  OBVIOUS
<1>1. /\ BindingOutput /\ t # NoValue /\ TierNow = "HostArena" /\ PutOutput(p)
      /\ UNCHANGED <<graph, kid, value_on_tier, remaining>> /\ value2place' = [value2place EXCEPT ![v] = p]
  BY <1>0 DEF PlaceOnOutput, ToOutputBuffer, PutOutput, input
<1>2. /\ Binds /\ kid \in Kernels(graph) /\ Len(Ins) \in Nat \ {0} /\ Len(Outs) \in Nat
      /\ pos \in (Len(Ins) + 1)..(Len(Ins) + Len(Outs)) /\ DOMAIN bindings = 1..(pos - 1)
      /\ v \in Values(graph) /\ value2place[v] = NoPlace /\ Producer(graph, v) = kid
      /\ v \notin graph.states /\ v \notin graph.inputs
      /\ graph.kernels[kid].op # "Forward" => Origin(graph, v) = v
      /\ graph.kernels[kid].op # "Compute" => Len(Outs) = 1
      /\ \A i \in DOMAIN bindings : BoundAt(i)
  BY <1>0, <1>1, OutputHere
<1>3. t \in Values(graph) /\ Origin(graph, v) = Origin(graph, t)
  BY <1>0, <1>1, <1>2, BetweenParts, AliasTrue
<1>4. p \in Place /\ p # NoPlace /\ p.kind = "Output" /\ p.id = t /\ ~ IsChunk(p)
  <2>1. t \in Nat
    BY <1>3, BetweenParts, GraphTyped
  <2> QED
    BY <1>0, <2>1, BetweenParts, PlacesTyped DEF OutputPlace, NoPlace, IsChunk
<1>5. AtTier(p, TierNow)'
  <2>1. TierNow' = TierNow
    BY <1>1 DEF TierNow, DeviceNow, Kernel, TierOfDevice
  <2> QED
    BY <1>1, <1>4, <2>1 DEF AtTier, IsChunk
<1>6. SoundAt(v, p)' /\ Home(v, p)'
  BY <1>1, <1>2, <1>3, <1>4 DEF SoundAt, Home, IsChunk
<1>7. HeldApart'
  <2>1. value2place \in [Values(graph) -> Place]
    BY BetweenParts DEF TypeOK
  <2> QED
    BY <1>1, <1>4, <2>1, BetweenParts, HeldElsewhere
<1>8. ASSUME NEW i \in DOMAIN bindings, bindings[i].place = p PROVE Shares(bindings[i], kid)
  <2>1. CASE graph.kernels[kid].op = "Forward"
    BY <1>1, <2>1, ForwardShares
  <2>2. CASE graph.kernels[kid].op # "Forward" /\ i <= Len(Ins)
    <3>1. PICK w : w = Ins[i]
      OBVIOUS
    <3>2. w \in Values(graph) /\ value2place[w] = p
      BY <1>2, <1>4, <1>8, <2>2, <3>1, ReadWhereItIs
    <3>3. Origin(graph, w) = Origin(graph, t)
      BY <1>4, <3>2, BetweenParts DEF Homes
    <3>4. Producer(graph, v) <= Producer(graph, w)
      <4>1. Producer(graph, Origin(graph, w)) <= Producer(graph, w)
        BY <3>2, BetweenParts, OriginFacts
      <4>2. Origin(graph, w) = v
        BY <1>2, <1>3, <2>2, <3>3
      <4> QED
        BY <4>1, <4>2
    <3>5. Producer(graph, w) < kid
      <4>1. i \in DOMAIN graph.kernels[kid].ins
        <5>1. i \in 1..Len(Ins)
          BY <1>2, <2>2
        <5> QED
          BY <1>2, <5>1, BetweenParts, KernelTyped DEF Ins, Kernel
      <4> QED
        BY <1>2, <3>1, <4>1, BetweenParts, ReadsBefore DEF Ins, Kernel
    <3>6. Producer(graph, w) \in Nat /\ kid \in Nat
      BY <1>2, BetweenParts, ProducerFacts
    <3> QED
      BY <1>2, <3>4, <3>5, <3>6
  <2>3. CASE graph.kernels[kid].op # "Forward" /\ ~ (i <= Len(Ins))
    <3>1. PICK j, w : j = i - Len(Ins) /\ w = bindings[i].value
      OBVIOUS
    <3>2. w = Outs[j] /\ value2place[w] = p
      BY <1>2, <1>8, <2>3, <3>1 DEF BoundAt, BoundOutput
    <3>3. j \in 1..Len(Outs)
      BY <1>2, <2>3, <3>1
    <3>4. j \in DOMAIN graph.kernels[kid].outs /\ w = graph.kernels[kid].outs[j]
      BY <1>2, <3>2, <3>3, BetweenParts, KernelTyped DEF Outs, Kernel
    <3>5. w \in Values(graph) /\ Origin(graph, w) = w
      BY <1>2, <2>3, <3>4, WrittenHere
    <3>6. Origin(graph, w) = Origin(graph, t)
      BY <1>4, <3>2, <3>5, BetweenParts DEF Homes
    <3>7. w = v
      BY <1>2, <1>3, <2>3, <3>5, <3>6
    <3> QED
      BY <1>2, <1>4, <3>2, <3>7
  <2> QED
    BY <2>1, <2>2, <2>3
<1> QED
  BY <1>0, <1>1, <1>4, <1>5, <1>6, <1>7, <1>8, OutputPlaced

(* A state is updated by the one kernel that owns it (StatesOwned).          *)
LEMMA OwnUpdate ==
  ASSUME Between, NEW k \in Kernels(graph), graph.kernels[k].op # "Compute", NEW w \in graph.states, Reads(graph, k, w)
  PROVE  /\ graph.kernels[k].op = "InPlace"
         /\ \A u \in Kernels(graph) : InPlaceInput(graph, u) = w => u = k
<1>1. w \in Values(graph) /\ w # NoValue
  BY BetweenParts, GraphTyped, NoValueNone DEF GraphType
<1>2. PICK o \in Kernels(graph) :
           /\ w \in {InPlaceInput(graph, o), ScaleInput(graph, o)}
           /\ \A j \in Kernels(graph) \ {o} : Reads(graph, j, w) => graph.kernels[j].op = "Compute"
  BY BetweenParts DEF WellFormed, StatesOwned
<1>3. o = k
  BY <1>2
<1>4. graph.kernels[k].op = "InPlace"
  BY <1>1, <1>2, <1>3 DEF InPlaceInput, ScaleInput
<1>5. ASSUME NEW u \in Kernels(graph), InPlaceInput(graph, u) = w PROVE u = k
  <2>1. graph.kernels[u].op = "InPlace" /\ graph.kernels[u].ins[1] = w
    BY <1>1, <1>5 DEF InPlaceInput
  <2>2. 1 \in DOMAIN graph.kernels[u].ins
    BY BetweenParts, KernelTyped
  <2>3. Reads(graph, u, w)
    BY <2>1, <2>2 DEF Reads
  <2> QED
    BY <1>2, <1>3, <2>1, <2>3
<1> QED
  BY <1>4, <1>5

(* What is forwarded or updated is the first operand.                        *)
LEMMA GivenIsFirst ==
  ASSUME Between, BindingOutput, GivenPlace # NoPlace
  PROVE  /\ GivenPlace = bindings[1].place /\ 1 \in DOMAIN bindings /\ bindings[1].value = Ins[1]
         /\ bindings[1].role = "Input" /\ BoundAt(1) /\ Ins[1] \in Values(graph) /\ 1 \in DOMAIN graph.kernels[kid].ins
         /\ graph.kernels[kid].op \in {"Forward", "InPlace"} /\ Reads(graph, kid, Ins[1])
         /\ graph.kernels[kid].op = "InPlace" => Ins[1] \in graph.states
         /\ \A i \in DOMAIN bindings : i <= Len(Ins)
<1>1. PICK v : v = Out
  OBVIOUS
<1>2. /\ kid \in Kernels(graph) /\ Len(Ins) \in Nat \ {0} /\ Len(Outs) \in Nat
      /\ pos \in (Len(Ins) + 1)..(Len(Ins) + Len(Outs)) /\ DOMAIN bindings = 1..(pos - 1)
      /\ graph.kernels[kid].op # "Compute" => Len(Outs) = 1
      /\ \A i \in DOMAIN bindings : BoundAt(i) /\ (i <= Len(Ins) => bindings[i].value = Ins[i])
  BY <1>1, OutputHere
<1>3. 1 \in DOMAIN bindings /\ 1 <= Len(Ins)
  BY <1>2
<1>4. bindings[1].value = Ins[1] /\ BoundAt(1)
  BY <1>2, <1>3
<1>5. BoundPlace(Ins[1]) = bindings[1].place
  BY BetweenParts, BoundToFirst
<1>6. /\ GivenPlace = bindings[1].place /\ graph.kernels[kid].op \in {"Forward", "InPlace"}
  <2>1. ForwardPlace # NoPlace => ForwardPlace = BoundPlace(Ins[1]) /\ graph.kernels[kid].op = "Forward"
    BY DEF ForwardPlace, Kernel
  <2>2. InPlacePlace # NoPlace => InPlacePlace = BoundPlace(Ins[1]) /\ graph.kernels[kid].op = "InPlace"
    BY DEF InPlacePlace, InPlaceInput, Ins, Kernel
  <2> QED
    BY <1>5, <2>1, <2>2 DEF GivenPlace
<1>7. 1 \in DOMAIN graph.kernels[kid].ins /\ Ins[1] = graph.kernels[kid].ins[1] /\ Ins[1] \in Values(graph)
  BY <1>2, BetweenParts, KernelTyped DEF Ins, Kernel
<1>8. Reads(graph, kid, Ins[1])
  BY <1>7 DEF Reads
<1>9. graph.kernels[kid].op = "InPlace" => Ins[1] \in graph.states
  BY <1>2, <1>7, BetweenParts DEF WellFormed
<1>10. Ins[1] \notin Workspaces(graph)
  <2>1. CASE graph.kernels[kid].op = "Forward"
    BY <1>2, <1>7, <2>1, BetweenParts DEF Placeable
  <2>2. CASE graph.kernels[kid].op = "InPlace"
    BY <1>9, <2>2 DEF Workspaces
  <2> QED
    BY <1>6, <2>1, <2>2
<1>11. bindings[1].role = "Input"
  BY <1>3, <1>4, <1>10 DEF BoundAt, BoundInput
<1>12. \A i \in DOMAIN bindings : i <= Len(Ins)
  <2>1. Len(Outs) = 1
    BY <1>2, <1>6
  <2> QED
    BY <1>2, <2>1
<1> QED
  BY <1>3, <1>4, <1>6, <1>7, <1>8, <1>9, <1>11, <1>12

(* A value takes the place of what it forwards.                              *)
LEMMA HeldForward ==
  ASSUME HeldApart, PlacesThere, UNCHANGED <<graph, value_on_tier, remaining>>, value2place \in [Values(graph) -> Place],
         NEW v, NEW w, NEW c, w \in Held(c), Origin(graph, v) = Origin(graph, w),
         value2place' = [value2place EXCEPT ![v] = ChunkPlace(c)]
  PROVE  HeldApart'
<1>1. \A d, e : ChunkPlace(d) = ChunkPlace(e) => d = e
  BY DEF ChunkPlace
<1>2. \A u \in Values(graph) : u # v => value2place'[u] = value2place[u]
  OBVIOUS
<1>3. v \in Values(graph) => value2place'[v] = ChunkPlace(c)
  OBVIOUS
<1>4. ASSUME NEW d, NEW u \in Held(d)' PROVE u \in Held(d) \/ (u = v /\ d = c)
  <2>1. CASE u \in Values(graph) /\ value2place'[u] = ChunkPlace(d) /\ remaining'[u] > 0
    BY <1>1, <1>2, <1>3, <2>1 DEF Held
  <2>2. CASE u \in Values(graph) /\ \E t \in Tier : value_on_tier'[<<u, t>>].place = ChunkPlace(d)
    BY <2>2 DEF Held
  <2> QED
    BY <1>4, <2>1, <2>2 DEF Held, ChunkPlace
<1>5. c \in DOMAIN chunks
  BY HeldIsThere
<1>6. \A x \in Held(c)' : Origin(graph, x) = Origin(graph, w)
  BY <1>4, <1>5 DEF HeldApart
<1>7. ASSUME NEW d \in DOMAIN chunks', NEW x \in Held(d)', NEW y \in Held(d)'
      PROVE  (d \in DOMAIN chunks /\ x \in Held(d) /\ y \in Held(d)) \/ Origin(graph, x) = Origin(graph, y)
  <2>1. CASE d = c
    BY <1>6, <1>7, <2>1, Zenon
  <2>2. CASE d # c
    <3>1. x \in Held(d) /\ y \in Held(d)
      BY <1>4, <1>7, <2>2
    <3> QED
      BY <3>1, HeldIsThere
  <2> QED
    BY <2>1, <2>2
<1> QED
  BY <1>7, HeldStays

LEMMA PlaceInPlacePlaces == Between /\ PlaceInPlace => OInv'
<1> SUFFICES ASSUME Between, PlaceInPlace PROVE OInv'
  OBVIOUS
<1>0. PICK v, w, p, t : v = Out /\ w = Ins[1] /\ p = GivenPlace /\ t = TierNow
  OBVIOUS
<1>1. /\ BindingOutput /\ p # NoPlace /\ PutOutput(p) /\ UNCHANGED <<graph, kid, value_on_tier, remaining>>
      /\ value2place' = [value2place EXCEPT ![v] = p]
  BY <1>0 DEF PlaceInPlace, PutOutput, input
<1>2. /\ Binds /\ kid \in Kernels(graph) /\ Len(Ins) \in Nat \ {0} /\ v \in Values(graph) /\ value2place[v] = NoPlace
      /\ Producer(graph, v) = kid /\ v \notin graph.states /\ v \notin graph.inputs
      /\ graph.kernels[kid].op # "Compute" => v = graph.kernels[kid].outs[1]
  BY <1>0, <1>1, OutputHere
<1>3. /\ p = bindings[1].place /\ 1 \in DOMAIN bindings /\ bindings[1].value = w
      /\ bindings[1].role = "Input" /\ BoundAt(1) /\ w \in Values(graph) /\ 1 <= Len(Ins)
      /\ graph.kernels[kid].op \in {"Forward", "InPlace"} /\ Reads(graph, kid, w) /\ w = graph.kernels[kid].ins[1]
      /\ graph.kernels[kid].op = "InPlace" => w \in graph.states
      /\ \A i \in DOMAIN bindings : i <= Len(Ins)
  BY <1>0, <1>1, GivenIsFirst DEF Ins, Kernel
<1>4. p \in Place /\ There(p)
  BY <1>0, <1>1, BetweenParts, FirstIsHeld
<1>5. SoundAt(w, p) /\ OnTier(bindings[1], t) /\ graph.size[v] \in Nat
  BY <1>0, <1>2, <1>3, BetweenParts, GraphTyped DEF SoundPlaces, SoundBinding, BoundAt
<1>6. w \in graph.scalars => t = "HostArena"
  <2>1. CASE graph.kernels[kid].op = "Forward"
    BY <1>0, <1>2, <1>3, <2>1, BetweenParts DEF Placeable, TierNow, DeviceNow, Kernel, TierOfDevice
  <2>2. CASE graph.kernels[kid].op = "InPlace"
    BY <1>3, <2>2, BetweenParts DEF Placeable, WellFormed
  <2> QED
    BY <1>3, <2>1, <2>2
<1>7. AtTier(p, t)
  BY <1>3, <1>5, <1>6 DEF OnTier
<1>8. AtTier(p, TierNow)'
  <2>1. TierNow' = t
    BY <1>0, <1>1 DEF TierNow, DeviceNow, Kernel, TierOfDevice
  <2>2. AtTier(p, t)'
    BY <1>1, <1>4, <1>7, BetweenParts, AtTierStays
  <2> QED
    BY <2>1, <2>2
<1>9. PlacesStay
  <2>1. value2place \in [Values(graph) -> Place]
    BY BetweenParts DEF TypeOK
  <2> QED
    BY <1>1, <1>2, <2>1 DEF PlacesStay
<1>10. value2place'[v] = p /\ value2place \in [Values(graph) -> Place]
  BY <1>1, <1>2, BetweenParts DEF TypeOK
<1>11. CASE graph.kernels[kid].op = "Forward"
  <2>1. ForwardedFrom(graph, v) = w /\ w # NoValue
    BY <1>2, <1>3, <1>11, BetweenParts, NoValueNone DEF ForwardedFrom
  <2>2. graph.size[v] = graph.size[w]
    BY <1>2, <2>1, BetweenParts DEF WellFormed
  <2>3. Origin(graph, v) = Origin(graph, w)
    BY <1>2, <2>1, BetweenParts, OriginForwarded
  <2>4. SoundAt(v, p)
    BY <1>2, <1>5, <2>2 DEF SoundAt
  <2>5. SoundAt(v, p)'
    BY <1>1, <1>4, <1>5, <2>4, BetweenParts, SoundAtStays
  <2>6. Home(v, p)'
    <3>1. p.kind \in {"Output", "SessionState"} => value2place[w] = p
      BY <1>0, <1>2, <1>3, ReadWhereItIs
    <3>2. p.kind = "Output" => p.id \in Values(graph) /\ Origin(graph, v) = Origin(graph, p.id)
      BY <1>3, <2>3, <3>1, BetweenParts DEF Homes
    <3>3. ASSUME p.kind = "SessionState" PROVE p.id \in graph.states /\ Updated(p.id)'
      <4>1. value2place[w] = p /\ p.id \in graph.states /\ (p.id # w => Updated(p.id))
        BY <1>3, <3>1, <3>3, BetweenParts DEF Homes
      <4>2. p.id # w
        BY <1>2, <1>3, <1>11, <4>1, OwnUpdate
      <4>3. PICK s : s = p.id
        OBVIOUS
      <4>4. Updated(s)'
        BY <1>1, <1>9, <4>1, <4>2, <4>3, BetweenParts, UpdatedStays
      <4> QED
        BY <4>1, <4>3, <4>4
    <3> QED
      BY <1>1, <1>2, <3>2, <3>3 DEF Home
  <2>7. HeldApart'
    <3>1. CASE IsChunk(p)
      <4>1. PICK c : p = ChunkPlace(c)
        BY <1>4, <3>1, ChunkPlaces
      <4>2. w \in Held(c)
        <5>1. p \in {Initializer(w), value2place[w], value_on_tier[<<w, t>>].place}
          BY <1>0, <1>3 DEF BoundAt, BoundInput
        <5>2. p # Initializer(w)
          BY <4>1 DEF ChunkPlace, Initializer
        <5>3. t \in Tier
          <6>1. Busy
            BY <1>2 DEF Busy
          <6> QED
            BY <1>0, <6>1, BetweenParts, NowTyped
        <5>4. CASE value2place[w] = p
          <6>1. 1 \in 1..Len(Ins)
            BY <1>2
          <6> QED
            BY <1>0, <1>2, <4>1, <5>4, <6>1, OperandIsHeld
        <5>5. CASE value_on_tier[<<w, t>>].place = p
          BY <1>3, <4>1, <5>3, <5>5 DEF Held
        <5> QED
          BY <5>1, <5>2, <5>4, <5>5
      <4> QED
        BY <1>1, <1>10, <2>3, <4>1, <4>2, BetweenParts, HeldForward
    <3>2. CASE ~ IsChunk(p)
      BY <1>1, <1>10, <3>2, BetweenParts, HeldElsewhere
    <3> QED
      BY <3>1, <3>2
  <2>8. \A i \in DOMAIN bindings : bindings[i].place = p => Shares(bindings[i], kid)
    BY <1>1, <1>11, ForwardShares
  <2> QED
    BY <1>0, <1>1, <1>4, <1>8, <2>5, <2>6, <2>7, <2>8, OutputPlaced
<1>12. CASE graph.kernels[kid].op = "InPlace"
  <2>1. w \in graph.states /\ p = SessionState(w)
    BY <1>3, <1>5, <1>12 DEF SoundAt
  <2>2. p.kind = "SessionState" /\ p.id = w /\ ~ IsChunk(p)
    BY <2>1 DEF SessionState, IsChunk
  <2>3. SoundAt(v, p)'
    BY <1>1, <1>2, <2>2 DEF SoundAt, IsChunk
  <2>4. Home(v, p)'
    <3>1. InPlaceInput(graph, kid) = w /\ graph.kernels[kid].outs[1] = v
      BY <1>2, <1>3, <1>12 DEF InPlaceInput
    <3>2. Updated(w)'
      BY <1>1, <1>2, <1>10, <3>1 DEF Updated, NoPlace
    <3> QED
      BY <1>1, <1>2, <2>1, <2>2, <3>2 DEF Home
  <2>5. HeldApart'
    BY <1>1, <1>10, <2>2, BetweenParts, HeldElsewhere
  <2>6. ASSUME NEW i \in DOMAIN bindings, bindings[i].place = p PROVE Shares(bindings[i], kid)
    <3>1. PICK u : u = Ins[i]
      OBVIOUS
    <3>2. bindings[i].role = "Input" /\ bindings[i].value = u /\ u \in Values(graph) /\ value2place[u] = p
      BY <1>2, <1>3, <2>2, <2>6, <3>1, ReadWhereItIs
    <3>3. ASSUME u # w PROVE FALSE
      <4>1. Updated(w)
        BY <2>2, <3>2, <3>3, BetweenParts DEF Homes
      <4>2. PICK k \in Kernels(graph) : InPlaceInput(graph, k) = w /\ value2place[graph.kernels[k].outs[1]] # NoPlace
        BY <4>1 DEF Updated
      <4>3. k = kid
        BY <1>2, <1>3, <1>12, <2>1, <4>2, OwnUpdate
      <4> QED
        BY <1>2, <1>12, <4>2, <4>3
    <3> QED
      BY <1>3, <3>2, <3>3 DEF Shares
  <2> QED
    BY <1>0, <1>1, <1>4, <1>8, <2>3, <2>4, <2>5, <2>6, OutputPlaced
<1> QED
  BY <1>3, <1>11, <1>12

LEMMA DeliverOutputPlaces == Between /\ DeliverOutput => OInv'
<1> SUFFICES ASSUME Between, DeliverOutput PROVE OInv'
  OBVIOUS
<1>0. PICK v, q, b, n, src, dst, must : /\ v = Out /\ q = value2place[v] /\ b = Binding(v, "Output", q) /\ n = pos
        /\ src = Binding(v, "Input", q) /\ dst = Binding(v, "Output", OutputPlace(output_alias[v])) /\ must = MustDeliver
  OBVIOUS
<1>1. /\ phase = "deliver" /\ phase' = "release" /\ bindings' = Append(bindings, b)
      /\ post_transfers' = IF must THEN Append(post_transfers, [src |-> src, dst |-> dst]) ELSE post_transfers
      /\ UNCHANGED <<graph, output_alias, kid, pos, value2place, remaining, value_on_tier, info, steps>>
  BY <1>0 DEF DeliverOutput, input, order
<1>2. Binds /\ Busy
  BY <1>1 DEF Binds, Busy
<1>3. /\ pos \in (Len(Ins) + 1)..(Len(Ins) + Len(Outs)) /\ DOMAIN bindings = 1..(pos - 1) /\ Len(Ins) \in Nat /\ Len(Outs) \in Nat
      /\ kid \in Kernels(graph) /\ TierNow \in Tier
  BY <1>1, <1>2, BetweenParts, NowTyped DEF Standing
<1>4. n - Len(Ins) \in DOMAIN graph.kernels[kid].outs /\ v = graph.kernels[kid].outs[n - Len(Ins)]
  BY <1>0, <1>2, <1>3, BetweenParts, OutputNow
<1>5. PICK j : j = n - Len(Ins)
  OBVIOUS
<1>6. v \in Values(graph) /\ v \notin graph.states
  BY <1>3, <1>4, <1>5, WrittenHere
<1>7. q \in Place /\ q # NoPlace /\ There(q) /\ SoundAt(v, q) /\ AtTier(q, TierNow)
      /\ \A i \in DOMAIN bindings : bindings[i].place = q => Shares(bindings[i], kid)
  BY <1>0, <1>1, <1>6, BetweenParts DEF TypeOK, PlacesThere, SoundPlaces, OutputGood
<1>8. /\ b.value = v /\ b.role = "Output" /\ b.place = q /\ src.value = v /\ src.place = q
      /\ dst.value = v /\ dst.place = OutputPlace(output_alias[v]) /\ b \in BindingType
  BY <1>0, <1>6, <1>7, BetweenParts, PlacesTyped DEF Binding
<1>9. SoundBinding(b) /\ SoundBinding(src) /\ SoundBinding(dst) /\ There(b.place) /\ There(src.place) /\ There(dst.place)
  BY <1>6, <1>7, <1>8 DEF SoundBinding, SoundAt, OutputPlace, IsChunk, There, NoPlace
<1>10. SoundBinding(b)' /\ SoundBinding(src)' /\ SoundBinding(dst)'
  BY <1>1, <1>9, BetweenParts, SoundBindingStays
<1>11. /\ DOMAIN bindings' = 1..n /\ bindings'[n] = b
       /\ \A i \in DOMAIN bindings' : (i \in DOMAIN bindings /\ bindings'[i] = bindings[i]) \/ i = n
  BY <1>0, <1>1, <1>3, <1>8, BetweenParts
<1>12. /\ TransfersStand
       /\ \A m \in DOMAIN post_transfers' :
            \/ m \in DOMAIN post_transfers /\ post_transfers'[m] = post_transfers[m]
            \/ post_transfers'[m].src = src /\ post_transfers'[m].dst = dst
       /\ must => \E m \in DOMAIN post_transfers' : post_transfers'[m].src = src
  <2>1. CASE must
    <3>1. PICK pt : pt = [src |-> src, dst |-> dst]
      OBVIOUS
    <3>2. post_transfers' = Append(post_transfers, pt) /\ pt.src = src /\ pt.dst = dst
      BY <1>1, <2>1, <3>1
    <3>3. PICK l : l = Len(post_transfers)
      OBVIOUS
    <3>4. /\ DOMAIN post_transfers' = 1..(l + 1) /\ l \in Nat /\ DOMAIN post_transfers = 1..l /\ post_transfers'[l + 1] = pt
          /\ \A m \in 1..l : post_transfers'[m] = post_transfers[m]
      BY <3>2, <3>3, BetweenParts
    <3> QED
      BY <3>2, <3>4 DEF TransfersStand
  <2>2. CASE ~ must
    BY <1>1, <2>2 DEF TransfersStand
  <2> QED
    BY <2>1, <2>2
<1>13. PlacesStay /\ CopiesStand
  BY <1>1 DEF PlacesStay, CopiesStand
<1>14. SoundPlaces'
  <2>1. \A i \in DOMAIN bindings' : (i \in DOMAIN bindings /\ bindings'[i] = bindings[i]) \/ SoundBinding(bindings[i])'
    BY <1>10, <1>11
  <2>2. \A m \in DOMAIN post_transfers' :
            \/ m \in DOMAIN post_transfers /\ post_transfers'[m] = post_transfers[m]
            \/ SoundBinding(post_transfers[m].src)' /\ SoundBinding(post_transfers[m].dst)'
    BY <1>10, <1>12
  <2>3. /\ \A u \in Values(graph) : value2place'[u] = value2place[u]
        /\ \A x \in Values(graph) \X Tier : value_on_tier'[x] = value_on_tier[x]
        /\ \A i \in DOMAIN steps' : i \in DOMAIN steps /\ steps'[i] = steps[i]
    BY <1>1
  <2> QED
    BY <1>1, <2>1, <2>2, <2>3, BetweenParts, SoundStays
<1>15. HeldApart'
  BY <1>1, BetweenParts, HeldSame
<1>16. Homes'
  BY <1>1, <1>13, BetweenParts, HomesStay
<1>17. StepsGood'
  BY <1>1, BetweenParts, StepsStay
<1>18. Ins' = Ins /\ Outs' = Outs /\ TierNow' = TierNow
  BY <1>1 DEF Ins, Outs, Kernel, TierNow, DeviceNow, TierOfDevice
<1>19. BoundAt(n)'
  <2>1. AtTier(q, TierNow)'
    <3>1. PICK t : t = TierNow
      OBVIOUS
    <3>2. AtTier(q, t)'
      BY <1>1, <1>7, <3>1, BetweenParts, AtTierStays
    <3> QED
      BY <1>18, <3>1, <3>2
  <2>2. OnTier(bindings[n], TierNow)'
    BY <1>8, <1>11, <2>1 DEF OnTier
  <2>3. n > Len(Ins) /\ ~ (n <= Len(Ins)) /\ v = Outs[n - Len(Ins)]
    BY <1>0, <1>3, <1>4 DEF Outs, Kernel
  <2>4. output_alias[v] # NoValue /\ q.kind # "Output" => must
    BY <1>0 DEF MustDeliver
  <2>5. must => \E m \in DOMAIN post_transfers' : post_transfers'[m].src.place = q
    BY <1>8, <1>12
  <2>6. BoundOutput(n)'
    BY <1>0, <1>1, <1>8, <1>11, <1>18, <2>3, <2>4, <2>5 DEF BoundOutput, NoValue
  <2> QED
    BY <1>7, <1>8, <1>11, <1>18, <2>2, <2>3, <2>6 DEF BoundAt, NoPlace
<1>20. Apart(bindings, kid)'
  <2>1. Apart(bindings, kid)
    BY <1>2, BetweenParts DEF BoundGood
  <2> QED
    BY <1>1, <1>7, <1>8, <2>1, BetweenParts, ApartAppended DEF Shares
<1>21. BoundGood'
  <2>1. \A i \in DOMAIN bindings' : (i \in DOMAIN bindings /\ bindings'[i] = bindings[i]) \/ BoundAt(i)'
    BY <1>11, <1>19
  <2> QED
    BY <1>1, <1>2, <1>12, <1>13, <1>20, <2>1, BetweenParts, BoundStays
<1>22. OutputGood'
  BY <1>1 DEF OutputGood
<1> QED
  BY <1>14, <1>15, <1>16, <1>17, <1>21, <1>22 DEF OInv

-----------------------------------------------------------------------------
(* The operands of every plan. *)

(* At first only what comes from outside has a place.                        *)
LEMMA InitPlaces == Init /\ Placeable(graph) => OInv
<1> SUFFICES ASSUME Init, Placeable(graph) PROVE OInv
  OBVIOUS
<1>1. /\ graph \in Graphs /\ phase = "pick" /\ bindings = <<>> /\ post_transfers = <<>> /\ chunks = <<>> /\ steps = <<>>
      /\ value2place = [v \in Values(graph) |-> IF v \in graph.inputs THEN InputPlace(v)
                                                ELSE IF v \in graph.states THEN SessionState(v)
                                                ELSE IF v \in graph.initializers THEN Initializer(v)
                                                ELSE NoPlace]
      /\ value_on_tier = [x \in Values(graph) \X Tier |-> [place |-> NoPlace, event |-> 0, stream |-> 0]]
  BY DEF Init
<1>2. DOMAIN chunks = {} /\ DOMAIN bindings = {} /\ DOMAIN post_transfers = {} /\ DOMAIN steps = {}
  BY <1>1
<1>3. ~ Binds
  BY <1>1 DEF Binds
<1>4. ASSUME NEW v \in Values(graph) PROVE SoundAt(v, value2place[v]) /\ Home(v, value2place[v])
  <2>1. PICK p : p = value2place[v]
    OBVIOUS
  <2>2. CASE v \in graph.inputs
    <3>1. p = InputPlace(v) /\ v \notin graph.states
      BY <1>1, <2>1, <2>2 DEF Placeable
    <3> QED
      BY <2>1, <3>1 DEF SoundAt, Home, IsChunk, InputPlace
  <2>3. CASE v \notin graph.inputs /\ v \in graph.states
    <3>1. p = SessionState(v)
      BY <1>1, <2>1, <2>3
    <3> QED
      BY <2>1, <2>3, <3>1 DEF SoundAt, Home, IsChunk, SessionState
  <2>4. CASE v \notin graph.inputs /\ v \notin graph.states /\ v \in graph.initializers
    <3>1. p = Initializer(v)
      BY <1>1, <2>1, <2>4
    <3> QED
      BY <2>1, <2>4, <3>1 DEF SoundAt, Home, IsChunk, Initializer
  <2>5. CASE v \notin graph.inputs /\ v \notin graph.states /\ v \notin graph.initializers
    <3>1. p = NoPlace
      BY <1>1, <2>1, <2>5
    <3> QED
      BY <2>1, <2>5, <3>1 DEF SoundAt, Home, IsChunk, NoPlace
  <2> QED
    BY <2>2, <2>3, <2>4, <2>5
<1>5. \A x \in Values(graph) \X Tier : value_on_tier[x].place = NoPlace
  BY <1>1
<1>6. SoundPlaces
  BY <1>2, <1>4, <1>5 DEF SoundPlaces
<1>7. Homes
  BY <1>4 DEF Homes, Home
<1> QED
  BY <1>1, <1>2, <1>3, <1>6, <1>7 DEF OInv, HeldApart, BoundGood, OutputGood, StepsGood

LEMMA NextPlaces == IInv /\ AInv /\ Placeable(graph) /\ OInv /\ [Next]_vars => OInv'
<1> SUFFICES ASSUME IInv, AInv, Placeable(graph), OInv, [Next]_vars PROVE OInv'
  OBVIOUS
<1>0. Between
  BY NextIInv, NextAInv DEF Between
<1>1. CASE PickKernel
  BY <1>0, <1>1, PickKernelPlaces
<1>2. CASE BindInitializer
  BY <1>0, <1>2, BindInitializerPlaces
<1>3. CASE BindWorkspace
  BY <1>0, <1>3, BindWorkspacePlaces
<1>4. CASE BindStored
  BY <1>0, <1>4, BindStoredPlaces
<1>5. CASE UseCopy
  BY <1>0, <1>5, UseCopyPlaces
<1>6. CASE MakeCopy
  BY <1>0, <1>6, MakeCopyPlaces
<1>7. CASE PlaceInPlace
  BY <1>0, <1>7, PlaceInPlacePlaces
<1>8. CASE PlaceOnOutput
  BY <1>0, <1>8, PlaceOnOutputPlaces
<1>9. CASE PlaceOnChunk
  BY <1>0, <1>9, PlaceOnChunkPlaces
<1>10. CASE DeliverOutput
  BY <1>0, <1>10, DeliverOutputPlaces
<1>11. CASE ReleaseOutput
  BY <1>0, <1>11, ReleaseOutputPlaces
<1>12. CASE EmitStep
  BY <1>0, <1>12, EmitStepPlaces
<1>13. CASE PostTransfer
  BY <1>0, <1>13, PostTransferPlaces
<1>14. CASE ConsumeInput
  BY <1>0, <1>14, ConsumeInputPlaces
<1>15. CASE AdvanceReady
  BY <1>0, <1>15, AdvanceReadyPlaces
<1>16. CASE FinalizeOutput
  BY <1>0, <1>16, FinalizeOutputPlaces
<1>17. CASE FinishPlan
  BY <1>0, <1>17, FinishPlanPlaces
<1>18. CASE UNCHANGED vars
  <2>1. UNCHANGED <<graph, output_alias, phase, kid, pos, bindings, post_transfers, chunks,
                    value2place, remaining, value_on_tier, info, steps>>
    BY <1>18 DEF vars
  <2>2. HeldApart' /\ SoundPlaces' /\ Homes' /\ StepsGood' /\ PlacesStay
    BY <1>0, <2>1, BetweenParts, QuietStep
  <2>3. BoundGood'
    <3>1. CASE Binds
      <4>1. CopiesStand /\ TransfersStand
        BY <2>1 DEF CopiesStand, TransfersStand
      <4>2. Apart(bindings, kid)'
        BY <2>1, <3>1 DEF OInv, BoundGood, Apart, Shares
      <4> QED
        BY <1>0, <2>1, <2>2, <3>1, <4>1, <4>2, BetweenParts, BoundStays
    <3>2. CASE ~ Binds
      BY <2>1, <3>2 DEF BoundGood, Binds
    <3> QED
      BY <3>1, <3>2
  <2>4. OutputGood'
    <3>1. Out' = Out /\ TierNow' = TierNow
      BY <2>1 DEF Out, Outs, Ins, Kernel, TierNow, DeviceNow, TierOfDevice
    <3>2. ASSUME phase = "deliver" PROVE AtTier(value2place[Out], TierNow)'
      <4>1. PICK p, t, v : v = Out /\ p = value2place[v] /\ t = TierNow
        OBVIOUS
      <4>2. AtTier(p, t)
        BY <3>2, <4>1 DEF OInv, OutputGood
      <4>3. AtTier(p, t)'
        BY <2>1, <4>2 DEF AtTier, StateTier, IsChunk
      <4> QED
        BY <2>1, <3>1, <4>1, <4>3
    <3>3. ASSUME phase = "deliver"
          PROVE  /\ value2place[Out] # NoPlace
                 /\ \A i \in DOMAIN bindings : bindings[i].place = value2place[Out] => Shares(bindings[i], kid)
      BY <3>3 DEF OInv, OutputGood
    <3>4. phase = "deliver" =>
            /\ value2place'[Out'] # NoPlace
            /\ \A i \in DOMAIN bindings' : bindings'[i].place = value2place'[Out'] => Shares(bindings[i], kid)'
      BY <2>1, <3>1, <3>3 DEF Shares
    <3> QED
      BY <2>1, <3>2, <3>4 DEF OutputGood, NoPlace
  <2> QED
    BY <2>2, <2>3, <2>4 DEF OInv
<1> QED
  BY <1>1, <1>2, <1>3, <1>4, <1>5, <1>6, <1>7, <1>8, <1>9, <1>10, <1>11, <1>12, <1>13, <1>14, <1>15,
     <1>16, <1>17, <1>18 DEF Next

LEMMA PlacesSuffice == OInv => OperandsWellPlaced
<1> SUFFICES ASSUME OInv PROVE OperandsWellPlaced
  OBVIOUS
<1>1. ChunkHoldsOneValue
  BY DEF OInv, HeldApart, ChunkHoldsOneValue
<1>2. OperandsApart
  BY DEF OInv, StepsGood, StepGood, Apart, Shares, OperandsApart
<1>3. ValuesFit /\ StatesStayPut
  BY DEF OInv, SoundPlaces, SoundBinding, SoundAt, ValuesFit, StatesStayPut
<1>4. OperandsOnTier
  BY DEF OInv, StepsGood, StepGood, OnTier, AtTier, IsChunk, OperandsOnTier
<1> QED
  BY <1>1, <1>2, <1>3, <1>4 DEF OperandsWellPlaced

(* Whatever the graph, as long as its states are kept apart from its inputs, *)
(* initializers and outputs and are read on one device, no workspace is      *)
(* forwarded and a scalar only on the host, and only the last output of a    *)
(* kernel may go unread: every operand of every plan is bound to a place     *)
(* that is large enough, on the kernel's tier, and holds nothing anyone      *)
(* else still needs (bind_kernel, ensure_value_on_tier,                      *)
(* try_in_place_identity).                                                   *)
THEOREM OperandsAlwaysWellPlaced ==
  ASSUME \A g \in Graphs : Placeable(g)
  PROVE  Spec => []OperandsWellPlaced
<1>1. Init => OInv
  BY InitPlaces DEF Init
<1>2. (IInv /\ AInv) /\ OInv /\ [Next]_vars => OInv'
  BY NextPlaces DEF IInv, Given
<1>3. OInv => OperandsWellPlaced
  BY PlacesSuffice
<1> QED
  BY <1>1, <1>2, <1>3, BothHold, PTL DEF Spec
=============================================================================
