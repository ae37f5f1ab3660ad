-------------------------------- MODULE Rows ---------------------------------
(***************************************************************************)
(* Operators along one axis: Softmax, LayerNormalization, RMSNormalization,*)
(* the reduction of a matrix's rows, and Rope, as the loops of the CPU     *)
(* code (src/codegen/cpu/translator.rs) and as the CUDA kernels, whose     *)
(* threads reduce a row together, compute them.                            *)
(*                                                                         *)
(* Data are functions from addresses to whole numbers. exp is the power of *)
(* two; a quotient is the pair of its terms; sqrt, epsilon, and the type   *)
(* of the elements are left out.                                           *)
(***************************************************************************)
EXTENDS Integers, Sequences, TLC
LOCAL INSTANCE Functions
LOCAL INSTANCE SequencesExt
LOCAL INSTANCE FiniteSetsExt
L == INSTANCE Layout

CONSTANTS Warp, MaxBlock   (* the lanes of a warp, 32, and DEFAULT_BLOCK_SIZE, 256 *)

Top == 4  (* no exponent is above it *)
Lowest == -1000
Combine(kind, a, b) == IF kind = "max" THEN Max({a, b}) ELSE a + b
Unit(kind) == IF kind = "max" THEN Lowest ELSE 0
Over(kind, f, ixs) == FoldLeft(LAMBDA acc, i : Combine(kind, acc, f[i]), Unit(kind), ixs)
Upto(n) == [i \in 1..n |-> i - 1]

-----------------------------------------------------------------------------
(* A block of threads that reduces a row: reduce.cuh, softmax.cuh,         *)
(* layer_norm.cuh and rms_norm.cuh do it alike.                            *)

ceil_pow2(n) == IF n = 0 THEN 1 ELSE CHOOSE p \in {2 ^ e : e \in 0..n} : n <= p /\ p < 2 * n
BlockSize(dim) == Min({MaxBlock, ceil_pow2(dim)})
(* s = hi, hi / 2, ... while it is at least lo. *)
Halves(hi, lo) == SelectSeq([e \in 1..9 |-> hi \div 2 ^ (e - 1)], LAMBDA s : lo <= s)

(* shfl_down: a lane past the warp gives the caller's own value, a thread   *)
(* that does not exist anything.                                            *)
Shuffled(kind, acc, s) ==
  [t \in DOMAIN acc |-> Combine(kind, acc[t], IF (t % Warp) + s >= Warp THEN acc[t]
                                              ELSE IF t + s \in DOMAIN acc THEN acc[t + s] ELSE 100)]
(* Shared memory, between two barriers. *)
Folded(kind, buf, s) == [t \in DOMAIN buf |-> IF t < s THEN Combine(kind, buf[t], buf[t + s]) ELSE buf[t]]
(* Mutant of BlockReduce: the sums of the last two warps are not added. *)
BlockReduce_Early(kind, acc, block) ==
  LET warps == FoldLeft(LAMBDA a, s : Shuffled(kind, a, s), acc, Halves(Warp \div 2, 1))
  IN FoldLeft(LAMBDA b, s : Folded(kind, b, s), warps, Halves(block \div 2, Warp + 1))[0]
BlockReduce(kind, acc, block) ==
  LET warps == FoldLeft(LAMBDA a, s : Shuffled(kind, a, s), acc, Halves(Warp \div 2, 1))
  IN FoldLeft(LAMBDA b, s : Folded(kind, b, s), warps, Halves(block \div 2, Warp))[0]

(* What thread t of a block takes of a row f of dim elements: every         *)
(* BLOCK_SIZE-th.                                                           *)
Share(dim, block, t) == SelectSeq(Upto(dim), LAMBDA i : i % block = t)
RowReduce(kind, f, dim) ==
  LET block == BlockSize(dim)
  IN BlockReduce(kind, [t \in 0..(block - 1) |-> Over(kind, f, Share(dim, block, t))], block)

(* reduce_matrix_kernel: one block a row. *)
ReduceMatrix(kind, data, rows, col) ==
  [r \in 0..(rows - 1) |-> RowReduce(kind, [i \in 0..(col - 1) |-> data[r * col + i]], col)]

-----------------------------------------------------------------------------
(* Softmax *)

(* The quotients of a line: at[i] is the address of its i-th element. *)
Line(data, at, top, sum) == [i \in DOMAIN at |-> <<2 ^ (Top + data[at[i]] - top), sum>>]

(* get_offset of build_softmax_outer_loop *)
SoftmaxAt(inner, middle, o, m, i) == o * (middle * inner) + i * middle + m
(* build_softmax: out gives each address its quotient. *)
CpuSoftmax(data, dims, axis) ==
  LET outer == L!Product(SubSeq(dims, 1, axis - 1))
      inner == dims[axis]
      middle == L!Size(dims) \div (outer * inner)
      At(o, m) == [i \in 0..(inner - 1) |-> SoftmaxAt(inner, middle, o, m, i)]
      Done(o, m) ==
        LET at == At(o, m)
            top == Over("max", [i \in DOMAIN at |-> data[at[i]]], Upto(inner))
            sum == Over("sum", [i \in DOMAIN at |-> 2 ^ (Top + data[at[i]] - top)], Upto(inner))
        IN Line(data, at, top, sum)
      steps == (0..(outer - 1)) \X (0..(middle - 1)) \X (0..(inner - 1))
  IN [p \in DOMAIN data |->
        LET at == CHOOSE s \in steps : SoftmaxAt(inner, middle, s[1], s[2], s[3]) = p
        IN Done(at[1], at[2])[at[3]]]

(* The softmax kernel, a block for each line; STRIDE is the axis's, which   *)
(* is zero for an axis of one element.                                      *)
GpuSoftmax(data, dims, axis) ==
  LET dim == dims[axis]
      stride == L!CalcStride(dims)[axis]
      At(g) == [i \in 0..(dim - 1) |-> (g \div stride) * dim * stride + (g % stride) + i * stride]
      Block(g) ==
        LET at == At(g)
            row == [i \in DOMAIN at |-> data[at[i]]]
            top == RowReduce("max", row, dim)
        IN Line(data, at, top, RowReduce("sum", [i \in DOMAIN at |-> 2 ^ (Top + row[i] - top)], dim))
      blocks == 0..(L!Size(dims) \div dim - 1)
  IN [p \in DOMAIN data |->
        LET g == CHOOSE g \in blocks : \E i \in 0..(dim - 1) : At(g)[i] = p
        IN Block(g)[CHOOSE i \in 0..(dim - 1) : At(g)[i] = p]]

-----------------------------------------------------------------------------
(* Normalisations of the last axis. Element j of a row is n * x - sum over  *)
(* the root of the sum of their squares, times scale[j], plus bias[j]; of   *)
(* an RMS norm, x over the root of the sum of squares.                      *)

build_layer_norm(data, dim) ==
  LET Row(p) == [i \in 0..(dim - 1) |-> data[(p \div dim) * dim + i]]
      Sum(p) == Over("sum", Row(p), Upto(dim))
      Spread(p) == Over("sum", [i \in 0..(dim - 1) |-> (dim * Row(p)[i] - Sum(p)) * (dim * Row(p)[i] - Sum(p))], Upto(dim))
  IN [p \in DOMAIN data |-> [num |-> dim * data[p] - Sum(p), spread |-> Spread(p), scale |-> p % dim]]
build_rms_norm(data, dim) ==
  LET Row(p) == [i \in 0..(dim - 1) |-> data[(p \div dim) * dim + i]]
      Spread(p) == Over("sum", [i \in 0..(dim - 1) |-> Row(p)[i] * Row(p)[i]], Upto(dim))
  IN [p \in DOMAIN data |-> [num |-> data[p], spread |-> Spread(p), scale |-> p % dim]]

(* layer_norm: block b keeps its row in the threads' registers, element     *)
(* i * BLOCK_SIZE + tid in the i-th of thread tid.                          *)
GpuLayerNorm(data, dim) ==
  LET Row(b) == [i \in 0..(dim - 1) |-> data[b * dim + i]]
      Mean(b) == RowReduce("sum", Row(b), dim)
      Off(b) == [i \in 0..(dim - 1) |-> dim * Row(b)[i] - Mean(b)]
      Spread(b) == RowReduce("sum", [i \in 0..(dim - 1) |-> Off(b)[i] * Off(b)[i]], dim)
  IN [p \in DOMAIN data |-> [num |-> Off(p \div dim)[p % dim], spread |-> Spread(p \div dim), scale |-> p % dim]]
GpuRmsNorm(data, dim) ==
  LET Row(b) == [i \in 0..(dim - 1) |-> data[b * dim + i]]
      Spread(b) == RowReduce("sum", [i \in 0..(dim - 1) |-> Row(b)[i] * Row(b)[i]], dim)
  IN [p \in DOMAIN data |-> [num |-> Row(p \div dim)[p % dim], spread |-> Spread(p \div dim), scale |-> p % dim]]

-----------------------------------------------------------------------------
(* Rope: x has rows of 2 * half elements, seq of them for each of the outer *)
(* dimensions; position[s] selects the row of the tables.                   *)

(* rope_table, whose entries j and j + half are of one angle. *)
Cos(half, p, j) == 7 * p + 3 * (j % half) + 1
Sin(half, p, j) == 5 * p - 2 * (j % half) + 2

build_rope(data, half, seq, position) ==
  [a \in DOMAIN data |->
     LET row == a \div (2 * half)
         j == a % (2 * half)
         pos == position[row % seq]
     IN IF j < half THEN data[a] * Cos(half, pos, j) - data[a + half] * Sin(half, pos, j)
        ELSE data[a] * Cos(half, pos, j) + data[a - half] * Sin(half, pos, j)]

(* The attention kernels rotate a key as they read it, c_pair and sign      *)
(* telling the halves apart.                                                *)
Inside(data, half, seq, position) ==
  [a \in DOMAIN data |->
     LET c == a % (2 * half)
         pair == IF c < half THEN a + half ELSE a - half
         sign == IF c < half THEN -1 ELSE 1
         pos == position[(a \div (2 * half)) % seq]
     IN data[a] * Cos(half, pos, c) + sign * data[pair] * Sin(half, pos, c)]

(* GraphBuilder::rope, the graph of slices, Neg, Concat, Mul and Add:       *)
(* x * cos + concat(-high, low) * sin.                                      *)
Composed(data, half, seq, position) ==
  LET width == 2 * half
      Part(r, from) == [j \in 1..half |-> data[r * width + from + j - 1]]
      rotated == [r \in {a \div width : a \in DOMAIN data} |-> [j \in 1..half |-> - Part(r, half)[j]] \o Part(r, 0)]
  IN [a \in DOMAIN data |->
        data[a] * Cos(half, position[(a \div width) % seq], a % width)
        + rotated[a \div width][(a % width) + 1] * Sin(half, position[(a \div width) % seq], a % width)]

-----------------------------------------------------------------------------
(* Softmax over any axis of small tensors, norms and reductions of rows       *)
(* longer than a block has threads, and Rope with any positions.              *)

CONSTANTS MaxDim, MaxRow,  \* the largest dimension of a tensor, of a row
          Seeds            \* each gives other data

Data(n, seed) == [p \in 0..(n - 1) |-> ((p * p + seed * p) \div 2 + seed) % 4]
Shapes == UNION {[1..r -> 1..MaxDim] : r \in 1..3}
Softmaxes ==
  UNION {{[kind |-> k, dims |-> d, axis |-> a, seed |-> s] : k \in {"softmax", "gpusoftmax"}, a \in DOMAIN d, s \in Seeds} :
         d \in Shapes \cup {<<n>> : n \in 1..MaxRow}}
RowCases ==
  [kind : {"norm", "rms", "gpunorm", "gpurms", "gpusum", "gpumax"}, rows : 1..2, dim : 1..MaxRow, seed : Seeds]
Ropes ==
  UNION {{[kind |-> k, outer |-> o, seq |-> n, half |-> h, position |-> pos, seed |-> s] :
            k \in {"rope", "inside"}, o \in 1..2, h \in 1..2, s \in Seeds, pos \in [0..(n - 1) -> 0..2]} : n \in 1..3}
(* A block has at least a warp, and an axis more than one element.            *)
Launches(c) ==
  CASE c.kind = "gpusoftmax" -> c.dims[c.axis] > 1 /\ BlockSize(c.dims[c.axis]) >= Warp
    [] c.kind \in {"gpunorm", "gpurms", "gpusum", "gpumax"} -> BlockSize(c.dim) >= Warp
    [] OTHER -> TRUE

VARIABLES given, out, done
vars == <<given, out, done>>
In == CASE given.kind \in {"softmax", "gpusoftmax"} -> Data(L!Size(given.dims), given.seed)
        [] given.kind \in {"rope", "inside"} -> Data(given.outer * given.seq * 2 * given.half, given.seed)
        [] OTHER -> Data(given.rows * given.dim, given.seed)

Init == given \in {c \in Softmaxes \cup RowCases \cup Ropes : Launches(c)} /\ out = <<>> /\ done = FALSE
Run ==
  /\ ~ done /\ done' = TRUE /\ UNCHANGED given
  /\ out' = (CASE given.kind = "softmax" -> CpuSoftmax(In, given.dims, given.axis)
               [] given.kind = "gpusoftmax" -> GpuSoftmax(In, given.dims, given.axis)
               [] given.kind = "norm" -> build_layer_norm(In, given.dim)
               [] given.kind = "rms" -> build_rms_norm(In, given.dim)
               [] given.kind = "gpunorm" -> GpuLayerNorm(In, given.dim)
               [] given.kind = "gpurms" -> GpuRmsNorm(In, given.dim)
               [] given.kind = "gpusum" -> ReduceMatrix("sum", In, given.rows, given.dim)
               [] given.kind = "gpumax" -> ReduceMatrix("max", In, given.rows, given.dim)
               [] given.kind = "rope" -> build_rope(In, given.half, given.seq, given.position)
               [] OTHER -> Inside(In, given.half, given.seq, given.position)) @@ <<>>
Spec == Init /\ [][Run]_vars

-----------------------------------------------------------------------------
SumOf(S, f) == FoldFunctionOnSet(LAMBDA a, b : a + b, 0, f, S)
(* Softmax, on both targets, divides by the sum over the elements whose      *)
(* indices differ along the axis only.                                       *)
SoftmaxOfLine ==
  (done /\ given.kind \in {"softmax", "gpusoftmax"}) =>
    \A p \in DOMAIN In :
      LET Index(q) == L!IndexOf(given.dims, q)
          line == {q \in DOMAIN In : \A a \in DOMAIN given.dims \ {given.axis} : Index(q)[a] = Index(p)[a]}
      IN out[p][1] * SumOf(line, [q \in DOMAIN In |-> 2 ^ In[q]]) = 2 ^ In[p] * out[p][2]

(* A norm gives every element its row's statistics and its column's scale,   *)
(* the variance being the mean of squares less the square of the mean.       *)
NormsOfRow ==
  (done /\ given.kind \in {"norm", "rms", "gpunorm", "gpurms"}) =>
    \A p \in DOMAIN In :
      LET row == {q \in DOMAIN In : q \div given.dim = p \div given.dim}
          sum == SumOf(row, In)
          squares == SumOf(row, [q \in DOMAIN In |-> In[q] * In[q]])
      IN /\ out[p].scale = p - (p \div given.dim) * given.dim
         /\ IF given.kind \in {"norm", "gpunorm"}
            THEN out[p].num = given.dim * In[p] - sum /\ out[p].spread = given.dim * (given.dim * squares - sum * sum)
            ELSE out[p].num = In[p] /\ out[p].spread = squares

(* A block of threads, of several warps and with more elements than threads, *)
(* counts each element of its row once.                                      *)
ReducedOnce ==
  (done /\ given.kind \in {"gpusum", "gpumax"}) =>
    \A r \in 0..(given.rows - 1) :
      LET row == {q \in DOMAIN In : q \div given.dim = r}
      IN IF given.kind = "gpusum" THEN out[r] = SumOf(row, In)
         ELSE (\A q \in row : In[q] <= out[r]) /\ (\E q \in row : In[q] = out[r])

(* The fused Rope, and the rotation inside attention, compute what the graph *)
(* of slices and products computes.                                          *)
RopeIsComposed == (done /\ given.kind \in {"rope", "inside"}) => out = Composed(In, given.half, given.seq, given.position)
==============================================================================
