------------------------------- MODULE Matrices -------------------------------
(***************************************************************************)
(* Matrix products and reductions on both targets                          *)
(* (src/codegen/cpu/translator.rs: build_gemm, build_batched_gemm,          *)
(* build_dequant_matmul, build_matrix_reduce, ...; codegen/cpu/blas.rs;     *)
(* codegen/cpu/kernels; codegen/cuda.rs; transform/lower/decomposition.rs). *)
(*                                                                         *)
(* A product is [m, n, k, ta, tb, la, lb, c, beta, short, batch]: ta and tb *)
(* are the attributes of the operator, la and lb say that the operand's     *)
(* memory is the transpose of its dimensions, c is "none", "dense" or       *)
(* "turned", short that elements are bf16. A cell of the result is its      *)
(* terms, each two values read, and what is added to them.                  *)
(***************************************************************************)
EXTENDS Layout, Integers, FiniteSets, TLC
LOCAL INSTANCE SequencesExt

-----------------------------------------------------------------------------
(* Memory *)

Outside == <<"outside", 0>>
Nothing == <<"nothing", 0>>
Memory(tag, size) == [p \in 0..(size - 1) |-> <<tag, p>>]
Buffer(mem, at) == [mem |-> mem, at |-> at]
Get(buf, p) == IF buf.at + p \in DOMAIN buf.mem THEN buf.mem[buf.at + p] ELSE Outside

Matrix(rows, cols, turned) ==
  IF turned THEN TransposeType(TypeOf(<<cols, rows>>), <<2, 1>>) ELSE TypeOf(<<rows, cols>>)
AType(x) == IF x.ta THEN Matrix(x.k, x.m, x.la) ELSE Matrix(x.m, x.k, x.la)
BType(x) == IF x.tb THEN Matrix(x.n, x.k, x.lb) ELSE Matrix(x.k, x.n, x.lb)
CType(x) == Matrix(x.m, x.n, x.c = "turned")
AMem(x) == Memory("a", x.batch * x.m * x.k)
BMem(x) == Memory("b", x.batch * x.k * x.n)

Cell(terms, plus) == [terms |-> terms, plus |-> plus]

-----------------------------------------------------------------------------
(* CPU *)

(* call_gemm: row-major; a leading dimension is that of the stored matrix.  *)
Blas(a, ta, b, tb, c, beta, m, n, k) ==
  LET lda == IF ta THEN m ELSE k
      ldb == IF tb THEN k ELSE n
      ldc == n
  IN [p \in 0..(m * n - 1) |->
        LET i == p \div n j == p % n
        IN Cell([h \in 0..(k - 1) |-> <<Get(a, IF ta THEN h * lda + i ELSE i * lda + h),
                                        Get(b, IF tb THEN j * ldb + h ELSE h * ldb + j)>>],
                IF beta THEN Get(c, i * ldc + j) ELSE Nothing)]

(* bf16_buf_to_f32: count elements of src to the scratch memory at base. *)
Widened(ws, src, base, count) ==
  [p \in DOMAIN ws |-> IF p >= base /\ p < base + count THEN Get(src, p - base) ELSE ws[p]]

(* The scratch memory a bf16 product is given (src/schedule/kernel.rs). *)
Scratch(x) == Memory("scratch", x.batch * (x.m * x.k + x.k * x.n + x.m * x.n))

(* In bf16, both operands and c are widened to f32 behind one another. *)
(* Mutant of BlasShort: c is put over b. *)
BlasShort_Over(a, ta, b, tb, c, beta, m, n, k, scratch) ==
  LET ws1 == Widened(scratch, a, 0, m * k)
      ws2 == Widened(ws1, b, m * k, k * n)
      ws3 == IF beta THEN Widened(ws2, c, m * k, m * n) ELSE ws2
  IN Blas(Buffer(ws3, 0), ta, Buffer(ws3, m * k), tb, Buffer(ws3, m * k), beta, m, n, k)
BlasShort(a, ta, b, tb, c, beta, m, n, k, scratch) ==
  LET ws1 == Widened(scratch, a, 0, m * k)
      ws2 == Widened(ws1, b, m * k, k * n)
      ws3 == IF beta THEN Widened(ws2, c, m * k + k * n, m * n) ELSE ws2
  IN Blas(Buffer(ws3, 0), ta, Buffer(ws3, m * k), tb, Buffer(ws3, m * k + k * n), beta, m, n, k)

(* build_gemm: c is copied to the output element by element; a matrix whose *)
(* rows are nearer than its columns is read as the transpose.               *)
Flipped(ty) == ty.stride[1] < ty.stride[2]
CpuGemm(x) ==
  LET a == AType(x) b == BType(x) k == a.dims[2]
      ta == x.ta # Flipped(a)
      tb == x.tb # Flipped(b)
      beta == x.beta /\ x.c # "none"
      out == Buffer([p \in 0..(x.m * x.n - 1) |-> <<"c", AddressOf(CType(x), p)>>], 0)
  IN IF x.short
     THEN BlasShort(Buffer(AMem(x), 0), ta, Buffer(BMem(x), 0), tb, out, beta, x.m, x.n, k, Scratch(x))
     ELSE Blas(Buffer(AMem(x), 0), ta, Buffer(BMem(x), 0), tb, out, beta, x.m, x.n, k)

(* build_batched_gemm: operands are contiguous, one product per batch.      *)
(* Everything is widened first in bf16.                                     *)
CpuBatched(x) ==
  LET sa == x.m * x.k
      sb == x.k * x.n
      ws == Widened(Widened(Scratch(x), Buffer(AMem(x), 0), 0, x.batch * sa), Buffer(BMem(x), 0), x.batch * sa, x.batch * sb)
      a == IF x.short THEN Buffer(ws, 0) ELSE Buffer(AMem(x), 0)
      b == IF x.short THEN Buffer(ws, x.batch * sa) ELSE Buffer(BMem(x), 0)
  IN [g \in 0..(x.batch - 1) |->
        Blas([a EXCEPT !.at = @ + g * sa], x.ta, [b EXCEPT !.at = @ + g * sb], x.tb, Buffer(<<>>, 0), FALSE,
             x.m, x.n, x.k)]

-----------------------------------------------------------------------------
(* CUDA *)

(* cublasSgemm: column-major. *)
Cublas(a, ta, lda, b, tb, ldb, c, beta, ldc, m, n, k) ==
  [p \in {i + j * ldc : i \in 0..(m - 1), j \in 0..(n - 1)} |->
     LET i == p % ldc j == p \div ldc
     IN Cell([h \in 0..(k - 1) |-> <<Get(b, IF tb THEN j + h * ldb ELSE h + j * ldb),
                                     Get(a, IF ta THEN h + i * lda ELSE i + h * lda)>>],
             IF beta THEN Get(c, p) ELSE Nothing)]

(* The kernel of Gemm and BatchedGemm: row-major AB is column-major t(B)t(A), *)
(* so the operands are swapped. c is copied as memory; without it the       *)
(* output is what was there, and beta applies all the same.                 *)
Gpu(x, g) ==
  LET ta == x.ta # ~ IsContiguous(AType(x))
      tb == x.tb # ~ IsContiguous(BType(x))
      lda == IF tb THEN x.k ELSE x.n
      ldb == IF ta THEN x.m ELSE x.k
      out == Memory(IF x.c = "none" THEN "garbage" ELSE "c", x.m * x.n)
  IN Cublas(Buffer(BMem(x), g * x.n * x.k), tb, lda, Buffer(AMem(x), g * x.k * x.m), ta, ldb,
            Buffer(out, 0), x.beta, x.n, x.n, x.m, x.k)

-----------------------------------------------------------------------------
(* Quantised weights *)

(* build_dequantize_linear: an element and its scale's, flat. *)
DequantizeLinear(dims, axis) ==
  LET inner == Inner(dims, axis)
  IN [p \in 0..(Product(dims) - 1) |-> <<p, IF dims[axis] = 1 THEN 0 ELSE (p \div inner) % dims[axis]>>]

(* build_dequant_matmul for more than one row: the weights [n, k] are       *)
(* dequantised into the scratch memory behind the (widened) activations.    *)
DequantMatMul(m, n, k, short) ==
  LET act == Buffer(Memory("a", m * k), 0)
      weights == [p \in 0..(n * k - 1) |-> <<"w", DequantizeLinear(<<n, k>>, 1)[p]>>]
      ws0 == Memory("scratch", m * k + n * k + m * n)
      ws == Widened(IF short THEN Widened(ws0, act, 0, m * k) ELSE ws0, Buffer(weights, 0), m * k, n * k)
  IN Blas(IF short THEN Buffer(ws, 0) ELSE act, FALSE, Buffer(ws, m * k), TRUE, Buffer(<<>>, 0), FALSE, m, n, k)

(* mynn_dynquant_i8 of rows of numbers, Levels positive ones: a scale of    *)
(* the row's largest over Levels, and rounding half away from 0.            *)
Magnitude(v) == IF v < 0 THEN - v ELSE v
Largest(row) == FoldLeft(LAMBDA acc, v : IF Magnitude(v) > acc THEN Magnitude(v) ELSE acc, 0, row)
RoundDiv(num, den) == LET half == (2 * Magnitude(num) + den) \div (2 * den) IN IF num < 0 THEN - half ELSE half
Clamp(q, levels) == IF q > levels THEN levels ELSE IF q < - levels THEN - levels ELSE q
DynQuant(rows, levels) ==
  [r \in DOMAIN rows |->
     LET top == Largest(rows[r])
     IN [top |-> top, q |-> [j \in DOMAIN rows[r] |-> IF top = 0 THEN 0 ELSE Clamp(RoundDiv(rows[r][j] * levels, top), levels)]]]

(* mynn_qgemv_i8i8: the weights' rows are [k, top, q] as DynQuant gives them *)
(* too. The dot product is of integers, scaled once.                        *)
Dot(a, b) == FoldLeft(LAMBDA acc, i : acc + a[i] * b[i], 0, [i \in DOMAIN a |-> i])
QuantizedMatMul(lhs, rhs) ==
  [p \in 0..(Len(lhs) * Len(rhs) - 1) |->
     LET i == (p \div Len(rhs)) + 1 j == (p % Len(rhs)) + 1
     IN [acc |-> Dot(lhs[i].q, rhs[j].q), by |-> lhs[i].top * rhs[j].top]]

-----------------------------------------------------------------------------
(* Reductions *)

(* ReduceDecomposition: the axes are moved last, and the tensor is taken    *)
(* for a matrix of a row per element of the output (shape.rs) ...           *)
Kept(dims, axes) == SelectSeq([i \in DOMAIN dims |-> i], LAMBDA i : \A a \in DOMAIN axes : axes[a] # i)
OutDims(dims, axes, keepdims) ==
  IF keepdims THEN [i \in DOMAIN dims |-> IF \E a \in DOMAIN axes : axes[a] = i THEN 1 ELSE dims[i]]
  ELSE Permuted(dims, Kept(dims, axes))
ReducePerm(dims, axes) == Kept(dims, axes) \o axes
(* ... build_matrix_reduce: what each row reads. Of no rows, nothing can be *)
(* computed: the columns are the elements divided by the rows.              *)
MatrixReduce(ty, rows) ==
  [r \in 0..(rows - 1) |-> [j \in 0..(Size(ty.dims) \div rows - 1) |-> AddressOf(ty, r * (Size(ty.dims) \div rows) + j)]]
Reduce(dims, axes, keepdims) ==
  LET rows == Size(OutDims(dims, axes, keepdims))
  IN IF rows = 0 THEN <<>> ELSE MatrixReduce(TransposeType(TypeOf(dims), ReducePerm(dims, axes)), rows)

(* GlobalAvgPoolDecomposition: a row per image and channel. *)
GlobalAveragePool(dims) == MatrixReduce(TypeOf(dims), dims[1] * dims[2])

-----------------------------------------------------------------------------
(* Every product of small matrices, in every layout and transposition, on   *)
(* both targets; quantised products; reductions of small tensors.           *)

CONSTANTS MaxDim,      \* the largest dimension
          Levels,      \* the largest quantised magnitude
          Sample       \* the magnitudes that are quantised

Product1(kind, batch, s, ta, tb, la, lb, c, beta, short) ==
  [kind |-> kind, batch |-> batch, m |-> s[1], n |-> s[2], k |-> s[3], ta |-> ta, tb |-> tb, la |-> la, lb |-> lb,
   c |-> c, beta |-> beta, short |-> short]
Shapes3 == (1..MaxDim) \X (1..MaxDim) \X (1..MaxDim)
GemmCases ==
  {Product1(kind, 1, s, ta, tb, la, lb, c, beta, short) :
     kind \in {"cpu", "gpu"}, s \in Shapes3, ta \in BOOLEAN, tb \in BOOLEAN, la \in BOOLEAN, lb \in BOOLEAN,
     c \in {"none", "dense", "turned"}, beta \in BOOLEAN, short \in BOOLEAN}
BatchCases ==
  {Product1(kind, batch, s, ta, tb, FALSE, FALSE, "none", FALSE, short) :
     kind \in {"cpubatch", "gpubatch"}, batch \in 1..2, s \in Shapes3, ta \in BOOLEAN, tb \in BOOLEAN, short \in BOOLEAN}
DequantCases == {[kind |-> "dequant", m |-> s[1], n |-> s[2], k |-> s[3], short |-> short] : s \in Shapes3, short \in BOOLEAN}
Dims == UNION {[1..r -> 1..MaxDim] : r \in 1..3}
LinearCases == UNION {{[kind |-> "linear", dims |-> d, axis |-> a] : a \in DOMAIN d} : d \in Dims}
Signed == Sample \cup {- v : v \in Sample}
QuantCases == {[kind |-> "quant", lhs |-> <<<<v[1], v[2]>>, <<v[3], v[4]>>>>, rhs |-> <<<<w[1], w[2]>>>>] :
                 v \in [1..4 -> Signed], w \in [1..2 -> Signed]}
(* Axes in any order, each once. *)
AxesOf(r) == UNION {{a \in [1..n -> 1..r] : \A i, j \in 1..n : a[i] = a[j] => i = j} : n \in 1..r}
ReduceCases ==
  UNION {{[kind |-> "reduce", dims |-> d, axes |-> a, keepdims |-> keep] :
            a \in AxesOf(Len(d)), keep \in BOOLEAN} : d \in Dims}
PoolCases == {[kind |-> "pool", dims |-> <<n, s[1], s[2], s[3]>>] : n \in 1..2, s \in Shapes3}
Cases == GemmCases \cup BatchCases \cup DequantCases \cup LinearCases \cup QuantCases \cup ReduceCases \cup PoolCases

VARIABLES given, out, done
vars == <<given, out, done>>

Init == given \in Cases /\ out = <<>> /\ done = FALSE
Run ==
  /\ ~ done /\ done' = TRUE /\ UNCHANGED given
  /\ out' = CASE given.kind = "cpu" -> CpuGemm(given)
              [] given.kind = "gpu" -> Gpu(given, 0)
              [] given.kind = "cpubatch" -> CpuBatched(given)
              [] given.kind = "gpubatch" -> [g \in 0..(given.batch - 1) |-> Gpu(given, g)]
              [] given.kind = "dequant" -> DequantMatMul(given.m, given.n, given.k, given.short)
              [] given.kind = "linear" -> DequantizeLinear(given.dims, given.axis)
              [] given.kind = "quant" -> QuantizedMatMul(DynQuant(given.lhs, Levels), DynQuant(given.rhs, Levels))
              [] given.kind = "pool" -> GlobalAveragePool(given.dims)
              [] OTHER -> Reduce(given.dims, given.axes, given.keepdims)
Spec == Init /\ [][Run]_vars

-----------------------------------------------------------------------------
(* The product by the operator's attributes and the operands' dimensions.   *)

Element(tag, ty, at, i, j) == <<tag, at + i * ty.stride[1] + j * ty.stride[2]>>
Term(g, i, j, h) ==
  <<IF given.ta THEN Element("a", AType(given), g * given.m * given.k, h, i) ELSE Element("a", AType(given), g * given.m * given.k, i, h),
    IF given.tb THEN Element("b", BType(given), g * given.k * given.n, j, h) ELSE Element("b", BType(given), g * given.k * given.n, h, j)>>
Added(i, j) ==
  IF given.beta /\ given.c # "none" THEN Element("c", CType(given), 0, i, j) ELSE Nothing
Expected(g) ==
  [p \in 0..(given.m * given.n - 1) |-> Cell([h \in 0..(given.k - 1) |-> Term(g, p \div given.n, p % given.n, h)], Added(p \div given.n, p % given.n))]

(* build_gemm with any layout of the operands and of c, f32 or bf16,        *)
(* computes the product and adds c. Left out is a first operand that is     *)
(* transposed by the attribute and not square: CpuTransposes.               *)
CpuProduct == done /\ given.kind = "cpu" /\ (given.ta => given.k = given.m) => out = Expected(0)

(* The swapped operands of cuBLAS give the same product. Left out is a c    *)
(* in another layout (GpuBias) and a beta without c (GpuNoBias).            *)
GpuProduct ==
  done /\ given.kind = "gpu" /\ (given.c = "turned" => IsContiguous(CType(given))) /\ (given.c = "none" => ~ given.beta) => out = Expected(0)

(* Each batch's product has its own operands, on both targets.              *)
BatchesApart == done /\ given.kind \in {"cpubatch", "gpubatch"} => out = [g \in 0..(given.batch - 1) |-> Expected(g)]

(* A product with int8 weights: every weight once, with its row's scale,    *)
(* whatever shares the scratch memory.                                      *)
DequantIsProduct ==
  done /\ given.kind = "dequant" =>
    out = [p \in 0..(given.m * given.n - 1) |->
             LET i == p \div given.n j == p % given.n
             IN Cell([h \in 0..(given.k - 1) |-> <<<<"a", i * given.k + h>>, <<"w", <<j * given.k + h, j>>>>>>], Nothing)]

(* DequantizeLinear takes the scale of the element's coordinate.            *)
ScaleOfAxis ==
  done /\ given.kind = "linear" => \A p \in DOMAIN out : out[p] = <<p, IndexOf(given.dims, p)[given.axis]>>

(* A product of rows quantised on the fly is near the product of the        *)
(* numbers: within one level of each factor, by the rows' own scales.       *)
QuantizedIsNear ==
  done /\ given.kind = "quant" =>
    \A p \in DOMAIN out :
      LET l == given.lhs[(p \div Len(given.rhs)) + 1] r == given.rhs[(p % Len(given.rhs)) + 1]
      IN Magnitude(Levels * Levels * Dot(l, r) - out[p].acc * out[p].by) <= Len(l) * Levels * Largest(l) * Largest(r)

(* A cell of a reduction has the elements that agree with it on the axes    *)
(* kept. Left out is the reduction of every axis without keepdims, which    *)
(* ReduceDecomposition divides by 0.                                        *)
OutputCell(idx) ==
  LET kept == Kept(given.dims, given.axes) IN Flat(Permuted(given.dims, kept), Permuted(idx, kept))
ReduceGroups ==
  /\ done /\ given.kind = "reduce" /\ (given.keepdims \/ Len(given.axes) < Len(given.dims)) =>
       \A r \in DOMAIN out : \A j \in DOMAIN out[r] : OutputCell(IndexOf(given.dims, out[r][j])) = r
  /\ done /\ given.kind = "reduce" /\ (given.keepdims \/ Len(given.axes) < Len(given.dims)) =>
       Cardinality({<<r, out[r][j]>> : r \in DOMAIN out, j \in DOMAIN out[0]}) = Size(given.dims)
  /\ done /\ given.kind = "pool" =>
       \A r \in DOMAIN out : \A j \in DOMAIN out[r] :
         r = IndexOf(given.dims, out[r][j])[1] * given.dims[2] + IndexOf(given.dims, out[r][j])[2]

-----------------------------------------------------------------------------
(* What does not hold.                                                      *)

(* A transposed first operand: k is taken from the second stored dimension. *)
CpuTransposes == done /\ given.kind = "cpu" => out = Expected(0)

(* A Gemm without c adds nothing, on CUDA too.                              *)
GpuNoBias ==
  done /\ given.kind = "gpu" /\ given.c = "none" => \A p \in DOMAIN out : out[p].plus = Nothing

(* On CUDA c is added element by element, whatever its layout.              *)
GpuBias == done /\ given.kind = "gpu" /\ given.c # "none" => out = Expected(0)
==============================================================================
