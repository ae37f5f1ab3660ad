------------------------------ MODULE OpMeaning -------------------------------
(***************************************************************************)
(* What the operators of a graph compute (src/graph/operator.rs and        *)
(* src/transform/shape.rs), on tensors [dt, dims, data] over the field of  *)
(* the integers modulo Prime. Arithmetic is exact there, a quotient is the *)
(* product with an inverse, and tanh, exp and sqrt are functions with no   *)
(* law of their own: two graphs that compute the same here do so by the    *)
(* laws of arithmetic alone. NInf and PInf, outside the field, are the     *)
(* infinities.                                                             *)
(***************************************************************************)
EXTENDS Layout, Integers, TLC
LOCAL INSTANCE SequencesExt
LOCAL INSTANCE FiniteSetsExt

CONSTANT Prime
ASSUME PrimeAssumption == Prime \in {7, 11, 13, 17} (* odd, so that 2 has an inverse *)

F32 == 1  I64 == 2  Bool == 3
NInf == -1
PInf == -2
Negative(a) == a = NInf \/ a > Prime \div 2

Plus(a, b) == IF NInf \in {a, b} THEN NInf ELSE IF PInf \in {a, b} THEN PInf ELSE (a + b) % Prime
Times(a, b) == IF 0 \in {a, b} THEN 0 ELSE IF a < 0 \/ b < 0 THEN NInf ELSE (a * b) % Prime
Minus(a) == IF a = NInf THEN PInf ELSE IF a = PInf THEN NInf ELSE (Prime - a) % Prime
Inv(a) == IF a <= 0 THEN 0 ELSE CHOOSE b \in 1..(Prime - 1) : (a * b) % Prime = 1
Tanh(a) == (a * a * a + 5 * a + 2) % Prime
Sqrt(a) == (a * a * a * a + 3 * a + 3) % Prime
Exp(a) == IF a = NInf THEN 0 ELSE (2 * a * a + a + 1) % Prime
ReLU(a) == IF Negative(a) THEN 0 ELSE a
Truncate(a) == IF a = NInf THEN 0 ELSE (a * a + 4) % Prime   (* f32 to i64 *)

Half == Inv(2)
CubeFactor == 3      (* 0.044715 *)
RootFactor == 4      (* sqrt(2 / pi) *)

Tensor(dt, dims, data) == [dt |-> dt, dims |-> dims, data |-> data @@ <<>>]
ScalarOf(a) == Tensor(F32, <<>>, <<a>>)
Total(f, n) == FoldLeft(LAMBDA acc, i : Plus(acc, f[i]), 0, [i \in 1..n |-> i])

(* The element at a (0-based) index, broadcast. *)
Elem(x, idx) ==
  LET lead == Len(idx) - Len(x.dims)
  IN x.data[1 + Flat(x.dims, [i \in DOMAIN x.dims |-> IF x.dims[i] = 1 THEN 0 ELSE idx[lead + i]])]
Made(dt, dims, F(_)) == Tensor(dt, dims, [k \in 1..Product(dims) |-> F(IndexOf(dims, k - 1))])
Each(x, F(_)) == [x EXCEPT !.data = [k \in DOMAIN @ |-> F(@[k])] @@ <<>>]
Pairwise(x, y, F(_, _)) == Made(x.dt, BroadcastShape(x.dims, y.dims), LAMBDA i : F(Elem(x, i), Elem(y, i)))

Lead(s) == SubSeq(s, 1, Len(s) - 2)
Rows(x) == x.dims[Len(x.dims) - 1]
Cols(x) == x.dims[Len(x.dims)]
BatchOf(x) == Lead(x.dims)
Set(idx, at, i) == [idx EXCEPT ![at] = i]

Transposed(x, perm) ==
  LET p == IF perm = <<>> THEN Reverse([i \in DOMAIN x.dims |-> i]) ELSE perm
  IN Made(x.dt, Permuted(x.dims, p), LAMBDA i : Elem(x, [d \in DOMAIN p |-> i[CHOOSE e \in DOMAIN p : p[e] = d]]))
Swapped(x) ==
  LET n == Len(x.dims) IN Transposed(x, [i \in 1..n |-> IF i = n THEN n - 1 ELSE IF i = n - 1 THEN n ELSE i])

MatMul(x, y) ==
  Made(x.dt, BroadcastShape(BatchOf(x), BatchOf(y)) \o <<Rows(x), Cols(y)>>,
       LAMBDA i : LET m == i[Len(i) - 1] n == i[Len(i)]
                  IN Total([k \in 1..Cols(x) |-> Times(Elem(x, Lead(i) \o <<m, k - 1>>), Elem(y, Lead(i) \o <<k - 1, n>>))],
                           Cols(x)))
(* alpha, beta, trans_a, trans_b *)
Gemm(a, xs) ==
  LET ab == MatMul(IF a[3] = 1 THEN Swapped(xs[1]) ELSE xs[1], IF a[4] = 1 THEN Swapped(xs[2]) ELSE xs[2])
      scaled == Each(ab, LAMBDA v : Times(a[1], v))
  IN IF Len(xs) < 3 THEN scaled
     ELSE Made(F32, scaled.dims, LAMBDA i : Plus(Elem(scaled, i), Times(a[2], Elem(xs[3], i))))

(* A row along the last axis, for every index. *)
RowOf(x, idx) == [k \in 1..Cols(x) |-> Elem(x, Set(idx, Len(idx), k - 1))]
MeanOf(f) == Times(Total(f, Len(f)), Inv(Len(f)))
Mean(x, axis, keepdims) ==
  LET dims == [i \in DOMAIN x.dims |-> IF i = axis THEN 1 ELSE x.dims[i]]
      kept == Made(x.dt, dims, LAMBDA i : MeanOf([k \in 1..x.dims[axis] |-> Elem(x, Set(i, axis, k - 1))]))
  IN IF keepdims = 1 THEN kept ELSE [kept EXCEPT !.dims = RemoveAt(@, axis)]
Softmax(x) ==
  Made(x.dt, x.dims, LAMBDA i : LET e == [k \in 1..Cols(x) |-> Exp(RowOf(x, i)[k])]
                                IN Times(Exp(Elem(x, i)), Inv(Total(e, Len(e)))))
LayerNorm(x, scale, bias, eps) ==
  Made(x.dt, x.dims,
       LAMBDA i : LET mean == MeanOf(RowOf(x, i))
                      var == MeanOf([k \in 1..Cols(x) |-> LET d == Plus(RowOf(x, i)[k], Minus(mean)) IN Times(d, d)])
                      normal == Times(Plus(Elem(x, i), Minus(mean)), Inv(Sqrt(Plus(var, eps))))
                  IN Plus(Times(normal, Elem(scale, i)), Elem(bias, i)))
RMSNorm(x, scale, eps) ==
  Made(x.dt, x.dims,
       LAMBDA i : LET sq == MeanOf([k \in 1..Cols(x) |-> Times(RowOf(x, i)[k], RowOf(x, i)[k])])
                  IN Times(Times(Elem(x, i), Inv(Sqrt(Plus(sq, eps)))), Elem(scale, i)))
GeLU(a) ==
  LET cube == Times(a, Times(a, a))
  IN Times(Times(Half, a), Plus(1, Tanh(Times(RootFactor, Plus(a, Times(CubeFactor, cube))))))

(* scale, is_causal; the keys are the rows of k. *)
Attention(a, xs) ==
  LET qk == Each(MatMul(xs[1], Swapped(xs[2])), LAMBDA v : Times(a[1], v))
      masked == IF Len(xs) < 4 THEN qk ELSE Pairwise(qk, xs[4], Plus)
      causal == IF a[2] = 0 THEN masked
                ELSE Made(F32, masked.dims, LAMBDA i : IF i[Len(i)] > i[Len(i) - 1] THEN NInf ELSE Elem(masked, i))
  IN MatMul(Softmax(causal), xs[3])

(* A convolution whose kernel is 1 x 1: x is [batch, channel, place]. *)
Conv(a, xs) ==
  LET sum == MatMul([xs[2] EXCEPT !.dims = SubSeq(@, 1, 2)], xs[1])
      biased == IF Len(xs) < 3 THEN sum ELSE Made(F32, sum.dims, LAMBDA i : Plus(Elem(sum, i), Elem(xs[3], <<i[2]>>)))
  IN IF a[1] = 1 THEN Each(biased, ReLU) ELSE biased
BatchNorm(a, xs) ==
  LET at(t, i) == Elem(t, <<i[2]>>)
  IN Made(F32, xs[1].dims,
          LAMBDA i : LET m == Times(at(xs[2], i), Inv(Sqrt(Plus(at(xs[5], i), a[1]))))
                     IN Plus(Times(Plus(Elem(xs[1], i), Minus(at(xs[4], i))), m), at(xs[3], i)))

(* x[axis] times scale[axis]; q is a tensor of whole numbers. *)
Dequantized(q, scale, axis) == Made(F32, q.dims, LAMBDA i : Times(Elem(q, i), Elem(scale, <<i[axis]>>)))

PowerOf(x, e) == IF e = 2 THEN Times(x, x) ELSE IF e = 3 THEN Times(x, Times(x, x)) ELSE Truncate(Plus(x, e))

(* What a node computes from what its inputs hold. *)
Compute(n, xs) ==
  CASE n.op \in {"Identity", "Output"} -> xs[1]
    [] n.op = "Cast" -> IF n.a[1] = xs[1].dt THEN xs[1] ELSE [Each(xs[1], Truncate) EXCEPT !.dt = n.a[1]]
    [] n.op = "ReLU" -> Each(xs[1], ReLU)
    [] n.op = "Tanh" -> Each(xs[1], Tanh)
    [] n.op = "Sqrt" -> Each(xs[1], Sqrt)
    [] n.op = "Reciprocal" -> Each(xs[1], Inv)
    [] n.op = "GeLU" -> Each(xs[1], GeLU)
    [] n.op = "Add" -> Pairwise(xs[1], xs[2], Plus)
    [] n.op = "Sub" -> Pairwise(xs[1], xs[2], LAMBDA v, w : Plus(v, Minus(w)))
    [] n.op = "Mul" -> Pairwise(xs[1], xs[2], Times)
    [] n.op = "Div" -> Pairwise(xs[1], xs[2], LAMBDA v, w : Times(v, Inv(w)))
    [] n.op = "Pow" -> Pairwise(xs[1], xs[2], PowerOf)
    [] n.op = "ReduceMean" -> Mean(xs[1], n.a[1], n.a[2])
    [] n.op = "Softmax" -> Softmax(xs[1])
    [] n.op = "LayerNormalization" -> LayerNorm(xs[1], xs[2], xs[3], n.a[1])
    [] n.op = "RMSNormalization" -> RMSNorm(xs[1], xs[2], n.a[1])
    [] n.op = "Transpose" -> Transposed(xs[1], n.a)
    [] n.op \in {"Reshape", "Squeeze", "Unsqueeze", "Flatten"} -> [xs[1] EXCEPT !.dims = n.a]
    [] n.op \in {"Expand", "Broadcast"} -> Made(xs[1].dt, n.a, LAMBDA i : Elem(xs[1], i))
    [] n.op = "MatMul" -> MatMul(xs[1], xs[2])
    [] n.op = "BatchedGemm" -> MatMul(xs[1], xs[2])
    [] n.op = "Gemm" -> Gemm(n.a, xs)
    [] n.op = "Attention" -> Attention(n.a, xs)
    [] n.op = "Conv" -> Conv(n.a, xs)
    [] n.op = "BatchNormalization" -> BatchNorm(n.a, xs)
    [] n.op = "DequantizeLinear" -> Dequantized(xs[1], xs[2], n.a[1])
    [] n.op = "DequantMatMul" -> MatMul(xs[1], Swapped(Dequantized(xs[2], xs[3], n.a[1])))
    [] n.op = "IsNaN" -> [Each(xs[1], LAMBDA v : 0) EXCEPT !.dt = Bool]
    [] n.op = "Where" -> Made(xs[2].dt, BroadcastShape(xs[1].dims, BroadcastShape(xs[2].dims, xs[3].dims)),
                              LAMBDA i : IF Elem(xs[1], i) = 1 THEN Elem(xs[2], i) ELSE Elem(xs[3], i))
===============================================================================
