------------------------------- MODULE CpuMoves -------------------------------
(***************************************************************************)
(* The CPU kernels that compute or move one element at a time              *)
(* (src/codegen/cpu/translator.rs: build_flat_loop, build_concat,           *)
(* build_split, build_slice, build_expand, build_where, build_gather,       *)
(* build_one_hot, build_resize). Types are those of Layout; a value is the  *)
(* address it was read from, or the addresses of all its operands.          *)
(***************************************************************************)
EXTENDS Layout, Integers, TLC
LOCAL INSTANCE SequencesExt

(* The address an operand has for the n-th element of the output. *)
Offset(ty, dst, n) == IF ty = dst /\ IsContiguous(ty) THEN n ELSE At(ty, IndexOf(dst.dims, n))

(* build_flat_loop_body over the elements lb to ub - 1. *)
FlatLoop(dst, srcs, base, lb, ub) ==
  [n \in lb..(ub - 1) |-> <<base + Offset(dst, dst, n), [i \in DOMAIN srcs |-> Offset(srcs[i], dst, n)]>>]

(* An elementwise kernel: every operand is broadcast to the output. *)
Elementwise(dst, srcs) ==
  MemoryAfter(FlatLoop(dst, [i \in DOMAIN srcs |-> Broadcast(srcs[i], dst.dims)], 0, 0, Size(dst.dims)))

(* The inputs of a concatenation one after the other, each through a view   *)
(* of its part of the output.                                               *)
PartOf(dst, axis, dim) == [dims |-> [dst.dims EXCEPT ![axis] = dim], stride |-> dst.stride]
Before(dst, srcs, axis, k) == FoldLeft(LAMBDA acc, s : acc + s.dims[axis] * dst.stride[axis], 0, SubSeq(srcs, 1, k - 1))
Concat(dst, srcs, axis) ==
  FoldLeft(LAMBDA mem, k :
             LET part == FlatLoop(PartOf(dst, axis, srcs[k].dims[axis]), <<srcs[k]>>,
                                  Before(dst, srcs, axis, k), 0, Size(srcs[k].dims))
             IN Stored([n \in DOMAIN part |-> <<part[n][1], <<k, part[n][2][1]>> >>], mem),
           <<>>, [k \in DOMAIN srcs |-> k])

(* A split runs over the input's memory, and takes the indices from its     *)
(* strides.                                                                 *)
IndexByStride(ty, a) ==
  [i \in DOMAIN ty.dims |-> (a \div (IF ty.stride[i] = 0 THEN 1 ELSE ty.stride[i])) % ty.dims[i]]
Start(dsts, axis, k) == FoldLeft(LAMBDA acc, d : acc + d.dims[axis], 0, SubSeq(dsts, 1, k - 1))
(* The last output that does not start after the index. *)
Chosen(dsts, axis, x) ==
  CHOOSE k \in DOMAIN dsts : Start(dsts, axis, k) <= x /\ \A j \in DOMAIN dsts : Start(dsts, axis, j) <= x => j <= k
Split(dsts, src, axis) ==
  MemoryAfter(
    [a \in Loop(Size(src.dims)) |->
       LET idx == IndexByStride(src, a)
           k == Chosen(dsts, axis, idx[axis])
       IN << <<k, Flat([src.dims EXCEPT ![axis] = dsts[k].dims[axis]],
                           [idx EXCEPT ![axis] = idx[axis] - Start(dsts, axis, k)])>>, a>>])

(* The bounds of a slice: from the end when negative, then within the       *)
(* dimension. Only a step of 1 is supported.                                *)
Clamp(x, lo, hi) == IF x < lo THEN lo ELSE IF x > hi THEN hi ELSE x
(* Mutant of Bound: a negative bound is clamped before it is turned. *)
Bound_ClampFirst(x, dim) == LET y == Clamp(x, -dim, dim - 1) IN IF y < 0 THEN y + dim ELSE y
Bound(x, dim) == Clamp(IF x < 0 THEN x + dim ELSE x, 0, dim)
SliceDims(dims, axis, s, e) == [dims EXCEPT ![axis] = Bound(e, dims[axis]) - Bound(s, dims[axis])]
Slice(dst, src, axis, start) ==
  MemoryAfter(
    [n \in Loop(Size(dst.dims)) |->
       LET idx == IndexOf(dst.dims, n)
       IN <<At(dst, idx), At(src, [idx EXCEPT ![axis] = idx[axis] + Bound(start, src.dims[axis])])>>])

(* Expand and Where store by the element's number. *)
Expand(dst, src) ==
  MemoryAfter([n \in Loop(Size(dst.dims)) |-> <<n, At(Broadcast(src, dst.dims), IndexOf(dst.dims, n))>>])
Where(dst, cond, x, y) ==
  MemoryAfter([n \in Loop(Size(dst.dims)) |->
                 <<n, [i \in 1..3 |-> At(Broadcast(<<cond, x, y>>[i], dst.dims), IndexOf(dst.dims, n))]>>])

(* A gather: loops over the dimensions before the axis, those of the        *)
(* indices and those after, index being what the indices' memory holds.     *)
Indices(dims) == {IndexOf(dims, n) : n \in 0..(Product(dims) - 1)}
Turned(i, dim) == IF i < 0 THEN i + dim ELSE i
Gather(dst, src, ity, index, axis) ==
  LET outer == SubSeq(src.dims, 1, axis - 1)
      inner == SubSeq(src.dims, axis + 1, Len(src.dims))
      at(o, j, i) == o \o <<Turned(index[At(ity, j)], src.dims[axis])>> \o i
  IN MemoryAfter([t \in Indices(outer) \X Indices(ity.dims) \X Indices(inner) |->
                    <<At(dst, t[1] \o t[2] \o t[3]), At(src, at(t[1], t[2], t[3]))>>])

(* One row of depth values for every index: on where the index is. *)
OneHot(n, depth, index) ==
  MemoryAfter([t \in Loop(n) \X Loop(depth) |-> <<t[1] * depth + t[2], t[2] = Turned(index[t[1]], depth)>>])

-----------------------------------------------------------------------------
(* Resize, nearest, half_pixel; a scale is a fraction num/den. The source   *)
(* coordinate (2x + 1) den / (2 num) - 1/2 is kept as a fraction over 2 num.*)

FloorDiv(p, q) == p \div q
CeilDivide(p, q) == -((-p) \div q)
(* round_prefer_floor takes the ceiling of x - 1/2. *)
Nearest(mode, p, q) ==
  CASE mode = "round_prefer_floor" -> CeilDivide(2 * p - q, 2 * q)
    [] mode = "floor" -> FloorDiv(p, q)
    [] mode = "ceil" -> CeilDivide(p, q)
SourceIndex(mode, x, num, den, dim) ==
  Clamp(Nearest(mode, (2 * x + 1) * den - num, 2 * num), 0, dim - 1)

(* Along the axes that are resized, scale being <<num, den>> by axis. *)
Resize(dst, src, mode, scale) ==
  MemoryAfter([n \in Loop(Size(dst.dims)) |->
     LET idx == IndexOf(dst.dims, n)
     IN <<At(dst, idx),
          At(src, [d \in DOMAIN idx |->
                     IF d \in DOMAIN scale
                     THEN SourceIndex(mode, idx[d], scale[d][1], scale[d][2], src.dims[d]) ELSE idx[d]])>>])

-----------------------------------------------------------------------------
(* Small tensors of every shape, dense and transposed, through each kernel *)
(* that moves elements.                                                    *)

CONSTANTS MaxDim,      \* the largest dimension
          Outside,     \* how far a bound of a slice may lie outside
          MaxScale     \* the largest numerator and denominator of a scale

Shapes == UNION {[1..r -> 1..MaxDim] : r \in 1..3}
Small == {d \in Shapes : Len(d) <= 2}

(* Dense, or the transposition of a dense tensor. *)
Rotated(dims) == LET r == Len(dims) IN TransposeType(TypeOf([i \in 1..r |-> dims[(i % r) + 1]]), [i \in 1..r |-> IF i = 1 THEN r ELSE i - 1])
Types(dims) == {TypeOf(dims), Rotated(dims)}

ElementwiseCases ==
  UNION {{[kind |-> "elementwise", dst |-> dst, srcs |-> <<s, t>>] :
            dst \in Types(BroadcastShape(d[1], d[2])), s \in Types(d[1]), t \in Types(d[2])} :
         d \in {p \in Small \X Shapes : Broadcastable(p[1], p[2])}}
WhereCases ==
  UNION {{[kind |-> "where", dst |-> TypeOf(d[1]), srcs |-> <<s, t, u>>] :
            s \in Types(d[2]), t \in Types(d[1]), u \in Types(d[2])} :
         d \in {p \in Shapes \X Small : Broadcastable(p[1], p[2]) /\ BroadcastShape(p[1], p[2]) = p[1]}}
ConcatCases ==
  UNION {{[kind |-> "concat", axis |-> axis, dst |-> dst,
           srcs |-> <<s, TypeOf([dims EXCEPT ![axis] = n]), TypeOf(dims)>>] :
            dst \in Types([dims EXCEPT ![axis] = 2 * @ + n]), s \in Types(dims)} :
         axis \in 1..2, n \in 1..MaxDim, dims \in {d \in Shapes : Len(d) >= 2}}
Bounds(k, dim) == {k, k - dim}
SliceCases ==
  UNION {{[kind |-> "slice", axis |-> axis, src |-> s, from |-> from, to |-> to, cut |-> cut] :
            s \in Types(dims), from \in {0, -dims[axis] - Outside}, to \in {dims[axis], dims[axis] + Outside},
            cut \in UNION {Bounds(k, dims[axis]) : k \in 1..(dims[axis] - 1)}} :
         axis \in 1..2, dims \in {d \in Shapes : Len(d) >= 2}}
GatherCases ==
  UNION {{[kind |-> "gather", axis |-> axis, src |-> s, ity |-> TypeOf(<<2>>), index |-> [a \in 0..1 |-> <<i, j>>[a + 1]]] :
            s \in Types(dims), i \in -dims[axis]..(dims[axis] - 1), j \in -dims[axis]..(dims[axis] - 1)} :
         axis \in 1..2, dims \in {d \in Shapes : Len(d) >= 2}}
OneHotCases ==
  {[kind |-> "onehot", depth |-> depth, index |-> [a \in 0..1 |-> <<i, j>>[a + 1]]] :
     depth \in 1..MaxDim, i \in -MaxDim..MaxDim, j \in -MaxDim..MaxDim}
ResizeCases ==
  {c \in {[kind |-> "resize", in |-> in, num |-> num, den |-> den, mode |-> mode] :
            in \in 1..(2 * MaxDim), num \in 1..MaxScale, den \in 1..MaxScale,
            mode \in {"round_prefer_floor", "floor", "ceil"}} : (c.in * c.num) \div c.den > 0}

Cases ==
  ElementwiseCases \cup WhereCases \cup ConcatCases \cup SliceCases \cup GatherCases \cup OneHotCases \cup ResizeCases

VARIABLES given, out, done
vars == <<given, out, done>>

(* Both halves of a slice, put together again. *)
Half(from, to) == TypeOf(SliceDims(given.src.dims, given.axis, from, to))
Halves ==
  LET parts == <<Half(given.from, given.cut), Half(given.cut, given.to)>>
      mem == <<Slice(parts[1], given.src, given.axis, given.from), Slice(parts[2], given.src, given.axis, given.cut)>>
      cat == Concat(TypeOf(given.src.dims), parts, given.axis)
  IN MemoryAfter([a \in DOMAIN cat |-> <<a, mem[cat[a][1]][cat[a][2]]>>])
(* The inputs of a concatenation, split from its output. *)
Undone ==
  LET cat == Concat(given.dst, given.srcs, given.axis)
      parts == Split(given.srcs, given.dst, given.axis)
  IN MemoryAfter([p \in DOMAIN parts |-> <<p, cat[parts[p]]>>])
GatherDims == SubSeq(given.src.dims, 1, given.axis - 1) \o given.ity.dims \o SubSeq(given.src.dims, given.axis + 1, Len(given.src.dims))
Resized == (given.in * given.num) \div given.den

Init == given \in Cases /\ out = <<>> /\ done = FALSE
Run ==
  /\ ~ done /\ done' = TRUE /\ UNCHANGED given
  /\ out' = CASE given.kind = "elementwise" -> Elementwise(given.dst, given.srcs)
              [] given.kind = "where" -> <<Where(given.dst, given.srcs[1], given.srcs[2], given.srcs[3]), Expand(given.dst, given.srcs[1])>>
              [] given.kind = "concat" -> Undone
              [] given.kind = "slice" -> Halves
              [] given.kind = "gather" -> Gather(TypeOf(GatherDims), given.src, given.ity, given.index, given.axis)
              [] given.kind = "onehot" -> OneHot(2, given.depth, given.index)
              [] OTHER -> Resize(TypeOf(<<2, Resized>>), TypeOf(<<2, given.in>>), given.mode, 2 :> <<given.num, given.den>>)
Spec == Init /\ [][Run]_vars

-----------------------------------------------------------------------------
(* The element of a broadcast operand at an index of the output. *)
Read(ty, idx) ==
  LET lead == Len(idx) - Len(ty.dims)
  IN At(ty, [i \in DOMAIN ty.dims |-> IF ty.dims[i] = 1 THEN 0 ELSE idx[i + lead]])
AllStored(ty, mem) == DOMAIN mem = 0..(StorageElements(ty) - 1)

(* build_flat_loop: an elementwise kernel over transposed and broadcast     *)
(* operands stores every result at its place, from the operands' elements   *)
(* at the same index; Where and Expand likewise.                            *)
BroadcastsRead ==
  /\ done /\ given.kind = "elementwise" =>
       /\ AllStored(given.dst, out)
       /\ \A idx \in Indices(given.dst.dims) : out[At(given.dst, idx)] = [i \in 1..2 |-> Read(given.srcs[i], idx)]
  /\ done /\ given.kind = "where" =>
       /\ AllStored(given.dst, out[1]) /\ AllStored(given.dst, out[2])
       /\ \A idx \in Indices(given.dst.dims) :
            /\ out[1][At(given.dst, idx)] = [i \in 1..3 |-> Read(given.srcs[i], idx)]
            /\ out[2][At(given.dst, idx)] = Read(given.srcs[1], idx)

(* build_split gives back the inputs build_concat put together, whatever    *)
(* the layout of the tensor in between.                                     *)
SplitUndoesConcat ==
  done /\ given.kind = "concat" =>
    /\ DOMAIN out = UNION {{<<k, n>> : n \in 0..(Size(given.srcs[k].dims) - 1)} : k \in DOMAIN given.srcs}
    /\ \A p \in DOMAIN out : out[p] = <<p[1], AddressOf(given.srcs[p[1]], p[2])>>

(* build_slice: the elements before a cut and those after it are the whole, *)
(* counted from either end, with bounds beyond both.                        *)
SlicesTile ==
  done /\ given.kind = "slice" =>
    DOMAIN out = 0..(Size(given.src.dims) - 1) /\
    \A n \in 0..(Size(given.src.dims) - 1) : out[AddressOf(TypeOf(given.src.dims), n)] = AddressOf(given.src, n)

(* build_gather and build_one_hot count a negative index from the end. *)
GatherPicks ==
  /\ done /\ given.kind = "gather" =>
       LET dst == TypeOf(GatherDims)
       IN /\ AllStored(dst, out)
          /\ \A idx \in Indices(dst.dims) :
               out[At(dst, idx)] = At(given.src, [idx EXCEPT ![given.axis] = given.index[@] % given.src.dims[given.axis]])
  /\ done /\ given.kind = "onehot" =>
       out = [a \in 0..(2 * given.depth - 1) |->
                LET i == given.index[a \div given.depth] IN i \in -given.depth..(given.depth - 1) /\ a % given.depth = i % given.depth]

(* build_resize takes the cell nearest to the middle of the result, the     *)
(* lower of two; or the last one before it, or the first one after it.      *)
Distance(i, c) == LET d == 2 * given.num * i - ((2 * c + 1) * given.den - given.num) IN IF d < 0 THEN -d ELSE d
IsNearest(i, c) == \A j \in 0..(given.in - 1) : Distance(i, c) < Distance(j, c) \/ (Distance(i, c) = Distance(j, c) /\ i <= j)
Below(i, c) == 2 * given.num * i <= (2 * c + 1) * given.den - given.num
Above(i, c) == 2 * given.num * i >= (2 * c + 1) * given.den - given.num
ResizeTakesNearest ==
  done /\ given.kind = "resize" =>
    \A r \in 0..1, c \in 0..(Resized - 1) :
      LET i == out[At(TypeOf(<<2, Resized>>), <<r, c>>)] - At(TypeOf(<<2, given.in>>), <<r, 0>>)
      IN /\ i \in 0..(given.in - 1)
         /\ given.mode = "round_prefer_floor" => IsNearest(i, c)
         /\ given.mode = "floor" => (Below(i, c) \/ i = 0) /\ \A j \in (i + 1)..(given.in - 1) : ~ Below(j, c)
         /\ given.mode = "ceil" => (Above(i, c) \/ i = given.in - 1) /\ \A j \in 0..(i - 1) : ~ Above(j, c)
==============================================================================
