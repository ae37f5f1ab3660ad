-------------------------------- MODULE Layout --------------------------------
(***************************************************************************)
(* Dimensions and strides (src/tensor/types.rs). A resolved type is        *)
(* [dims, stride], two sequences of naturals; the element type is left     *)
(* out. A dimension of 1 has stride 0, and so has one that is broadcast.   *)
(*                                                                         *)
(* At the end, what the generated CPU code of a kernel leaves in memory. A *)
(* kernel is a loop nest whose body stores one value: [i \in Iterations |-> *)
(* <<address, value>>], the iterations tuples of loop counters. A value is *)
(* what it was computed from: an address that was read, or a set of        *)
(* products.                                                               *)
(***************************************************************************)
EXTENDS Naturals, Sequences, FiniteSets
LOCAL INSTANCE TLC
LOCAL INSTANCE SequencesExt
LOCAL INSTANCE FiniteSetsExt

Product(dims) == FoldLeft(LAMBDA acc, d : acc * d, 1, dims)

(* A scalar has no dimensions, and size 0. *)
Size(dims) == IF dims = <<>> THEN 0 ELSE Product(dims)
ScalarLike(dims) == Size(dims) <= 1 /\ (dims = <<>> \/ Size(dims) = 1)

(* The product of the dimensions after the i-th. *)
Inner(dims, i) == Product(SubSeq(dims, i + 1, Len(dims)))

CalcStride(dims) == [i \in DOMAIN dims |-> IF dims[i] = 1 THEN 0 ELSE Inner(dims, i)]

TypeOf(dims) == [dims |-> dims, stride |-> CalcStride(dims)]
Dense(ty) == TypeOf(ty.dims)

(* A per-tensor type seen as one of the target's dimensions. *)
Broadcast(ty, target) ==
  LET lead == Len(target) - Len(ty.dims)
  IN [dims |-> target, stride |-> [i \in DOMAIN target |-> IF i > lead THEN ty.stride[i - lead] ELSE 0]]

(* perm maps a dimension of the result to one of ty. *)
Permuted(s, perm) == [i \in DOMAIN perm |-> s[perm[i]]]
TransposeType(ty, perm) == [dims |-> Permuted(ty.dims, perm), stride |-> Permuted(ty.stride, perm)]

IsContiguous(ty) == \A i \in DOMAIN ty.dims : ty.stride[i] = 0 \/ ty.stride[i] = Inner(ty.dims, i)

(* What has to be allocated for a tensor of the type. *)
StorageElements(ty) ==
  CASE Size(ty.dims) = 1 \/ ty.dims = <<>> -> 1
    [] \E i \in DOMAIN ty.dims : ty.dims[i] = 0 -> 0
    [] OTHER -> Max({ty.dims[i] * ty.stride[i] : i \in DOMAIN ty.dims})

-----------------------------------------------------------------------------
(* broadcast_shape: numpy's rule. *)

BothDims(lhs, rhs) ==
  LET n == IF Len(lhs) < Len(rhs) THEN Len(rhs) ELSE Len(lhs)
      at(d, i) == IF i > n - Len(d) THEN d[i - (n - Len(d))] ELSE 1
  IN [i \in 1..n |-> <<at(lhs, i), at(rhs, i)>>]
Broadcastable(lhs, rhs) ==
  LET both == BothDims(lhs, rhs) IN \A i \in DOMAIN both : both[i][1] = both[i][2] \/ 1 \in {both[i][1], both[i][2]}
BroadcastShape(lhs, rhs) ==
  LET both == BothDims(lhs, rhs) IN [i \in DOMAIN both |-> IF both[i][1] = 1 THEN both[i][2] ELSE both[i][1]]

-----------------------------------------------------------------------------
(* try_reshape: the type that shows the same elements under other         *)
(* dimensions, a set of one, or none. od and os are the dimensions and     *)
(* strides not consumed yet, td the target's, all without ones, last       *)
(* first; out is the strides found, last first.                            *)

RECURSIVE Grow(_, _, _, _, _, _, _)
(* The inner loop: cur elements of the source, want of the target, n       *)
(* source dimensions and k target ones taken.                              *)
Grow(od, os, td, n, k, cur, want) ==
  IF cur % want = 0 THEN {[n |-> n, k |-> k, cur |-> cur, want |-> want]}
  ELSE IF want < cur THEN Grow(od, os, td, n, k + 1, cur, want * td[k + 1])
  ELSE IF os[n] * od[n] = os[n + 1] THEN Grow(od, os, td, n + 1, k, cur * od[n + 1], want)
  ELSE {}

RECURSIVE Consume(_, _, _, _)
Drop(s, n) == SubSeq(s, n + 1, Len(s))
Consume(od, os, td, out) ==
  IF td = <<>> THEN {out}
  ELSE UNION {
    LET left == r.cur \div r.want
        rest == IF left = 1 THEN <<>> ELSE <<left>>
        restStride == IF left = 1 THEN <<>> ELSE <<r.want * os[1]>>
    IN Consume(rest \o Drop(od, r.n), restStride \o Drop(os, r.n), Drop(td, r.k), out \o [x \in 1..r.k |-> os[1]])
    : r \in Grow(od, os, td, 1, 1, od[1], td[1]) }

NotOnes(dims) == SelectSeq([i \in DOMAIN dims |-> i], LAMBDA i : dims[i] # 1)
TryReshape(ty, target) ==
  IF ScalarLike(ty.dims) /\ ScalarLike(target) THEN {TypeOf(target)}
  ELSE IF Size(ty.dims) # Size(target) THEN {}
  ELSE LET src == Reverse(NotOnes(ty.dims))
           dst == Reverse(NotOnes(target))
       IN { [dims |-> target,
             stride |-> [i \in DOMAIN target |->
                           IF target[i] = 1 THEN 0 ELSE found[CHOOSE x \in DOMAIN dst : dst[x] = i]]] :
            found \in Consume([x \in DOMAIN src |-> ty.dims[src[x]]], [x \in DOMAIN src |-> ty.stride[src[x]]],
                              [x \in DOMAIN dst |-> target[dst[x]]], <<>>) }

-----------------------------------------------------------------------------
(* The reference: the address of an element. *)

(* The index of the n-th element in row-major order, and back. *)
IndexOf(dims, n) == [i \in DOMAIN dims |-> (n \div Inner(dims, i)) % dims[i]]
Flat(dims, idx) == FoldLeft(LAMBDA acc, i : acc * dims[i] + idx[i], 0, [i \in DOMAIN dims |-> i])
At(ty, idx) == FoldLeft(LAMBDA acc, i : acc + idx[i] * ty.stride[i], 0, [i \in DOMAIN idx |-> i])
AddressOf(ty, n) == At(ty, IndexOf(ty.dims, n))

-----------------------------------------------------------------------------
(* The memory of a kernel. *)

(* A counted loop (init_counted_loop, finalize_counted_loop): the bound is  *)
(* compared after the body, so it must not be 0.                            *)
Loop(bound) == 0..(bound - 1)

(* Every iteration has its own address. *)
WrittenOnce(writes) == Cardinality({writes[i][1] : i \in DOMAIN writes}) = Cardinality(DOMAIN writes)
Written(writes) == {writes[i][1] : i \in DOMAIN writes}

(* The memory after the writes: address -> value. *)
Stored(writes, mem) ==
  LET pairs == {writes[i] : i \in DOMAIN writes}
  IN [a \in {p[1] : p \in pairs} |-> (CHOOSE p \in pairs : p[1] = a)[2]] @@ mem
MemoryAfter(writes) == Stored(writes, <<>>)
=============================================================================
