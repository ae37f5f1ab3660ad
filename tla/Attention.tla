------------------------------ MODULE Attention ------------------------------
(***************************************************************************)
(* Attention over a key-value cache and the stores into it, as the CPU     *)
(* code (src/codegen/cpu/translator.rs) and the CUDA kernels (attention,   *)
(* attention_tc, attention_decode, kvcache_update) compute them.           *)
(*                                                                         *)
(* Only rows are told apart: a query row, a cache row, a mask element. The *)
(* score of a query and a key is a number made of their rows, exp is the   *)
(* power of two, and an output row is the weight of each row of V, with    *)
(* their sum, both multiplied by 2^Span so that they are whole numbers.    *)
(***************************************************************************)
EXTENDS Integers, Sequences, FiniteSets, TLC
LOCAL INSTANCE SequencesExt
LOCAL INSTANCE FiniteSetsExt
L == INSTANCE Layout

CONSTANTS TileQ, TileK   (* Br and Bc of the tensor-core kernel, 64 and 32 *)

NegInf == -1000
Span == 5
Total(s) == FoldLeft(LAMBDA acc, n : acc + n, 0, s)
MinOf(a, b) == IF a <= b THEN a ELSE b

(* A call x of the operator has b batches, hq and hkv heads, sq queries, a *)
(* cache of sk rows a head, `active' of them in use; mask is the dims of   *)
(* the additive mask, <<>> if there is none, and fill says what is in it;  *)
(* ring is [sink, window, start]. tpr is head_size / 8, short is bf16.     *)
Outputs(x) == 0..(x.b * x.hq * x.sq - 1)
CacheRows(x) == 0..(x.b * x.hkv * x.sk - 1)

(* A score, -1 to 4 with a mask. A key read with another row's scale gives *)
(* a score no row has.                                                     *)
Dot(q, k, scale) == IF scale = k THEN (q + 3 * k) % 4 ELSE 4
(* What a mask holds, and what a read outside of it may give. *)
Fill(x, n) ==
  CASE n >= L!Size(x.mask) -> 1
    [] x.fill = "soft" -> - (n % 2)
    [] x.fill = "last" -> IF n % 3 = 2 THEN NegInf ELSE 0
    [] x.fill = "first" -> IF n % 3 = 0 THEN NegInf ELSE 0
    [] OTHER -> NegInf
Plus(score, m) == IF m = NegInf THEN NegInf ELSE score + m

-----------------------------------------------------------------------------
(* The streaming softmax: m is the largest score so far, s the sum of the  *)
(* exponentials and w the output before division, by row of V.             *)

Fresh(x) == [m |-> NegInf, s |-> 0, w |-> [v \in CacheRows(x) |-> 0], nan |-> FALSE]

(* The keys of one step, one or a tile. exp(-inf - -inf) is no number,     *)
(* unless the kernel guards against it.                                    *)
Absorb(st, keys, guarded) ==
  LET top == Max({st.m} \cup {keys[n].score : n \in DOMAIN keys})
      Carry(w) == IF st.m = NegInf THEN 0 ELSE w \div 2 ^ (top - st.m)
      e == [n \in DOMAIN keys |-> IF keys[n].score = NegInf THEN 0 ELSE 2 ^ (Span + keys[n].score - top)]
  IN [m |-> top, s |-> Carry(st.s) + Total(e),
      w |-> [v \in DOMAIN st.w |->
               Carry(st.w[v]) + Total([n \in DOMAIN keys |-> IF keys[n].row = v THEN e[n] ELSE 0])],
      nan |-> st.nan \/ (top = NegInf /\ ~guarded)]

(* o / s: a sum of zero is no number, or, guarded, a row of zeros. *)
Divided(st, guarded) ==
  [s |-> IF st.s = 0 THEN 1 ELSE st.s, w |-> st.w, nan |-> st.nan \/ (st.s = 0 /\ ~guarded)]

(* The rows [0, n) as tiles of `size', one after the other. *)
Tiles(n, size) ==
  [t \in 1..((n + size - 1) \div size) |-> [i \in 1..MinOf(size, n - (t - 1) * size) |-> (t - 1) * size + i - 1]]
Streamed(x, tiles, keys, guarded) ==
  Divided(FoldLeft(LAMBDA st, tile : Absorb(st, [i \in DOMAIN tile |-> keys[tile[i]]], guarded), Fresh(x), tiles),
          guarded)

-----------------------------------------------------------------------------
(* build_attention *)

KvHead(x, bh) == (bh \div x.hq) * x.hkv + ((bh % x.hq) \div (x.hq \div x.hkv))

(* Mutant of CpuBound: a query does not see its own key. *)
CpuBound_Behind(x, i) ==
  MinOf(IF x.causal THEN MinOf((x.active - x.sq) + i, x.active) ELSE x.active, x.sk)
(* past_len + sq + 1 keys at most, when causal. *)
CpuBound(x, i) ==
  MinOf(IF x.causal THEN MinOf((x.active - x.sq) + i + 1, x.active) ELSE x.active, x.sk)

(* mask[b, h, sq, k] by the strides of the broadcast mask. A bf16 mask is  *)
(* addressed by elements and loaded as an f32, two of them at once.        *)
CpuMask(x, bh, i, r) ==
  IF x.mask = <<>> THEN 0
  ELSE LET ty == L!Broadcast(L!TypeOf(x.mask), <<x.b, x.hq, x.sq, x.sk>>)
           at == (bh \div x.hq) * ty.stride[1] + (bh % x.hq) * ty.stride[2] + i * ty.stride[3] + r * ty.stride[4]
       IN IF x.short THEN 1 ELSE Fill(x, at)

CpuAttention(x) ==
  [n \in Outputs(x) |->
     LET bh == n \div x.sq
         i == n % x.sq
         head == KvHead(x, bh) * x.sk
         keys == [r \in 0..(x.sk - 1) |->
                    [row |-> head + r,
                     score |-> Plus(Dot(bh * x.sq + i, head + r, head + r), CpuMask(x, bh, i, r))]]
     IN Streamed(x, Tiles(CpuBound(x, i), 1), keys, FALSE)]

-----------------------------------------------------------------------------
(* The CUDA kernels *)

ring_phys_index(rank, ring) ==
  IF ring.window = 0 \/ rank < ring.sink THEN rank
  ELSE ring.sink + ((ring.start + rank - ring.sink) % ring.window)

(* The rows of a mask are taken to be dense, and its leading dimensions to *)
(* be one, or one for each batch and head.                                 *)
GpuMask(x, bh, i, r) ==
  IF x.mask = <<>> THEN 0
  ELSE LET d == x.mask
           rows == IF Len(d) >= 2 THEN d[Len(d) - 1] ELSE 1
           cols == d[Len(d)]
           outer == L!Product(SubSeq(d, 1, Len(d) - 2))
           row_stride == IF rows > 1 THEN cols ELSE 0
           outer_stride == IF outer > 1 THEN rows * cols ELSE 0
       IN Fill(x, bh * outer_stride + i * row_stride + r)

(* The position of the first query. *)
QPosOffset(x) == IF x.sq = x.sk THEN 0 ELSE x.active - x.sq

(* The ranks of the cache, as the kernels read them; -inf if masked out.   *)
GpuKeys(x, bh, i, masked) ==
  [r \in 0..(x.sk - 1) |->
     LET row == KvHead(x, bh) * x.sk + ring_phys_index(r, x.ring)
         score == Dot(bh * x.sq + i, row, row)
     IN [row |-> row,
         score |-> IF ~masked THEN score
                   ELSE IF x.causal /\ QPosOffset(x) + i < r THEN NegInf
                   ELSE Plus(score, GpuMask(x, bh, i, r))]]

ceil_pow2(n) == IF n = 0 THEN 1 ELSE CHOOSE p \in {2 ^ e : e \in 0..n} : n <= p /\ p < 2 * n
Clamp(n, hi) == IF n < 1 THEN 1 ELSE MinOf(n, hi)
Bc(x) == Clamp(ceil_pow2(x.sk \div x.tpr), 256 \div x.tpr)

(* How many tiles of keys the tensor-core kernel visits for the block that *)
(* query i is in: none above its last query when causal.                   *)
KvBlocks(x, i) ==
  LET blocks == (x.active + TileK - 1) \div TileK
      first == (i \div TileQ) * TileQ
  IN IF x.causal THEN MinOf(blocks, (QPosOffset(x) + first + MinOf(TileQ, x.sq - first) - 1) \div TileK + 1)
     ELSE blocks

Decodes(x) == x.sq = 1 /\ x.sk > 1
TensorCores(x) == ~Decodes(x) /\ x.short

GpuAttention(x) ==
  [n \in Outputs(x) |->
     LET bh == n \div x.sq
         i == n % x.sq
     IN CASE Decodes(x) -> Streamed(x, Tiles(x.active, 1), GpuKeys(x, bh, i, FALSE), FALSE)
          [] TensorCores(x) ->
               Streamed(x, SubSeq(Tiles(x.active, TileK), 1, KvBlocks(x, i)), GpuKeys(x, bh, i, TRUE), TRUE)
          [] OTHER -> Streamed(x, Tiles(x.active, Bc(x)), GpuKeys(x, bh, i, TRUE), FALSE)]

-----------------------------------------------------------------------------
(* The stores: x has b batches of hkv heads, a cache of sk rows of hd      *)
(* elements a head, `new' rows to store from row `offset' on. The result   *)
(* gives each element of the cache the element of `new' it takes.          *)

Old == -1
(* The elements written, as pairs <<destination, source>>. *)
Stored(x, pairs) ==
  [c \in 0..(x.b * x.hkv * x.sk * x.hd - 1) |->
     LET from == {p[2] : p \in {q \in pairs : q[1] = c}} IN IF from = {} THEN Old ELSE CHOOSE s \in from : TRUE]

(* A copy into the cache seen, from the offset, with the dimensions of what *)
(* is stored and strides of its own.                                        *)
build_kv_cache_update(x) ==
  LET new == <<x.b, x.hkv, x.new, x.hd>>
      ty == [dims |-> new, stride |-> L!CalcStride(<<x.b, x.hkv, x.sk, x.hd>>)]
      At(ix, s) == ix[1] * s[1] + ix[2] * s[2] + ix[3] * s[3] + ix[4] * s[4]
  IN Stored(x, {<<x.offset * x.hd + At(L!IndexOf(new, n), ty.stride), n>> : n \in 0..(L!Product(new) - 1)})

(* build_quantizing_kv_cache_update: row by row. *)
CpuRowStore(x) ==
  Stored(x, {LET bh == o \div x.new
                 t == o % x.new
             IN <<(bh * x.sk + x.offset + t) * x.hd + d, (bh * x.new + t) * x.hd + d>> :
             o \in 0..(x.b * x.hkv * x.new - 1), d \in 0..(x.hd - 1)})

(* kvcache_update and quantizing_kvcache_update. *)
GpuRowStore(x) ==
  Stored(x, {<<(bh * x.sk + ring_phys_index(x.offset + t, x.ring)) * x.hd + d, (bh * x.new + t) * x.hd + d>> :
             bh \in 0..(x.b * x.hkv - 1), t \in 0..(x.new - 1), d \in 0..(x.hd - 1)})

-----------------------------------------------------------------------------
(* A row of values as int8 of `levels' levels (127), with its scale, as     *)
(* both targets compute it: levels / max_abs, rounded half away from zero.  *)

AbsOf(v) == IF v < 0 THEN - v ELSE v
Peak(row) == Max({0} \cup {AbsOf(row[d]) : d \in DOMAIN row})
Quantized(row, levels) ==
  [d \in DOMAIN row |->
     LET mag == IF Peak(row) = 0 THEN 0 ELSE (2 * AbsOf(row[d]) * levels + Peak(row)) \div (2 * Peak(row))
     IN IF row[d] < 0 THEN - MinOf(mag, levels + 1) ELSE MinOf(mag, levels)]

-----------------------------------------------------------------------------
(* Every small call of attention on both targets, with masks of every shape  *)
(* that broadcasts, every store into a small cache, and small rows quantised. *)

CONSTANTS MaxQ, MaxK,  \* the most queries, and rows of the cache
          Values,      \* the magnitudes that are quantised
          Levels       \* the largest quantised magnitude

NoRing == [sink |-> 0, window |-> 0, start |-> 0]
Rings == {r \in [sink : 0..1, window : 1..(MaxK - 1), start : 0..(MaxK - 2)] :
            r.sink + r.window <= MaxK /\ r.start < r.window}
Heads == {<<1, 1>>, <<2, 1>>, <<2, 2>>}

Call(target, b, h, sq, sk, tpr, active, causal, mask, fill, short, ring) ==
  [kind |-> target, b |-> b, hq |-> h[1], hkv |-> h[2], sq |-> sq, sk |-> sk, tpr |-> tpr, active |-> active,
   causal |-> causal, mask |-> mask, fill |-> fill, short |-> short, ring |-> ring]
(* Without a mask: rows of the cache below active, at least the queries'.    *)
Plain(target, rings) ==
  {c \in {Call(target, b, h, sq, sk, tpr, active, causal, <<>>, "none", short, ring) :
            b \in 1..2, h \in Heads, sq \in 1..MaxQ, sk \in 1..MaxK, tpr \in 1..2, active \in 1..MaxK,
            causal \in BOOLEAN, short \in BOOLEAN, ring \in rings} :
     /\ c.sq <= c.active /\ c.active <= c.sk
     /\ c.ring # NoRing => c.causal /\ c.ring.sink + c.ring.window <= c.sk /\ c.active <= c.ring.sink + c.ring.window}
(* With one: no cache, so every row is active; causal only if the queries are no more. *)
MaskDims(b, h, sq, sk) ==
  {d \in {<<sk>>, <<sq, sk>>, <<sq, 1>>, <<1, 1, 1, sk>>, <<1, 1, sq, sk>>, <<1, h[1], sq, sk>>, <<b, 1, 1, sk>>,
          <<b, h[1], sq, sk>>, <<b, h[1], sq, 1>>} : TRUE}
Masked(target) ==
  UNION {{Call(target, b, h, sq, sk, tpr, sk, causal, mask, fill, short, NoRing) :
            causal \in IF sq <= sk THEN BOOLEAN ELSE {FALSE}, short \in BOOLEAN, tpr \in 1..2,
            mask \in MaskDims(b, h, sq, sk), fill \in {"soft", "last", "first", "all"}} :
         b \in 1..2, h \in Heads, sq \in 1..MaxQ, sk \in 2..3}
Stores ==
  {c \in [kind : {"copy", "rows", "gpurows"}, b : 1..2, hkv : 1..2, sk : 1..MaxK, hd : 1..2, new : 1..MaxK,
          offset : 0..(MaxK - 1), ring : {NoRing} \cup Rings] :
     /\ c.offset + c.new <= (IF c.ring = NoRing THEN c.sk ELSE c.ring.sink + c.ring.window)
     /\ c.ring # NoRing => c.kind = "gpurows" /\ c.ring.sink + c.ring.window <= c.sk}
Signed == Values \cup {- v : v \in Values}
Rows == {[kind |-> "quant", row |-> r] : r \in [1..3 -> Signed]}

VARIABLES given, out, done
vars == <<given, out, done>>

Init ==
  /\ given \in {c \in Plain("cpu", {NoRing}) \cup Masked("cpu") : c.tpr = 1}
           \cup Plain("gpu", {NoRing} \cup Rings) \cup Masked("gpu") \cup Stores \cup Rows
  /\ out = <<>> /\ done = FALSE
Run ==
  /\ ~ done /\ done' = TRUE /\ UNCHANGED given
  /\ out' = (CASE given.kind = "cpu" -> CpuAttention(given)
               [] given.kind = "gpu" -> GpuAttention(given)
               [] given.kind = "copy" -> build_kv_cache_update(given)
               [] given.kind = "rows" -> CpuRowStore(given)
               [] given.kind = "gpurows" -> GpuRowStore(given)
               [] OTHER -> Quantized(given.row, Levels)) @@ <<>>
Spec == Init /\ [][Run]_vars

-----------------------------------------------------------------------------
(* What attention is: the weights of a row are the softmax of its scores.    *)

(* The mask's element for these coordinates, as numpy broadcasts. *)
Element(at) ==
  LET lead == 4 - Len(given.mask)
  IN CHOOSE n \in 0..(L!Size(given.mask) - 1) :
       \A a \in DOMAIN given.mask : L!IndexOf(given.mask, n)[a] = IF given.mask[a] = 1 THEN 0 ELSE at[a + lead]
Batch(n) == n \div (given.hq * given.sq)
QHead(n) == (n \div given.sq) % given.hq
Query(n) == n % given.sq
Sees(n, r) == r < given.active /\ (given.causal => r <= (given.active - given.sq) + Query(n))
CacheRow(n, r) == (Batch(n) * given.hkv + (QHead(n) * given.hkv) \div given.hq) * given.sk + ring_phys_index(r, given.ring)
Score(n, r) ==
  Plus((n + 3 * CacheRow(n, r)) % 4, IF given.mask = <<>> THEN 0 ELSE Fill(given, Element(<<Batch(n), QHead(n), Query(n), r>>)))
Power(n, r) == IF Sees(n, r) /\ Score(n, r) # NegInf THEN 2 ^ (Span + Score(n, r)) ELSE 0
Ranks == [j \in 1..given.sk |-> j - 1]
RowSum(n) == Total([j \in 1..given.sk |-> Power(n, j - 1)])

Softmax(n) ==
  /\ ~ out[n].nan
  /\ \A v \in CacheRows(given) :
       out[n].w[v] * RowSum(n) = Total([j \in 1..given.sk |-> IF CacheRow(n, j - 1) = v THEN Power(n, j - 1) ELSE 0]) * out[n].s
FirstIsOpen(n) == Score(n, 0) # NegInf

(* On the CPU every query weighs the rows of its head that it may see by     *)
(* their softmax, if nothing masks the first of them out.                    *)
CpuAttends == (done /\ given.kind = "cpu" /\ ~(given.short /\ given.mask # <<>>)) => \A n \in Outputs(given) : FirstIsOpen(n) => Softmax(n)

(* A mask the kernels' strides reach. *)
DenseMask ==
  given.mask = <<>> \/ /\ ~ Decodes(given) /\ given.mask[Len(given.mask)] = given.sk
                       /\ L!Product(SubSeq(given.mask, 1, Len(given.mask) - 2)) \in {1, given.b * given.hq}
(* So do the three CUDA kernels, whatever the tiles and wherever the ring    *)
(* starts; the tensor-core kernel also if the first row is masked out, and   *)
(* it gives a row of zeros if they all are.                                  *)
GpuAttends ==
  (done /\ given.kind = "gpu" /\ DenseMask) =>
    \A n \in Outputs(given) :
      /\ FirstIsOpen(n) \/ (TensorCores(given) /\ RowSum(n) > 0) => Softmax(n)
      /\ TensorCores(given) /\ RowSum(n) = 0 => ~ out[n].nan /\ \A v \in CacheRows(given) : out[n].w[v] = 0

(* A store puts row t of each head where attention finds rank offset + t of  *)
(* that head, and writes nothing else.                                       *)
StoredIsRead ==
  (done /\ given.kind \in {"copy", "rows", "gpurows"}) =>
    LET Target(h, t, d) == (h * given.sk + ring_phys_index(given.offset + t, given.ring)) * given.hd + d
        heads == 0..(given.b * given.hkv - 1)
    IN /\ \A h \in heads, t \in 0..(given.new - 1), d \in 0..(given.hd - 1) : out[Target(h, t, d)] = (h * given.new + t) * given.hd + d
       /\ \A c \in DOMAIN out :
            out[c] # Old => \E h \in heads, t \in 0..(given.new - 1), d \in 0..(given.hd - 1) : c = Target(h, t, d)

(* A quantised row times its scale is within half a level of the row, and    *)
(* fits int8.                                                                *)
StoredIsNear ==
  (done /\ given.kind = "quant") =>
    \A d \in DOMAIN given.row :
      /\ out[d] \in (-Levels)..Levels
      /\ 2 * AbsOf(out[d] * Peak(given.row) - given.row[d] * Levels) <= Peak(given.row)

(* "qk += mask[b, h, sq, k] ... m_new = max(m, qk)": a row with a key that   *)
(* is not masked out has a softmax.                                          *)
MaskedFirst == (done /\ given.kind = "cpu" /\ ~given.short) => \A n \in Outputs(given) : RowSum(n) > 0 => Softmax(n)
(* "Optional NaN-guard passthrough: Where(IsNaN(softmax), 0_const, softmax)": *)
(* a row that is all masked out is zeros.                                     *)
GuardKept ==
  (done /\ given.kind = "cpu" /\ ~given.short) =>
    \A n \in Outputs(given) : RowSum(n) = 0 => ~ out[n].nan /\ \A v \in CacheRows(given) : out[n].w[v] = 0
(* "additive mask": what an Add of the scores and the mask adds. *)
GpuAddsMask == (done /\ given.kind = "gpu") => \A n \in Outputs(given) : FirstIsOpen(n) => Softmax(n)
(* "using broadcast strides on the mask tensor", also if it is bf16. *)
ShortMask == (done /\ given.kind = "cpu") => \A n \in Outputs(given) : FirstIsOpen(n) => Softmax(n)
==============================================================================
