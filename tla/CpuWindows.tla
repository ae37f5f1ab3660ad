------------------------------ MODULE CpuWindows ------------------------------
(***************************************************************************)
(* The CPU's convolutions and poolings (src/codegen/cpu/translator.rs:      *)
(* build_im2col, build_conv, build_depthwise_conv, build_pool_nchw/_nhwc;   *)
(* shapes: Conv::output_shape and Pooling::output_shape of                  *)
(* src/graph/operator.rs; the scratch memory: src/schedule/kernel.rs).      *)
(*                                                                         *)
(* An axis is [in, kernel, stride, dilation, pad, before, after], pad being *)
(* "NotSet", "Valid", "SameUpper" or "SameLower"; a case is                 *)
(* [n, cin, cout, h, w, from, to], h and w axes, from and to the layouts of *)
(* the input and of the output.                                            *)
(***************************************************************************)
EXTENDS Layout, Integers, TLC

CONSTANT Wrap          \* 2^64: where an unsigned 64-bit value wraps

-----------------------------------------------------------------------------
(* Shapes *)

Unit(a) == a.dilation * (a.kernel - 1) + 1
PaddedIn(a) == a.in + (IF a.pad = "NotSet" THEN a.before + a.after ELSE 0)
CeilDiv(x, y) == (x + y - 1) \div y

ConvOut(a) ==
  IF a.pad \in {"NotSet", "Valid"} THEN (PaddedIn(a) - Unit(a)) \div a.stride + 1
  ELSE CeilDiv(a.in, a.stride)
PoolOut(a, ceil) ==
  IF ceil THEN CeilDiv(PaddedIn(a) - Unit(a), a.stride) + 1 ELSE (PaddedIn(a) - Unit(a)) \div a.stride + 1

(* calc_pad: padded_len - src_dim is subtracted without a sign. *)
PadBefore(a) ==
  CASE a.pad = "NotSet" -> a.before
    [] a.pad = "Valid" -> 0
    [] OTHER -> LET len == (a.stride * (ConvOut(a) - 1) + Unit(a) - a.in) % Wrap
                IN len \div 2 + (IF len % 2 = 1 /\ a.pad = "SameLower" THEN 1 ELSE 0)

(* The input coordinate that output o and kernel cell k meet at, and       *)
(* whether it is out of bounds.                                            *)
Meets(a, o, k) == o * a.stride + k * a.dilation - PadBefore(a)
Oob(a, x) == x < 0 \/ x >= a.in

(* Addresses by layout. *)
Address(layout, c, h, w, at) ==
  IF layout = "NCHW" THEN Flat(<<1, c, h, w>>, <<at.n, at.c, at.h, at.w>>)
  ELSE Flat(<<1, h, w, c>>, <<at.n, at.h, at.w, at.c>>)
Input(x, n, c, ih, iw) == Address(x.from, x.cin, x.h.in, x.w.in, [n |-> n, c |-> c, h |-> ih, w |-> iw])
Output(x, c, n, f, oh, ow) == Address(x.to, c, ConvOut(x.h), ConvOut(x.w), [n |-> n, c |-> f, h |-> oh, w |-> ow])

-----------------------------------------------------------------------------
(* build_im2col: row n, oh, ow; column c, kh, kw. *)

PadVal == -1

Rows(x) == x.n * ConvOut(x.h) * ConvOut(x.w)
Columns(x) == x.cin * x.h.kernel * x.w.kernel

(* Mutant of Im2Col: the columns run channel last. *)
Im2Col_ChannelLast(x) ==
  [i \in Loop(x.n) \X Loop(ConvOut(x.h)) \X Loop(ConvOut(x.w)) \X Loop(x.h.kernel) \X Loop(x.w.kernel) \X Loop(x.cin) |->
     LET ih == Meets(x.h, i[2], i[4]) iw == Meets(x.w, i[3], i[5])
     IN <<Flat(<<x.n, ConvOut(x.h), ConvOut(x.w), x.h.kernel, x.w.kernel, x.cin>>, i),
          IF Oob(x.h, ih) \/ Oob(x.w, iw) THEN PadVal ELSE Input(x, i[1], i[6], ih, iw)>>]
Im2Col(x) ==
  [i \in Loop(x.n) \X Loop(ConvOut(x.h)) \X Loop(ConvOut(x.w)) \X Loop(x.h.kernel) \X Loop(x.w.kernel) \X Loop(x.cin) |->
     LET ih == Meets(x.h, i[2], i[4]) iw == Meets(x.w, i[3], i[5])
         row == Flat(<<x.n, ConvOut(x.h), ConvOut(x.w)>>, <<i[1], i[2], i[3]>>)
         col == Flat(<<x.cin, x.h.kernel, x.w.kernel>>, <<i[6], i[4], i[5]>>)
     IN <<row * Columns(x) + col,
          IF Oob(x.h, ih) \/ Oob(x.w, iw) THEN PadVal ELSE Input(x, i[1], i[6], ih, iw)>>]

(* build_gemm as the convolution calls it: rows of the scratch memory by    *)
(* rows of the weights, over the broadcast bias. A product with padding is  *)
(* zero. The value of a cell is its products and its bias.                  *)
Product2(p, w) == <<p, w>>
Gemm(x, ws) ==
  [i \in Loop(Rows(x)) \X Loop(x.cout) |->
     <<i[1] * x.cout + i[2],
       [products |-> {Product2(ws[i[1] * Columns(x) + j], i[2] * Columns(x) + j) :
                        j \in {c \in Loop(Columns(x)) : ws[i[1] * Columns(x) + c] # PadVal}},
        bias |-> i[2]]>>]

(* The rows are pixels: for an NCHW output each image is saved into the     *)
(* scratch memory and written back channel by channel.                      *)
Pixels(x) == ConvOut(x.h) * ConvOut(x.w)
SavedImage(x, dst, n) == [a \in Loop(Pixels(x) * x.cout) |-> dst[n * Pixels(x) * x.cout + a]]
Transposed(x, dst) ==
  [i \in Loop(x.n) \X Loop(x.cout) \X Loop(Pixels(x)) |->
     <<i[1] * x.cout * Pixels(x) + i[2] * Pixels(x) + i[3], SavedImage(x, dst, i[1])[i[3] * x.cout + i[2]]>>]

Conv(x) ==
  LET pixels == MemoryAfter(Gemm(x, MemoryAfter(Im2Col(x))))
  IN IF x.to = "NHWC" THEN pixels ELSE MemoryAfter(Transposed(x, pixels))

(* The scratch memory Schedule::new asks for. *)
ConvWorkspace(x) ==
  LET columns == Rows(x) * Columns(x) pixels == Rows(x) * x.cout
  IN IF columns > pixels THEN columns ELSE pixels

-----------------------------------------------------------------------------
(* build_depthwise_conv: a filter of its own for every channel. *)

Depthwise(x) ==
  MemoryAfter(
    [i \in Loop(x.n) \X Loop(ConvOut(x.h)) \X Loop(ConvOut(x.w)) \X Loop(x.cin) |->
       <<Output(x, x.cin, i[1], i[4], i[2], i[3]),
         [products |->
            {LET ih == Meets(x.h, i[2], k[1]) iw == Meets(x.w, i[3], k[2])
             IN <<Input(x, i[1], i[4], ih, iw),
                  Flat(<<x.cin, x.h.kernel, x.w.kernel>>, <<i[4], k[1], k[2]>>)>> :
               k \in {c \in Loop(x.h.kernel) \X Loop(x.w.kernel) :
                        ~ Oob(x.h, Meets(x.h, i[2], c[1])) /\ ~ Oob(x.w, Meets(x.w, i[3], c[2]))}},
          bias |-> i[4]]>>])

-----------------------------------------------------------------------------
(* Poolings: the cells a result is taken over, and the number an average is *)
(* divided by. The NCHW kernel counts for every result, the NHWC kernel    *)
(* once for all the channels of a pixel.                                    *)

Inside(x, oh, ow) ==
  {k \in Loop(x.h.kernel) \X Loop(x.w.kernel) :
     ~ Oob(x.h, Meets(x.h, oh, k[1])) /\ ~ Oob(x.w, Meets(x.w, ow, k[2]))}
Cell(x, n, c, oh, ow, k) == Input(x, n, c, Meets(x.h, oh, k[1]), Meets(x.w, ow, k[2]))

PoolOutput(x, ceil, n, c, oh, ow) ==
  Address(x.from, x.cin, PoolOut(x.h, ceil), PoolOut(x.w, ceil), [n |-> n, c |-> c, h |-> oh, w |-> ow])

PoolNCHW(x, ceil) ==
  MemoryAfter(
    [i \in Loop(x.n) \X Loop(x.cin) \X Loop(PoolOut(x.h, ceil)) \X Loop(PoolOut(x.w, ceil)) |->
       <<PoolOutput(x, ceil, i[1], i[2], i[3], i[4]),
         [cells |-> {Cell(x, i[1], i[2], i[3], i[4], k) : k \in Inside(x, i[3], i[4])},
          count |-> Cardinality(Inside(x, i[3], i[4]))]>>])

PoolNHWC(x, ceil) ==
  MemoryAfter(
    [i \in Loop(x.n) \X Loop(PoolOut(x.h, ceil)) \X Loop(PoolOut(x.w, ceil)) \X Loop(x.cin) |->
       <<PoolOutput(x, ceil, i[1], i[4], i[2], i[3]),
         [cells |-> {Cell(x, i[1], i[4], i[2], i[3], k) : k \in Inside(x, i[2], i[3])},
          count |-> Cardinality(Inside(x, i[2], i[3]))]>>])

Pool(x, ceil) == IF x.from = "NCHW" THEN PoolNCHW(x, ceil) ELSE PoolNHWC(x, ceil)

-----------------------------------------------------------------------------
(* Convolutions and poolings of small images, every combination of kernel, *)
(* stride, dilation and padding on one axis with a few on the other.        *)

CONSTANTS MaxIn,       \* the largest input dimension
          MaxKernel    \* the largest kernel dimension

Axis(in, k, s, d, pad, b, e) ==
  [in |-> in, kernel |-> k, stride |-> s, dilation |-> d, pad |-> pad, before |-> b, after |-> e]
Paddings == {<<"NotSet", 1, 0>>, <<"NotSet", 1, 1>>, <<"Valid", 0, 0>>, <<"SameUpper", 0, 0>>, <<"SameLower", 0, 0>>}
Axes ==
  {a \in {Axis(in, k, s, d, p[1], p[2], p[3]) :
            in \in 1..MaxIn, k \in 1..MaxKernel, s \in 1..2, d \in 1..2, p \in Paddings} :
     /\ a.kernel > 1 \/ a.dilation = 1
     /\ PaddedIn(a) >= Unit(a) \/ a.pad \in {"SameUpper", "SameLower"}}
Few == {a \in Axes : a.in = 2 /\ a.kernel = 2 /\ a.stride = 1 /\ a.dilation = 1 /\ a.after = 0}
Sizes == {<<1, 1, 3>>, <<2, 2, 1>>}
Layouts == {<<"NCHW", "NCHW">>, <<"NHWC", "NHWC">>, <<"NCHW", "NHWC">>, <<"NHWC", "NCHW">>}
Kinds == {"conv", "depthwise", "pool", "poolceil"}

(* What a model may hold: an output of the channels of the input for a      *)
(* depthwise convolution, one layout and no SAME for a pooling.             *)
CaseOf(kind, s, h, w, l) ==
  [kind |-> kind, n |-> s[1], cin |-> s[2], cout |-> IF kind = "conv" THEN s[3] ELSE s[2],
   h |-> h, w |-> w, from |-> l[1], to |-> l[2]]
Legal(x) ==
  /\ x.h.pad = x.w.pad
  /\ x.kind # "conv" => x.h.pad \in {"NotSet", "Valid"}
  /\ x.kind \in {"pool", "poolceil"} => x.from = x.to
Cases ==
  {x \in {CaseOf(kind, s, ax[1], ax[2], l) : kind \in Kinds, s \in Sizes, l \in Layouts,
                                            ax \in (Axes \X Few) \cup (Few \X Axes)} : Legal(x)}

VARIABLES given, out, done
vars == <<given, out, done>>

Init == given \in Cases /\ out = <<>> /\ done = FALSE
Run ==
  /\ ~ done /\ done' = TRUE /\ UNCHANGED given
  /\ out' = CASE given.kind = "conv" -> Conv(given)
              [] given.kind = "depthwise" -> Depthwise(given)
              [] given.kind = "pool" -> Pool(given, FALSE)
              [] OTHER -> Pool(given, TRUE)
Spec == Init /\ [][Run]_vars

-----------------------------------------------------------------------------
(* The definition of ONNX, on coordinates. *)

NonNegative(i) == IF i < 0 THEN 0 ELSE i
SameTotal(a) == NonNegative((CeilDiv(a.in, a.stride) - 1) * a.stride + Unit(a) - a.in)
Before(a) ==
  CASE a.pad = "SameUpper" -> SameTotal(a) \div 2
    [] a.pad = "SameLower" -> CeilDiv(SameTotal(a), 2)
    [] OTHER -> a.before
Fits(a, o) == {k \in 0..(a.kernel - 1) : o * a.stride + k * a.dilation - Before(a) \in 0..(a.in - 1)}
Source(a, o, k) == o * a.stride + k * a.dilation - Before(a)
Outputs(c, h, w) == (0..(given.n - 1)) \X (0..(c - 1)) \X (0..(h - 1)) \X (0..(w - 1))

(* The input channels a filter sees. *)
Seen(f) == IF given.kind = "conv" THEN 0..(given.cin - 1) ELSE {f}
Products(n, f, oh, ow) ==
  {<<Input(given, n, c, Source(given.h, oh, kh), Source(given.w, ow, kw)),
     IF given.kind = "conv" THEN Flat(<<given.cout, given.cin, given.h.kernel, given.w.kernel>>, <<f, c, kh, kw>>)
     ELSE Flat(<<given.cout, given.h.kernel, given.w.kernel>>, <<f, kh, kw>>)>> :
     c \in Seen(f), kh \in Fits(given.h, oh), kw \in Fits(given.w, ow)}
IsConvolution ==
  LET all == Outputs(given.cout, ConvOut(given.h), ConvOut(given.w))
  IN /\ DOMAIN out = 0..(Cardinality(all) - 1)
     /\ \A o \in all : out[Output(given, given.cout, o[1], o[2], o[3], o[4])]
                         = [products |-> Products(o[1], o[2], o[3], o[4]), bias |-> o[2]]

(* A SAME convolution whose padding is not negative. *)
NoSkippedInput(a) == a.pad \in {"SameUpper", "SameLower"} => a.stride * (ConvOut(a) - 1) + Unit(a) >= a.in

(* build_conv: unfolding, one matrix product and a transposition through   *)
(* the scratch memory compute the convolution, every result once, in the   *)
(* layout the output has.                                                  *)
ConvIsConvolution == done /\ given.kind = "conv" /\ NoSkippedInput(given.h) /\ NoSkippedInput(given.w) => IsConvolution

(* build_im2col: "dst[row, col] = src[n, c, ih, iw]" unless it is out of   *)
(* bounds, for every padding a model may have.                             *)
SameIsConvolution == done /\ given.kind = "conv" => IsConvolution

(* build_depthwise_conv agrees with the grouped convolution. *)
DepthwiseIsGrouped == done /\ given.kind = "depthwise" => IsConvolution

(* The scratch memory Schedule::new asks for holds the unfolded input and  *)
(* each image that is saved.                                               *)
WorkspaceSuffices ==
  ~ done /\ given.kind = "conv" =>
    /\ WrittenOnce(Im2Col(given))
    /\ Written(Im2Col(given)) \subseteq 0..(ConvWorkspace(given) - 1)
    /\ Pixels(given) * given.cout <= ConvWorkspace(given)

(* Both pooling kernels take a result over the input cells under its       *)
(* window, and an average counts no padding.                               *)
PoolsAgree ==
  done /\ given.kind \in {"pool", "poolceil"} =>
    LET ceil == given.kind = "poolceil"
        all == Outputs(given.cin, PoolOut(given.h, ceil), PoolOut(given.w, ceil))
    IN /\ DOMAIN out = 0..(Cardinality(all) - 1)
       /\ \A o \in all :
            LET cells == {Input(given, o[1], o[2], Source(given.h, o[3], kh), Source(given.w, o[4], kw)) :
                            kh \in Fits(given.h, o[3]), kw \in Fits(given.w, o[4])}
            IN out[PoolOutput(given, ceil, o[1], o[2], o[3], o[4])] = [cells |-> cells, count |-> Cardinality(cells)]
==============================================================================
