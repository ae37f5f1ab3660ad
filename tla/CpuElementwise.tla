---------------------------- MODULE CpuElementwise ----------------------------
(***************************************************************************)
(* The code of one elementwise operator and of a fused chain of them       *)
(* (src/codegen/cpu/translator.rs: build_single_op, build_operation,       *)
(* build_load, build_store; codegen/cpu/llvm.rs; codegen/cpu.rs).          *)
(*                                                                         *)
(* A type is [kind, bits]. A register holds an integer of some width, as   *)
(* its bits, or a float, which is a whole number here. Broken is what the  *)
(* code generator makes of operands of the wrong sort: a panic, or         *)
(* instructions LLVM does not accept.                                      *)
(***************************************************************************)
EXTENDS Integers, Sequences, TLC
LOCAL INSTANCE SequencesExt
LOCAL INSTANCE Bitwise

CONSTANTS Narrow,   \* the bits of Bool, I8 and U8
          Wide,     \* the bits of I64 and U64
          NaN       \* the float that is none

Ty(kind, bits) == [kind |-> kind, bits |-> bits]
Bool == Ty("Bool", Narrow)
Float == Ty("Float", 0)
IsFloat(t) == t.kind = "Float"

Reg(w, v) == [float |-> FALSE, w |-> w, v |-> v % 2^w]
Flt(v) == [float |-> TRUE, w |-> 0, v |-> v]
Broken == [float |-> FALSE, w |-> -1, v |-> 0]

(* Integer memory holds the bits, float memory the float. A store writes    *)
(* the register's width: a narrower one leaves the rest of the cell, taken  *)
(* to hold ones; a bit fills its byte.                                      *)
Load(t, cell) == IF IsFloat(t) THEN Flt(cell) ELSE Reg(t.bits, cell)
Store(t, r) ==
  CASE r = Broken \/ r.float # IsFloat(t) \/ r.w > t.bits -> Broken
    [] r.float \/ r.w = t.bits \/ (r.w = 1 /\ t.bits = Narrow) -> Load(t, r.v)
    [] OTHER -> Reg(t.bits, 2^t.bits - 2^Narrow + r.v)

Signed(r) == IF r.v >= 2^(r.w - 1) THEN r.v - 2^r.w ELSE r.v
Truth(b) == IF b THEN 1 ELSE 0
Truncated(a, b) == LET q == (IF a < 0 THEN -a ELSE a) \div (IF b < 0 THEN -b ELSE b) IN IF (a < 0) = (b < 0) THEN q ELSE -q
Apply(op, a, b) ==
  CASE op = "Add" -> a + b
    [] op = "Sub" -> a - b
    [] op = "Mul" -> a * b
    [] op = "Div" -> Truncated(a, b)

(* Add, Sub, Mul, Div: floats or integers by the type of the result.        *)
(* Division is that of signed integers.                                     *)
Arithmetic(op, t, a, b) ==
  CASE IsFloat(t) /\ a.float /\ b.float -> Flt(IF NaN \in {a.v, b.v} THEN NaN ELSE Apply(op, a.v, b.v))
    [] ~ IsFloat(t) /\ ~ a.float /\ a.w = b.w -> Reg(a.w, Apply(op, Signed(a), Signed(b)))
    [] OTHER -> Broken

(* A comparison, by the type of the first operand, is one bit.              *)
Compare(op, in, a, b) ==
  CASE IsFloat(in) /\ a.float /\ b.float ->
         Reg(1, Truth(NaN \notin {a.v, b.v} /\ IF op = "Equal" THEN a.v = b.v ELSE a.v <= b.v))
    [] ~ IsFloat(in) /\ ~ a.float /\ a.w = b.w ->
         Reg(1, Truth(IF op = "Equal" THEN a.v = b.v ELSE Signed(a) <= Signed(b)))
    [] OTHER -> Broken

(* build_int_cast extends the sign, whatever the type it comes from.        *)
Nearest0(v) == IF v = NaN THEN 0 ELSE v
Cast(from, to, r) ==
  CASE from = to -> r
    [] r.float # IsFloat(from) -> Broken
    [] to.kind = "Bool" -> Reg(Narrow, Truth(IF r.float THEN r.v \notin {0, NaN} ELSE r.v # 0))
    [] r.float -> Reg(to.bits, Nearest0(r.v))
    [] IsFloat(to) -> Flt(IF from.kind = "SInt" THEN Signed(r) ELSE r.v)
    [] OTHER -> Reg(to.bits, Signed(r))

(* Operators on floats: Neg, and those whose constants or intrinsics are    *)
(* looked up by the type of the result, ReLU standing for them.             *)
Unary(op, t, a) ==
  CASE ~ a.float \/ (op = "ReLU" /\ ~ IsFloat(t)) -> Broken
    [] op = "Neg" -> Flt(IF a.v = NaN THEN NaN ELSE -a.v)
    [] OTHER -> Flt(IF a.v = NaN \/ a.v < 0 THEN 0 ELSE a.v)
(* The assertion of IsNaN on its input's type. *)
IsNaNAccepts(in) == IsFloat(in)

(* build_single_op. *)
SingleOp(op, to, t, in, args) ==
  CASE \E k \in DOMAIN args : args[k] = Broken -> Broken
    [] op \in {"Add", "Sub", "Mul", "Div"} -> Arithmetic(op, t, args[1], args[2])
    [] op = "And" -> IF ~ args[1].float /\ ~ args[2].float /\ args[1].w = args[2].w
                     THEN Reg(args[1].w, args[1].v & args[2].v) ELSE Broken
    [] op \in {"Equal", "LessOrEqual"} -> Compare(op, in, args[1], args[2])
    [] op = "IsNaN" -> IF IsNaNAccepts(in) /\ args[1].float THEN Reg(Narrow, Truth(args[1].v = NaN)) ELSE Broken
    [] op = "Cast" -> Cast(in, to, args[1])
    [] op \in {"Neg", "ReLU"} -> Unary(op, t, args[1])

(* The type a node's output has. *)
ResultType(op, to, in) ==
  CASE op = "Cast" -> to
    [] op \in {"And", "Equal", "LessOrEqual", "IsNaN"} -> Bool
    [] OTHER -> in

(* build_operation, Single: load, compute, store. An operator is [op, to,   *)
(* args], an argument <<"input", k>> or <<"result", k>>; an input is        *)
(* [ty, cell].                                                              *)
ArgOf(arg, inputs, results) == IF arg[1] = "input" THEN inputs[arg[2]] ELSE results[arg[2]]
(* The operators one kernel after the other, through memory. *)
Chain(ops, inputs) ==
  FoldLeft(LAMBDA done, o :
             LET in == [k \in DOMAIN o.args |-> ArgOf(o.args[k], inputs, done)]
                 t == ResultType(o.op, o.to, in[1].ty)
                 r == SingleOp(o.op, o.to, t, in[1].ty, [k \in DOMAIN in |-> Load(in[k].ty, in[k].cell)])
             IN Append(done, [ty |-> t, cell |-> Store(t, r).v, reg |-> Store(t, r)]),
           <<>>, ops)
Last0(s) == s[Len(s)]
Chained(ops, inputs) == Last0(Chain(ops, inputs)).reg

(* build_operation, Fused: every operator has the type of the kernel's      *)
(* output, and so have the results between them.                            *)
FusedInput(o, inputs, t, k) == IF o.args[k][1] = "input" THEN inputs[o.args[k][2]].ty ELSE t
Fused(ops, inputs, t) ==
  LET regs == FoldLeft(LAMBDA done, o :
                LET in(k) == FusedInput(o, inputs, t, k)
                    value(k) == IF o.args[k][1] = "input" THEN Load(in(k), inputs[o.args[k][2]].cell) ELSE done[o.args[k][2]]
                IN Append(done, SingleOp(o.op, o.to, t, in(1), [k \in DOMAIN o.args |-> value(k)])),
                <<>>, ops)
  IN Store(t, Last0(regs))

-----------------------------------------------------------------------------
(* f32_to_bf16_bits and back, on numbers of fewer bits: low of them, of     *)
(* which low - 1 are significand, are dropped.                              *)
ToShort(bits, low) == (bits + 2^(low - 1) - 1 + ((bits \div 2^low) % 2)) \div 2^low
FromShort(bits, low) == bits * 2^low

-----------------------------------------------------------------------------
(* Chains of up to three elementwise operators of every type, and every     *)
(* float of a few bits.                                                     *)

CONSTANTS Fraction,   \* the bits of a significand
          Exponent,   \* the bits of an exponent
          Dropped     \* the bits a short float does not have

Int8 == Ty("SInt", Narrow)
Int64 == Ty("SInt", Wide)
UInt8 == Ty("UInt", Narrow)
UInt64 == Ty("UInt", Wide)
Integer == {Int8, Int64, UInt8, UInt64}
AllTypes == Integer \cup {Bool, Float}
Cells(t) == CASE t = Bool -> {0, 1} [] IsFloat(t) -> {-2, 0, 3, NaN} [] OTHER -> {0, 1, 2^(t.bits - 1) - 1, 2^(t.bits - 1), 2^t.bits - 1}

Op(op, to, args) == [op |-> op, to |-> to, args |-> args]
Binary(t) == IF t = Bool THEN {"And", "Equal"} ELSE {"Add", "Sub", "Div", "Equal", "LessOrEqual"}
(* The operators a value of the type may go through, b being the other      *)
(* operand.                                                                 *)
Ops(t, a, b) ==
  {Op(o, t, <<a, b>>) : o \in Binary(t)} \cup {Op("Cast", to, <<a>>) : to \in AllTypes}
    \cup (IF IsFloat(t) THEN {Op(o, t, <<a>>) : o \in {"Neg", "ReLU", "IsNaN"}} ELSE {})
In(k) == <<"input", k>>
Res(k) == <<"result", k>>
Chains(t) ==
  LET first == Ops(t, In(1), In(2))
      type(o, in) == ResultType(o.op, o.to, in)
  IN {<<o>> : o \in first}
       \cup UNION {{<<o, p>> : p \in Ops(type(o, t), Res(1), IF type(o, t) = t THEN In(2) ELSE Res(1))} : o \in first}
       \cup (IF t = Float THEN
               {<<o, p, q>> : o \in {c \in first : type(c, t) = t}, p \in {c \in Ops(t, Res(1), In(1)) : type(c, t) = t},
                              q \in Ops(t, Res(1), Res(2))} ELSE {})

(* No division by zero. *)
Divides(ops, x, y) == \E k \in DOMAIN ops : ops[k].op = "Div"
Cases ==
  UNION {{[ops |-> c, inputs |-> <<[ty |-> t, cell |-> a], [ty |-> t, cell |-> b]>>] :
            c \in Chains(t), a \in Cells(t), b \in Cells(t)} : t \in AllTypes}
Total == 2^(1 + Exponent + Fraction)

VARIABLES given, fused, bits, done
vars == <<given, fused, bits, done>>

TypesOf(c) == LET ran == Chain(c.ops, c.inputs) IN [k \in DOMAIN ran |-> ran[k].ty]
Nonzero(c) ==
  \A k \in DOMAIN c.ops : c.ops[k].op = "Div" =>
    /\ c.ops[k].args[2] = In(2) /\ c.inputs[2].cell # 0
    /\ k > 1 => \A j \in 1..(k - 1) : c.ops[j].op # "Cast"

Init ==
  /\ \/ given \in {c \in Cases : Nonzero(c)} /\ bits = -1
     \/ given = <<>> /\ bits \in 0..(Total - 1)
  /\ fused = <<>> /\ done = FALSE
Run ==
  /\ ~ done /\ done' = TRUE /\ UNCHANGED <<given, bits>>
  /\ fused' = IF given = <<>> THEN <<ToShort(bits, Dropped)>>
              ELSE <<Fused(given.ops, given.inputs, Last0(TypesOf(given))), Chained(given.ops, given.inputs)>>
Spec == Init /\ [][Run]_vars

-----------------------------------------------------------------------------
Uniform ==
  \A k \in DOMAIN given.ops :
    /\ TypesOf(given)[k] = given.inputs[1].ty
    /\ given.ops[k].op \in {"Equal", "LessOrEqual"} => k = Len(given.ops)

(* build_operation: operators of one type have the same result fused as    *)
(* they have one after the other, through memory; a comparison, which is a *)
(* bit until it is stored, must be the last.                               *)
FusedIsChain == done /\ given # <<>> /\ Uniform => fused[1] = fused[2] /\ fused[1] # Broken

(* The number a cell of the type holds. *)
Number(t, v) == IF t.kind = "SInt" THEN Signed(Reg(t.bits, v)) ELSE v
Holds(t, n) ==
  CASE IsFloat(t) -> TRUE
    [] t.kind = "Bool" -> n \in {0, 1}
    [] t.kind = "UInt" -> n \in 0..(2^t.bits - 1)
    [] OTHER -> n \in -(2^(t.bits - 1))..(2^(t.bits - 1) - 1)
Half(t, n) == t.kind = "UInt" => n < 2^(t.bits - 1)

(* Cast keeps a number both types have: between integers of different       *)
(* widths an unsigned one must be in the lower half.                        *)
CastKeepsNumber ==
  done /\ given # <<>> /\ Len(given.ops) = 1 /\ given.ops[1].op = "Cast" =>
    LET from == given.inputs[1].ty
        to == given.ops[1].to
        n == Number(from, given.inputs[1].cell)
    IN n # NaN /\ Holds(to, n) /\ (IsFloat(to) \/ to.bits <= from.bits \/ Half(from, n)) => Number(to, fused[2].v) = n

(* A single division or comparison of numbers of a sort is that of the     *)
(* operands' type.                                                         *)
TypedFor(Sort(_, _)) ==
  done /\ given # <<>> /\ Len(given.ops) = 1 /\ given.ops[1].op \in {"Div", "LessOrEqual"} =>
    LET t == given.inputs[1].ty
        a == Number(t, given.inputs[1].cell)
        b == Number(t, given.inputs[2].cell)
    IN NaN \notin {a, b} /\ Sort(t, a) /\ Sort(t, b) =>
         IF given.ops[1].op = "LessOrEqual" THEN fused[2].v = Truth(a <= b)
         ELSE Holds(t, Truncated(a, b)) => Number(t, fused[2].v) = Truncated(a, b)

(* Division and comparison are those of the operands' type, of an unsigned *)
(* one in the lower half.                                                  *)
OperatorsTyped == TypedFor(Half)

(* Of an unsigned type in the upper half too: U8 and U64 are types of their *)
(* own, and build_int_signed_div and a signed comparison serve them.       *)
UnsignedTyped == TypedFor(Holds)

(* "assert!(matches!(input_ty.unwrap(), DataType::Float(_)))": IsNaN is     *)
(* built for a float.                                                       *)
IsNaNGetsFloat ==
  done /\ given # <<>> =>
    \A k \in DOMAIN given.ops : given.ops[k].op = "IsNaN" => IsNaNAccepts(FusedInput(given.ops[k], given.inputs, Last0(TypesOf(given)), 1))

(* The magnitude a pattern stands for, in units of the smallest number, and *)
(* that of a short one.                                                     *)
Magnitude(b) ==
  LET man == b % 2^Fraction
      exp == (b \div 2^Fraction) % 2^Exponent
  IN IF exp = 0 THEN man ELSE (2^Fraction + man) * 2^(exp - 1)
Finite(b) == (b \div 2^Fraction) % 2^Exponent # 2^Exponent - 1
Away(a, b) == IF a < b THEN b - a ELSE a - b
Shorts == {b \in 0..(Total - 1) : b % 2^Dropped = 0}

(* f32_to_bf16_bits: "round-to-nearest-even" of every finite number, past   *)
(* the largest to infinity, and a short float stays what it is.             *)
RoundsToNearest ==
  done /\ given = <<>> /\ Finite(bits) =>
    LET s == FromShort(fused[1], Dropped)
        sameSign == {t \in Shorts : (t < Total \div 2) = (bits < Total \div 2) /\ (Finite(t) \/ Finite(t - 1))}
    IN /\ s \in sameSign
       /\ \A t \in sameSign \ {s} :
            \/ Away(Magnitude(s), Magnitude(bits)) < Away(Magnitude(t), Magnitude(bits))
            \/ Away(Magnitude(s), Magnitude(bits)) = Away(Magnitude(t), Magnitude(bits)) /\ fused[1] % 2 = 0
==============================================================================
