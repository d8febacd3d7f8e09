-------------------------------- MODULE Operands --------------------------------
(****************************************************************************)
(* The operand stack of one VM_Thread and what is computed on it: the stack *)
(* instructions of core/eval/eval_memory.c, the arithmetic of               *)
(* math/eval_math.c, the comparisons and conditional jumps of               *)
(* core/eval/eval_control_flow.c, IN and OUT of io/eval_io.c, over the      *)
(* PrimitiveValues of util/types.                                           *)
(*                                                                          *)
(* A value is its type and the 32-bit word u of the union; c and b are its  *)
(* low bits, so that what writes c or b alone leaves the rest of u as it    *)
(* was.  The u of a FLOAT is its number instead, on a grid: Unit steps are  *)
(* 1.0, results round to the grid and overflow to infinity.                 *)
(****************************************************************************)
EXTENDS Integers, Sequences

CONSTANTS
  INT_MOD, CHAR_MOD, BYTE_MOD,  \* 2^32, 2^16 and 2^8 in the code
  Unit,        \* 1.0 in steps of the grid
  Epsilon,     \* EPSILON of type_comparison.c (1e-9), in steps of the grid
  MaxFloat,    \* the largest finite float, in steps of the grid
  Words,       \* operands of PUSH and CPUSH
  Floats,      \* operands of FPUSH, in steps of the grid
  AddressWords, \* what HALLOC may return
  MaxStack     \* bound on the stack (VM_STACK_SIZE)

TYPE_INT == 0
TYPE_FLOAT == 1
TYPE_CHAR == 2
TYPE_BYTE == 3
TYPE_ADDRESS == 4

INF == MaxFloat + 1
NAN == MaxFloat + 2
FloatNumbers == (-INF)..NAN

ASSUME OperandsAssumption ==
  /\ {INT_MOD, CHAR_MOD, BYTE_MOD, Unit, Epsilon} \subseteq Nat \ {0}
  /\ CHAR_MOD < INT_MOD /\ BYTE_MOD < INT_MOD
  /\ Epsilon < Unit /\ MaxFloat \in Nat /\ MaxStack \in Nat
  /\ Words \subseteq 0..(INT_MOD - 1) /\ AddressWords \subseteq 0..(INT_MOD - 1)
  /\ Floats \subseteq (-MaxFloat)..MaxFloat

\* An INT has room for every CHAR, and every INT is a finite float.
ASSUME NumbersFit == 2 * CHAR_MOD <= INT_MOD /\ Unit * INT_MOD <= 2 * MaxFloat

VARIABLES
  stack,    \* VM_Thread.stack up to sp, the top last
  active,   \* whether the thread's status is THREAD_ACTIVE
  running   \* FALSE once the process has ended

vars == <<stack, active, running>>

Values == [type : {TYPE_INT, TYPE_CHAR, TYPE_BYTE, TYPE_ADDRESS}, u : 0..(INT_MOD - 1)]
            \cup [type : {TYPE_FLOAT}, u : FloatNumbers]

TypeOK ==
  /\ stack \in Seq(Values) /\ Len(stack) <= MaxStack
  /\ active \in BOOLEAN /\ running \in BOOLEAN

Init == stack = <<>> /\ active = TRUE /\ running = TRUE

----------------------------------------------------------------------------
(* Values                                                                   *)

Signed(word, mod) == LET low == word % mod IN IF 2 * low >= mod THEN low - mod ELSE low

Abs(n) == IF n < 0 THEN -n ELSE n
Sgn(n) == IF n < 0 THEN -1 ELSE IF n > 0 THEN 1 ELSE 0
\* C's / and %, which round towards zero; no caller divides by zero.
Quotient(n, d) == IF d = 0 THEN 0 ELSE Sgn(n) * Sgn(d) * (Abs(n) \div Abs(d))
Remainder(n, d) == n - d * Quotient(n, d)

primitive_is_numeric(v) == v.type # TYPE_ADDRESS

\* No caller asks for the integer of a FLOAT, which C would truncate.
primitive_as_int(v) ==
  CASE v.type = TYPE_INT -> Signed(v.u, INT_MOD)
    [] v.type = TYPE_CHAR -> v.u % CHAR_MOD
    [] v.type = TYPE_FLOAT -> Quotient(v.u, Unit)
    [] v.type = TYPE_BYTE -> Signed(v.u, BYTE_MOD)
    [] OTHER -> 0

\* A conversion that would read a CHAR as signed
SignedCharAsDouble(v) ==
  CASE v.type = TYPE_INT -> Unit * Signed(v.u, INT_MOD)
    [] v.type = TYPE_CHAR -> Unit * Signed(v.u, CHAR_MOD)
    [] v.type = TYPE_FLOAT -> v.u
    [] OTHER -> 0

\* A BYTE has no case of its own.
primitive_as_double(v) ==
  CASE v.type = TYPE_INT -> Unit * Signed(v.u, INT_MOD)
    [] v.type = TYPE_CHAR -> Unit * (v.u % CHAR_MOD)
    [] v.type = TYPE_FLOAT -> v.u
    [] OTHER -> 0

\* An overflow that would stay at the largest word
SaturatedInt(n) ==
  [type |-> TYPE_INT,
   u |-> IF 2 * n >= INT_MOD THEN (INT_MOD \div 2) - 1
         ELSE IF 2 * n < -INT_MOD THEN INT_MOD \div 2 ELSE n % INT_MOD]

make_int(n) == [type |-> TYPE_INT, u |-> n % INT_MOD]
make_float(x) == [type |-> TYPE_FLOAT, u |-> x]

Finite(x) == Abs(x) <= MaxFloat
Infinite(x) == Abs(x) = INF
\* A conversion that would never overflow
Unbounded(x) == x

ToFloat(x) == IF x > MaxFloat THEN INF ELSE IF x < -MaxFloat THEN -INF ELSE x

FloatAdd(x, y) ==
  CASE NAN \in {x, y} \/ (Infinite(x) /\ y = -x) -> NAN
    [] Infinite(x) -> x
    [] Infinite(y) -> y
    [] OTHER -> ToFloat(x + y)
FloatSub(x, y) == FloatAdd(x, IF y = NAN THEN NAN ELSE -y)
FloatMul(x, y) ==
  CASE NAN \in {x, y} \/ (Infinite(x) /\ y = 0) \/ (x = 0 /\ Infinite(y)) -> NAN
    [] Infinite(x) \/ Infinite(y) -> INF * Sgn(x) * Sgn(y)
    [] OTHER -> ToFloat(Quotient(x * y, Unit))
FloatDiv(x, y) ==
  CASE NAN \in {x, y} \/ (Infinite(x) /\ Infinite(y)) \/ (x = 0 /\ y = 0) -> NAN
    [] y = 0 -> INF * Sgn(x)
    [] Infinite(x) -> INF * Sgn(x) * Sgn(y)
    [] Infinite(y) -> 0
    [] OTHER -> ToFloat(Quotient(x * Unit, y))
FloatMod(x, y) ==
  CASE NAN \in {x, y} \/ Infinite(x) \/ y = 0 -> NAN
    [] Infinite(y) -> x
    [] OTHER -> Remainder(x, y)

\* The shape of primitive_add, sub, mul, div and mod
Promoted(a, b, FloatOp(_, _), IntOp(_, _)) ==
  IF ~primitive_is_numeric(a) \/ ~primitive_is_numeric(b) THEN make_int(0)
  ELSE IF TYPE_FLOAT \in {a.type, b.type}
  THEN make_float(FloatOp(primitive_as_double(a), primitive_as_double(b)))
  ELSE make_int(IntOp(primitive_as_int(a), primitive_as_int(b)))

\* The sum of two int32_t, before make_int.  C leaves an overflow undefined; what
\* tcc and gcc compile (build.sh, build_gcc.sh) is the instruction that wraps.
IntAdd(m, n) == m + n
IntSub(m, n) == m - n
IntMul(m, n) == m * n

primitive_add(a, b) == Promoted(a, b, FloatAdd, IntAdd)
primitive_sub(a, b) == Promoted(a, b, FloatSub, IntSub)
primitive_mul(a, b) == Promoted(a, b, FloatMul, IntMul)
primitive_div(a, b) == Promoted(a, b, FloatDiv, Quotient)
primitive_mod(a, b) == Promoted(a, b, FloatMod, Remainder)

\* primitive_div and primitive_mod take the branch of the integers.
OnIntegers(a, b) ==
  primitive_is_numeric(a) /\ primitive_is_numeric(b) /\ TYPE_FLOAT \notin {a.type, b.type}

----------------------------------------------------------------------------
(* Comparisons                                                              *)

Near(x, y) == Finite(x) /\ Finite(y) /\ Abs(x - y) < Epsilon
Below(x, y) == NAN \notin {x, y} /\ x < y

Compared(a, b, Test(_, _)) ==
  /\ primitive_is_numeric(a) /\ primitive_is_numeric(b)
  /\ Test(primitive_as_double(a), primitive_as_double(b))

primitive_equal(a, b) == Compared(a, b, Near)
primitive_not_equal(a, b) == ~primitive_equal(a, b)
primitive_less_than(a, b) == Compared(a, b, Below)
primitive_less_than_equal(a, b) == Compared(a, b, LAMBDA x, y : Below(x, y) \/ Near(x, y))
primitive_greater_than(a, b) == Compared(a, b, LAMBDA x, y : Below(y, x))
primitive_greater_than_equal(a, b) == Compared(a, b, LAMBDA x, y : Below(y, x) \/ Near(x, y))

Truth(test) == [type |-> TYPE_INT, u |-> IF test THEN 1 ELSE 0]

----------------------------------------------------------------------------
(* The instructions.  The code checks neither end of the stack: that the    *)
(* operands are there, and that there is room, is up to the program.        *)

Holds(n) == running /\ active /\ Len(stack) >= n
From(n) == stack[Len(stack) - n]            \* the n-th below the top
Without(n) == SubSeq(stack, 1, Len(stack) - n)

Push(v) ==
  /\ Holds(0) /\ Len(stack) < MaxStack
  /\ stack' = Append(stack, v)
  /\ UNCHANGED <<active, running>>

Pop(n) ==
  /\ Holds(n)
  /\ stack' = Without(n)
  /\ UNCHANGED <<active, running>>

Replace(n, values) ==
  /\ Holds(n)
  /\ stack' = Without(n) \o values
  /\ UNCHANGED <<active, running>>

PUSH(word) == Push([type |-> TYPE_INT, u |-> word])
CPUSH(word) == Push([type |-> TYPE_CHAR, u |-> word])
\* The assembler keeps the low byte of the operand.
BPUSH(word) == Push([type |-> TYPE_BYTE, u |-> word % BYTE_MOD])
FPUSH(x) == Push(make_float(x))
HALLOC(word) == Push([type |-> TYPE_ADDRESS, u |-> word])

DUP == Holds(1) /\ Push(From(0))
SWAP == Replace(2, <<From(0), From(1)>>)
ROT == Replace(3, <<From(1), From(0), From(2)>>)

\* The value is printed; FOUT goes on into the case of FOUT_LN.
OUT == Pop(1)
FOUT == Pop(2)

\* A value is typed in.  scanf and the cast write no more than the bits of the
\* type, and nothing where they find no such value; the others are those of an
\* uninitialised variable, so that every word is possible.  With the type code of
\* an address nothing is read; nor is it with a code above that, of which this
\* module tells as much as of an address: it is no number.  How long IN waits for
\* the line is a matter of Scheduler.
Input(type) == \E v \in Values : v.type = type /\ Push(v)

Binary(Result(_, _)) == Replace(2, <<Result(From(1), From(0))>>)

ADD == Binary(primitive_add)
SUB == Binary(primitive_sub)
MUL == Binary(primitive_mul)

Exit ==
  /\ running' = FALSE
  /\ UNCHANGED <<stack, active>>

\* A check that would look at the whole word
DivisorWordIsZero(a, b) == OnIntegers(a, b) /\ b.u = 0

DivisorIsZero(a, b) == OnIntegers(a, b) /\ primitive_as_int(b) = 0

\* INT_MIN / -1: what the processor does of it, a trap or a wrap
DivisionOverflows(a, b) ==
  /\ OnIntegers(a, b) /\ primitive_as_int(b) = -1
  /\ 2 * primitive_as_int(a) = -INT_MOD

DIV ==
  /\ Holds(2)
  /\ \/ ~DivisorIsZero(From(1), From(0)) /\ Binary(primitive_div)
     \/ DivisorIsZero(From(1), From(0)) /\ Exit
     \/ DivisionOverflows(From(1), From(0)) /\ Exit

\* The check in eval_math.c, of the divisor alone
ModRefused(b) == (b.type = TYPE_INT /\ b.u = 0) \/ (b.type = TYPE_CHAR /\ b.u % CHAR_MOD = 0)

MOD ==
  /\ Holds(2)
  /\ \/ /\ ModRefused(From(0))
        /\ active' = FALSE /\ stack' = Without(2)
        /\ UNCHANGED running
     \/ /\ ~ModRefused(From(0)) /\ ~DivisorIsZero(From(1), From(0))
        /\ Binary(primitive_mod)
     \/ /\ ~ModRefused(From(0))
        /\ DivisorIsZero(From(1), From(0)) \/ DivisionOverflows(From(1), From(0))
        /\ Exit

Compare ==
  \/ Binary(LAMBDA a, b : Truth(primitive_equal(a, b)))
  \/ Binary(LAMBDA a, b : Truth(primitive_not_equal(a, b)))
  \/ Binary(LAMBDA a, b : Truth(primitive_less_than(a, b)))
  \/ Binary(LAMBDA a, b : Truth(primitive_less_than_equal(a, b)))
  \/ Binary(LAMBDA a, b : Truth(primitive_greater_than(a, b)))
  \/ Binary(LAMBDA a, b : Truth(primitive_greater_than_equal(a, b)))

\* The jump of JZ is taken, or not; JNZ is its opposite.
JZ(taken) == Pop(1) /\ taken = (From(0).u = 0)

HALT ==
  /\ Holds(0)
  /\ active' = FALSE
  /\ UNCHANGED <<stack, running>>

Next ==
  \/ \E word \in Words : PUSH(word) \/ CPUSH(word) \/ BPUSH(word)
  \/ \E x \in Floats : FPUSH(x)
  \/ \E word \in AddressWords : HALLOC(word)
  \/ \E type \in TYPE_INT..TYPE_ADDRESS : Input(type)
  \/ DUP \/ SWAP \/ ROT \/ OUT \/ FOUT
  \/ ADD \/ SUB \/ MUL \/ DIV \/ MOD \/ Compare
  \/ \E taken \in BOOLEAN : JZ(taken)
  \/ HALT

Spec == Init /\ [][Next]_vars

----------------------------------------------------------------------------
(* What a program can rely on.                                              *)

\* The number a value stands for, in steps of the grid
NumberOf(v) == IF v.type = TYPE_FLOAT THEN v.u ELSE Unit * primitive_as_int(v)

IsNumber(v) == primitive_is_numeric(v) /\ Finite(NumberOf(v))

\* primitive_as_double knows the type: no BYTE is among the operands of a FLOAT.
Converted(a, b) == TYPE_BYTE \notin {a.type, b.type} \/ TYPE_FLOAT \notin {a.type, b.type}

\* Whether a value is the number n, or for a type that cannot hold it, what its
\* overflow makes of n.
Stands(v, n) ==
  IF v.type = TYPE_FLOAT THEN v.u = ToFloat(n)
  ELSE (n - NumberOf(v)) % (Unit * INT_MOD) = 0

\* README: the promotion hierarchy BYTE, CHAR, INT, FLOAT
Rank(type) ==
  CASE type = TYPE_BYTE -> 0
    [] type = TYPE_CHAR -> 1
    [] type = TYPE_INT -> 2
    [] type = TYPE_FLOAT -> 3

\* Mixed operands are added and subtracted as the numbers they stand for: signed
\* or unsigned by their own type and whatever the unused bits of the word.  The
\* result is never narrower than either, and has the wider type of the two if that
\* is INT or FLOAT.  (Of two narrower operands the code makes an INT, where the
\* README would have the wider of their types.)
AddsNumbers ==
  [][LET a == From(1)
         b == From(0)
         result == stack'[Len(stack')]
     IN  (ADD \/ SUB) /\ IsNumber(a) /\ IsNumber(b) =>
           /\ \A v \in {a, b} :
                /\ Rank(result.type) >= Rank(v.type)
                /\ v.type \in {TYPE_INT, TYPE_FLOAT} => result.type \in {a.type, b.type}
           /\ ADD /\ Converted(a, b) => Stands(result, NumberOf(a) + NumberOf(b))
           /\ SUB /\ Converted(a, b) => Stands(result, NumberOf(a) - NumberOf(b))]_vars

\* DIV and MOD of integers go on only with a divisor that is not zero by its type,
\* whatever the unused bits of its word, and then round towards zero: the rest is
\* smaller than the divisor and has the sign of the dividend, for DIV and MOD alike.
\* INT_MIN / -1 is left out, for C does not define it.
DividesNumbers ==
  [][LET a == From(1)
         b == From(0)
         n == primitive_as_int(a)
         d == primitive_as_int(b)
         result == primitive_as_int(stack'[Len(stack')])
         IsRest(rest) == Abs(rest) < Abs(d) /\ rest * n >= 0
     IN  (DIV \/ MOD) /\ OnIntegers(a, b) /\ running' /\ active' =>
           /\ d # 0
           /\ DIV /\ ~MOD /\ ~DivisionOverflows(a, b) => IsRest(n - d * result)
           /\ MOD /\ ~DIV => IsRest(result) /\ (n - result) % Abs(d) = 0]_vars

\* The six comparisons of two values that are no BYTEs are the order of their
\* numbers, up to EPSILON: exactly one of <, = and > where they are further apart
\* than that, and = with <= and >= where they are not.
OrdersNumbers ==
  \A i, j \in DOMAIN stack :
    LET a == stack[i]
        b == stack[j]
        near == Abs(NumberOf(a) - NumberOf(b)) < Epsilon
    IN  IsNumber(a) /\ IsNumber(b) /\ TYPE_BYTE \notin {a.type, b.type} =>
          /\ primitive_equal(a, b) <=> near
          /\ primitive_not_equal(a, b) <=> ~near
          /\ primitive_less_than(a, b) <=> NumberOf(a) < NumberOf(b)
          /\ primitive_greater_than(a, b) <=> NumberOf(a) > NumberOf(b)
          /\ primitive_less_than_equal(a, b) <=> NumberOf(a) < NumberOf(b) \/ near
          /\ primitive_greater_than_equal(a, b) <=> NumberOf(a) > NumberOf(b) \/ near

\* README: CMPEQ pushes 1 if its operands are equal, 0 otherwise.
EqualPushesOne ==
  \A i, j \in DOMAIN stack :
    IsNumber(stack[i]) /\ IsNumber(stack[j]) =>
      (primitive_equal(stack[i], stack[j])
         <=> Abs(NumberOf(stack[i]) - NumberOf(stack[j])) < Epsilon)

=============================================================================
