----------------------------- MODULE Operators -----------------------------
(***************************************************************************)
(* The operators on values (src/interpret.c, src/value.c and the str       *)
(* library of src/libcall.c).                                              *)
(*                                                                         *)
(* A value on the stack is a type and 64 bits: a number, or the address of *)
(* a string that is freed by who takes the value off.  An operator takes   *)
(* its operands off the stack, the last one first, and puts its result     *)
(* there; what it makes of the 64 bits depends on which of the two types   *)
(* it looks at.  Of a value that is taken off only the type becomes nil:   *)
(* where its slot is read again, nil is there with the bits of that value. *)
(* Expressions.tla evaluates with these operators.                         *)
(***************************************************************************)
EXTENDS Integers, Sequences

CONSTANTS
  Width,   \* bound: the bits of a number, 64 in the code
  Left,    \* bound: the numbers that a nil was left with, all in the code
  Text,    \* strings, as sequences of letters
  UpperOf, \* the capital of a letter
  LowerOf

ASSUME WidthAssumption == Width \in Nat \ {0}

\* What a proof needs to know of the powers of two.
ASSUME PowerAssumption ==
  2 ^ (Width - 1) \in Nat \ {0} /\ 2 ^ Width = 2 * 2 ^ (Width - 1)

Smallest == -(2 ^ (Width - 1))
Word == Smallest .. -Smallest - 1

\* What is left of a result in 64 bits.
Wrap(n) == ((n - Smallest) % (2 ^ Width)) + Smallest

Num(n) == [type |-> "int", i |-> n]
Str(s) == [type |-> "str", s |-> s]
Bool(b) == [type |-> "bool", i |-> IF b THEN 1 ELSE 0]
Nil == [type |-> "nil", i |-> 0]
NilOf(n) == [Nil EXCEPT !.i = n]

ASSUME LeftAssumption == Left \subseteq Word

Nums == {Num(n) : n \in Word}
Strs == {Str(s) : s \in Text}
Bools == {Bool(b) : b \in BOOLEAN}
Nils == {Nil} \cup {NilOf(n) : n \in Left}
Value == Nums \cup Strs \cup Bools \cup Nils

IsStr(v) == v.type = "str"
IsNil(v) == v.type = "nil"

\* A value, but for the bits of a nil.
Plain(v) == IF IsNil(v) THEN Nil ELSE v

Same(v, w, types) == v.type = w.type /\ v.type \in types

\* The number that the 64 bits of a value make; an address makes a positive one.
Bits(v) == IF IsStr(v) THEN 1 .. -Smallest - 1 ELSE {v.i}

\* An operator's effect: what it pushes, and by how many the strings in memory
\* become more or less.
Gives(v, strings) == [v |-> v, strings |-> strings]

Freed(v) == IF IsStr(v) THEN -1 ELSE 0

-----------------------------------------------------------------------------
(* Operators of two operands, w op v: v was on top.  They are sets of       *)
(* effects, with more than one where an address is taken for a number.     *)

\* Nil is meant to be 0 here, and is the number that it was left with.
Add(w, v) ==
  CASE v.type \in {"nil", "int"} /\ w.type \in {"nil", "int"} ->
         {Gives(Num(Wrap(w.i + v.i)), 0)}
    [] IsStr(v) /\ IsStr(w) -> {Gives(Str(w.s \o v.s), -1)}
    [] OTHER -> {Gives(Nil, Freed(v) + Freed(w))}

\* Only the type of v is looked at, twice: w may be anything.
Arithmetic(w, v, otherwise, result) ==
  IF v.type = "int"
  THEN {Gives(Num(result[n]), 0) : n \in Bits(w)}
  ELSE {Gives(otherwise, Freed(v) + Freed(w))}

Difference(n, m) == Wrap(n - m)
Product(n, m) == Wrap(n * m)

\* C cuts a quotient off towards zero.
Quotient(n, m) ==
  LET abs(k) == IF k < 0 THEN -k ELSE k
      q == abs(n) \div abs(m) IN
  CASE m = 0 -> 0
    [] m # 0 /\ (n < 0) = (m < 0) -> Wrap(q)
    [] OTHER -> -q

Subtract(w, v) == Arithmetic(w, v, Nil, [n \in Word |-> Difference(n, v.i)])

Multiply(w, v) == Arithmetic(w, v, Nil, [n \in Word |-> Product(n, v.i)])

\* The type of the result is set to int at the end in every case.
Divide(w, v) == Arithmetic(w, v, Num(0), [n \in Word |-> Quotient(n, v.i)])

\* Comparisons free no string.
Equal(w, v) == {Gives(Bool(Same(v, w, {"int", "str", "bool"}) /\ v = w), 0)}

NotEqual(w, v) ==
  {Gives(Bool(v.type # w.type \/ (Same(v, w, {"int", "str", "bool"}) /\ v # w)), 0)}

Compare(w, v, holds) == {Gives(Bool(Same(v, w, {"int", "bool"}) /\ holds), 0)}

LessThan(w, v) == Compare(w, v, w.i < v.i)
LessThanOrEqual(w, v) == Compare(w, v, w.i <= v.i)
GreaterThan(w, v) == Compare(w, v, w.i > v.i)
GreaterThanOrEqual(w, v) == Compare(w, v, w.i >= v.i)

\* Mutant: a string is a condition only if it has letters.
ConvertLetters(v) ==
  CASE v.type = "str" -> v.s # <<>>
    [] v.type \in {"int", "bool"} -> v.i # 0
    [] v.type = "nil" -> FALSE

convert_to_bool(v) ==
  CASE v.type = "str" -> TRUE
    [] v.type \in {"int", "bool"} -> v.i # 0
    [] v.type = "nil" -> FALSE

LogicalAnd(w, v) ==
  {Gives(Bool(convert_to_bool(v) /\ convert_to_bool(w)), Freed(v) + Freed(w))}

LogicalOr(w, v) ==
  {Gives(Bool(convert_to_bool(v) \/ convert_to_bool(w)), Freed(v) + Freed(w))}

-----------------------------------------------------------------------------
(* Operators of one operand.                                               *)

Negate(v) == Gives(IF v.type = "int" THEN Num(Wrap(-v.i)) ELSE v, 0)

\* Mutant: the string that is replaced is freed once more when it is empty.
LogicalNotTwice(v) ==
  Gives(Bool(CASE v.type = "str" -> FALSE
               [] v.type \in {"int", "bool"} -> v.i = 0
               [] v.type = "nil" -> TRUE), IF v = Str(<<>>) THEN -2 ELSE Freed(v))

LogicalNot(v) ==
  Gives(Bool(CASE v.type = "str" -> FALSE
               [] v.type \in {"int", "bool"} -> v.i = 0
               [] v.type = "nil" -> TRUE), Freed(v))

\* The condition of a jump, as the value it stands for.  A string that is
\* false is not freed.
JumpFalse(v) ==
  LET true == CASE v.type = "str" -> v.s # <<>>
                [] v.type \in {"int", "bool"} -> v.i # 0
                [] v.type = "nil" -> FALSE IN
  Gives(Bool(true), IF true THEN Freed(v) ELSE 0)

Letters(v, changed) == Gives(IF IsStr(v) THEN Str(changed) ELSE Nil, 0)

Upper(v) == Letters(v, [i \in DOMAIN v.s |-> UpperOf[v.s[i]]])
Lower(v) == Letters(v, [i \in DOMAIN v.s |-> LowerOf[v.s[i]]])
Capitalise(v) ==
  Letters(v, [i \in DOMAIN v.s |-> IF i = 1 THEN UpperOf[v.s[i]] ELSE v.s[i]])

-----------------------------------------------------------------------------
(* The operators by name: opcode[] and libcalls[].                         *)

Binary(op, w, v) ==
  CASE op = "+" -> Add(w, v)
    [] op = "-" -> Subtract(w, v)
    [] op = "*" -> Multiply(w, v)
    [] op = "/" -> Divide(w, v)
    [] op = "==" -> Equal(w, v)
    [] op = "!=" -> NotEqual(w, v)
    [] op = "<" -> LessThan(w, v)
    [] op = "<=" -> LessThanOrEqual(w, v)
    [] op = ">" -> GreaterThan(w, v)
    [] op = ">=" -> GreaterThanOrEqual(w, v)
    [] op = "and" -> LogicalAnd(w, v)
    [] op = "or" -> LogicalOr(w, v)

Unary(op, v) ==
  CASE op = "neg" -> Negate(v)
    [] op = "not" -> LogicalNot(v)
    [] op = "if" -> JumpFalse(v)
    [] op = "upper" -> Upper(v)
    [] op = "lower" -> Lower(v)
    [] op = "capitalise" -> Capitalise(v)

BinaryOp == {"+", "-", "*", "/", "==", "!=", "<", "<=", ">", ">=", "and", "or"}
UnaryOp == {"neg", "not", "if", "upper", "lower", "capitalise"}

=============================================================================
