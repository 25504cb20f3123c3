---------------------------- MODULE ControlFlow ----------------------------
(***************************************************************************)
(* What the compiler promises about control structures (Concepts.md, the   *)
(* bytecode of opcodes.txt): each structure keeps the jumps that wait for  *)
(* a place, and gives them the place where the code that follows begins.   *)
(*                                                                         *)
(* Code is a number of bytes.  A jump is known by the position of its      *)
(* two-byte operand; until it is placed it leads to its own operand.       *)
(***************************************************************************)
EXTENDS Naturals

VARIABLES
  length,       \* the bytes emitted
  jumps,        \* where each jump leads
  depth,        \* how many structures are open
  open          \* the open structures, the innermost at depth

vars == <<length, jumps, depth, open>>

None == 0       \* no jump has its operand at the first byte

\* A while begins at start, and exit is the jump that waits for its end.
Loop(part, start, exit) ==
  [kind |-> "while", part |-> part, start |-> start, exit |-> exit, ends |-> {}]

\* In an if, exit is the jump that waits for the next ELSIF, ELSE or ENDIF, and
\* ends are those that wait for the ENDIF.
Branch(part, exit, ends) ==
  [kind |-> "if", part |-> part, start |-> 0, exit |-> exit, ends |-> ends]

\* The number of locals and of parameters come first.
Init ==
  /\ length = 2
  /\ jumps = [p \in {} |-> 0]
  /\ depth = 0
  /\ open = [i \in {} |-> 0]

At(kind, part) == depth > 0 /\ open[depth].kind = kind /\ open[depth].part = part

\* Where a statement may stand, and where code may.
Statements == depth > 0 => open[depth].part \in {"body", "then", "else"}
Coding == depth > 0 => open[depth].part # "after"

Opened(s) ==
  /\ depth' = depth + 1
  /\ open' = [i \in 1 .. depth + 1 |-> IF i <= depth THEN open[i] ELSE s]

Closed ==
  /\ depth' = depth - 1
  /\ open' = [i \in 1 .. depth - 1 |-> open[i]]

Becomes(s) == depth' = depth /\ open' = [open EXCEPT ![depth] = s]

\* One jump more, behind its opcode.
Jump == length + 1
With(to) == [p \in DOMAIN jumps \cup {Jump} |-> IF p = Jump THEN to ELSE jumps[p]]

Placed(f, ps, to) == [p \in DOMAIN f |-> IF p \in ps THEN to ELSE f[p]]

\* Expressions and simple statements.
Emit ==
  /\ Coding
  /\ length' \in Nat /\ length' > length
  /\ UNCHANGED <<jumps, depth, open>>

While ==
  /\ Statements
  /\ Opened(Loop("test", length, None))
  /\ UNCHANGED <<length, jumps>>

Do ==
  /\ At("while", "test")
  /\ length' = length + 3
  /\ jumps' = With(Jump)
  /\ Becomes(Loop("body", open[depth].start, Jump))

EndWhile ==
  /\ At("while", "body")
  /\ length' = length + 3
  /\ jumps' = Placed(With(open[depth].start), {open[depth].exit}, length + 3)
  /\ Closed

If ==
  /\ Statements
  /\ Opened(Branch("test", None, {}))
  /\ UNCHANGED <<length, jumps>>

Then ==
  /\ At("if", "test")
  /\ length' = length + 3
  /\ jumps' = With(Jump)
  /\ Becomes(Branch("then", Jump, open[depth].ends))

EndThen ==
  /\ At("if", "then")
  /\ length' = length + 3
  /\ jumps' = With(Jump)
  /\ Becomes(Branch("after", open[depth].exit, open[depth].ends \cup {Jump}))

\* ELSIF has a condition again, ELSE has none.
Else(part) ==
  /\ At("if", "after")
  /\ jumps' = Placed(jumps, {open[depth].exit}, length)
  /\ Becomes(Branch(part, None, open[depth].ends))
  /\ UNCHANGED length

EndIf ==
  /\ At("if", "after") \/ At("if", "else")
  /\ jumps' = Placed(jumps, {open[depth].exit} \cup open[depth].ends, length)
  /\ Closed
  /\ UNCHANGED length

Next ==
  \/ Emit
  \/ While \/ Do \/ EndWhile
  \/ If \/ Then \/ EndThen \/ Else("test") \/ Else("else") \/ EndIf

Spec == Init /\ [][Next]_vars
=============================================================================
