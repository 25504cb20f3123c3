------------------------------ MODULE Compiler ------------------------------
(***************************************************************************)
(* The compiler's control structures and its output buffer (src/parser.y): *)
(* records of open loops and ifs in two arrays, the addresses of jumps to  *)
(* fix up, and a buffer that is reallocated when it is full.               *)
(*                                                                         *)
(* The grammar is a stack of open structures with the part of each that is *)
(* being read ("syntax"); every action is one of the grammar's.  What      *)
(* expressions and simple statements compile to is a number of bytes.      *)
(***************************************************************************)
EXTENDS Integers

CONSTANTS
  Chunk,        \* numbers of bytes an action emits
  Text,         \* lengths of string literals
  MaxNested,    \* MAX_NESTED_CONTROLS
  InitSize,     \* 1024: the size of a new buffer
  OffsetRange,  \* 2^15: jumps have int16_t offsets
  MaxLength,    \* bound: bytes of code
  Careless      \* what else happens, see below

(* "move": realloc gives the output buffer another address                 *)
(* "text": a string literal is longer than the room that is left           *)
(* "deep": more than MaxNested structures are nested                       *)
Liberty == {"move", "text", "deep"}

ASSUME SizeAssumption ==
  /\ Chunk \subseteq 1 .. InitSize /\ Text \subseteq Nat
  /\ InitSize \in Nat /\ InitSize >= 8
  /\ MaxNested \in Nat \ {0}
  /\ OffsetRange \in Nat \ {0}
  /\ MaxLength \in Nat /\ MaxLength >= 2
ASSUME CarelessAssumption == Careless \subseteq Liberty

VARIABLES
  phase,        \* yyparse is "parsing", or it has "compiled" or "failed"
  buffer,       \* the OUTPUT_t
  offset,       \* the operand of each jump, by its position
  depth,        \* how many structures are open
  syntax,       \* the open structures, the innermost at depth
  control_count,
  loop,         \* the arrays of SCANNER_STATE_t
  if_stmt,
  starts,       \* history: where opcodes begin
  fault         \* "none", or what the compiler wrote through

vars == <<phase, buffer, offset, depth, syntax, control_count, loop, if_stmt,
          starts, fault>>

(* A buffer: nextbyte - bytecode, maxsize, and how often it has moved.  An *)
(* address is good until the buffer moves again.                           *)
Address == [pos : Nat, moves : Nat]
Null == [pos |-> 0, moves |-> 0]
Record == 0 .. MaxNested - 1

Init ==
  /\ phase = "parsing"
  /\ buffer = [next |-> 2, size |-> InitSize, moves |-> 0]
  /\ offset = [p \in {} |-> 0]
  /\ depth = 0
  /\ syntax = [i \in {} |-> 0]
  /\ control_count = -1
  /\ loop = [c \in Record |-> [loop_start |-> Null, jump_to_end |-> Null]]
  /\ if_stmt = [c \in Record |-> [next_else |-> Null, list |-> {}]]
  /\ starts = {}
  /\ fault = "none"

-----------------------------------------------------------------------------
(* The buffer.                                                             *)

\* GROW_CAPACITY(n * 1.25)
Enlarged(n) == IF 5 * n < 32 THEN 8 ELSE (5 * n) \div 2

\* realloc: in place, or to another address.
Moved(b, size) ==
  {[b EXCEPT !.size = size, !.moves = @ + m] :
     m \in IF "move" \in Careless THEN {0, 1} ELSE {0}}

\* What n calls of emit_byte can make of a buffer.
After(b, n) ==
  {[c EXCEPT !.next = @ + n] :
     c \in IF b.next + n <= b.size THEN {b} ELSE Moved(b, Enlarged(b.size))}

At(b) == [pos |-> b.next, moves |-> b.moves]

\* a may be written through while the buffer is b.
Good(a, b) == a.moves = b.moves

\* Mutant: offsets count from behind the operand.
OffsetBehind(to, at) ==
  ((to - at - 2 + OffsetRange) % (2 * OffsetRange)) - OffsetRange

\* The interpreter adds the offset to the address of the operand.
Offset(to, at) == ((to - at + OffsetRange) % (2 * OffsetRange)) - OffsetRange

\* emit_int16 behind the code, and over an operand emitted before.
With(p, n) == [q \in DOMAIN offset \cup {p} |-> IF q = p THEN n ELSE offset[q]]
Fixed(f, as, to) ==
  [p \in DOMAIN f |-> IF \E a \in as : a.pos = p THEN Offset(to, p) ELSE f[p]]

-----------------------------------------------------------------------------
(* The grammar.                                                            *)

Ready == phase = "parsing" /\ fault = "none"

In(kind, part) ==
  depth > 0 /\ syntax[depth].kind = kind /\ syntax[depth].part = part

Stmt == depth > 0 => syntax[depth].part \in {"body", "then", "else"}
Coding == depth > 0 => syntax[depth].part # "after"

Opens(kind) ==
  /\ depth' = depth + 1
  /\ syntax' = [i \in 1 .. depth + 1 |->
       IF i <= depth THEN syntax[i] ELSE [kind |-> kind, part |-> "test"]]

Becomes(part) ==
  /\ depth' = depth
  /\ syntax' = [syntax EXCEPT ![depth].part = part]

Closes ==
  /\ depth' = depth - 1
  /\ syntax' = [i \in 1 .. depth - 1 |-> syntax[i]]

Short(b) == b.next <= MaxLength

-----------------------------------------------------------------------------
(* What is emitted between the keywords.                                   *)

\* emit_byte n times.
Emit(n) ==
  /\ Ready
  /\ Coding
  /\ buffer' \in After(buffer, n)
  /\ Short(buffer')
  /\ starts' = starts \cup {buffer.next}
  /\ UNCHANGED <<phase, offset, depth, syntax, control_count, loop, if_stmt, fault>>

\* A string literal: emit_string asks for room for the length only.
EmitString(n) ==
  /\ Ready
  /\ Coding
  /\ \E b \in After(buffer, 3) :
       /\ b.next + n > b.size => "text" \in Careless
       /\ fault' = IF b.next + n > b.size THEN "overrun" ELSE "none"
       /\ buffer' = [b EXCEPT !.next = @ + n]
  /\ Short(buffer')
  /\ starts' = starts \cup {buffer.next}
  /\ UNCHANGED <<phase, offset, depth, syntax, control_count, loop, if_stmt>>

\* merge_item_buffer makes room for all of an item at once.
MergeItem(n) ==
  /\ Ready
  /\ Coding
  /\ \E b \in IF buffer.next + n >= buffer.size
              THEN Moved(buffer, Enlarged(buffer.next + n)) ELSE {buffer} :
       buffer' = [b EXCEPT !.next = @ + n]
  /\ Short(buffer')
  /\ starts' = starts \cup {buffer.next}
  /\ UNCHANGED <<phase, offset, depth, syntax, control_count, loop, if_stmt, fault>>

-----------------------------------------------------------------------------
(* WHILE and IF.                                                           *)

\* The next record.  prepare_loop and prepare_if only refuse to count beyond
\* MaxNested, which is one more than the arrays hold.
Opening ==
  /\ Ready
  /\ Stmt
  /\ depth >= MaxNested => "deep" \in Careless
  /\ control_count < MaxNested
  /\ control_count' = control_count + 1
  /\ fault' = IF control_count' \in Record THEN "none" ELSE "no_record"
  /\ UNCHANGED <<phase, buffer, offset, starts>>

\* prepare_loop
While ==
  /\ Opening
  /\ Opens("while")
  /\ loop' = [c \in Record |->
       IF c = control_count' THEN [loop[c] EXCEPT !.loop_start = At(buffer)] ELSE loop[c]]
  /\ UNCHANGED if_stmt

\* prepare_if
If ==
  /\ Opening
  /\ Opens("if")
  /\ if_stmt' = [c \in Record |->
       IF c = control_count' THEN [next_else |-> Null, list |-> {}] ELSE if_stmt[c]]
  /\ UNCHANGED loop

\* emit_byte and emit_int16(0): a jump to fix up later.  b is the buffer when
\* the address of the operand is taken.
Pending(b) ==
  /\ b \in After(buffer, 1)
  /\ buffer' \in After(b, 2)
  /\ Short(buffer')
  /\ starts' = starts \cup {buffer.next}

\* emit_jump_to_end
Do ==
  /\ Ready
  /\ In("while", "test")
  /\ Becomes("body")
  /\ \E b \in After(buffer, 1) :
       /\ Pending(b)
       /\ offset' = With(b.next, 0)
       /\ loop' = [loop EXCEPT ![control_count].jump_to_end = At(b)]
  /\ UNCHANGED <<phase, control_count, if_stmt, fault>>

\* Mutant: the record is not given back.
PoppedNot == control_count

\* Loop be gone.
Popped == control_count - 1

\* emit_jump_to_start and finalise_loop
EndWhile ==
  /\ Ready
  /\ In("while", "body")
  /\ Closes
  /\ \E b \in After(buffer, 1) :
       LET r == loop[control_count] IN
       /\ Pending(b)
       /\ fault' = IF Good(r.loop_start, b) /\ Good(r.jump_to_end, buffer')
                   THEN "none" ELSE "stale"
       /\ offset' = Fixed(With(b.next, Offset(r.loop_start.pos, b.next)),
                          {r.jump_to_end}, buffer'.next)
  /\ control_count' = Popped
  /\ UNCHANGED <<phase, loop, if_stmt>>

\* emit_jump_to_next_else
Then ==
  /\ Ready
  /\ In("if", "test")
  /\ Becomes("then")
  /\ \E b \in After(buffer, 1) :
       /\ Pending(b)
       /\ offset' = With(b.next, 0)
       /\ if_stmt' = [if_stmt EXCEPT ![control_count].next_else = At(b)]
  /\ UNCHANGED <<phase, control_count, loop, fault>>

\* emit_jump_to_endif
EndThen ==
  /\ Ready
  /\ In("if", "then")
  /\ Becomes("after")
  /\ \E b \in After(buffer, 1) :
       /\ Pending(b)
       /\ offset' = With(b.next, 0)
       /\ if_stmt' = [if_stmt EXCEPT ![control_count].list = @ \cup {At(b)}]
  /\ UNCHANGED <<phase, control_count, loop, fault>>

\* Mutant: next_else is not reset.
ElseFixedKept(r) == r

\* The end of fixup_last_else_jump.
ElseFixed(r) == [r EXCEPT !.next_else = Null]

\* fixup_last_else_jump, before another condition or before the last part.
Else(part) ==
  /\ Ready
  /\ In("if", "after")
  /\ Becomes(part)
  /\ LET r == if_stmt[control_count] IN
     /\ fault' = IF Good(r.next_else, buffer) THEN "none" ELSE "stale"
     /\ offset' = Fixed(offset, {r.next_else}, buffer.next)
     /\ if_stmt' = [if_stmt EXCEPT ![control_count] = ElseFixed(r)]
  /\ UNCHANGED <<phase, buffer, control_count, loop, starts>>

\* What finalise_if fixes up: the jump of the last condition, when there was
\* no ELSE, and the jumps to the end.
Unfixed(r) == r.list \cup IF r.next_else = Null THEN {} ELSE {r.next_else}

\* finalise_if
EndIf ==
  /\ Ready
  /\ In("if", "after") \/ In("if", "else")
  /\ Closes
  /\ LET r == if_stmt[control_count] IN
     /\ fault' = IF \A a \in Unfixed(r) : Good(a, buffer) THEN "none" ELSE "stale"
     /\ offset' = Fixed(offset, Unfixed(r), buffer.next)
     /\ if_stmt' = [if_stmt EXCEPT ![control_count] = [next_else |-> Null, list |-> {}]]
  /\ control_count' = Popped
  /\ UNCHANGED <<phase, buffer, loop, starts>>

-----------------------------------------------------------------------------

\* The end of the source: the last opcode is a halt.
Compiled ==
  /\ Ready
  /\ depth = 0
  /\ phase' = "compiled"
  /\ buffer' \in After(buffer, 1)
  /\ starts' = starts \cup {buffer.next}
  /\ UNCHANGED <<offset, depth, syntax, control_count, loop, if_stmt, fault>>

\* A syntax error anywhere: the code is thrown away.
Fails ==
  /\ Ready
  /\ phase' = "failed"
  /\ UNCHANGED <<buffer, offset, depth, syntax, control_count, loop, if_stmt,
                 starts, fault>>

Next ==
  \/ \E n \in Chunk : Emit(n) \/ MergeItem(n)
  \/ \E n \in Text : EmitString(n)
  \/ While \/ Do \/ EndWhile
  \/ If \/ Then \/ EndThen \/ Else("test") \/ Else("else") \/ EndIf
  \/ Compiled
  \/ Fails

Spec == Init /\ [][Next]_vars

-----------------------------------------------------------------------------
(* Properties.                                                             *)

TypeOK ==
  /\ phase \in {"parsing", "compiled", "failed"}
  /\ buffer \in [next : Nat, size : Nat, moves : Nat]
  /\ fault = "none" => buffer.next <= buffer.size
  /\ DOMAIN offset \subseteq Nat
  /\ \A p \in DOMAIN offset : offset[p] \in -OffsetRange .. OffsetRange - 1
  /\ depth \in Nat
  /\ syntax \in [1 .. depth -> [kind : {"while", "if"},
                                part : {"test", "body", "then", "after", "else"}]]
  /\ control_count \in -1 .. MaxNested
  /\ loop \in [Record -> [loop_start : Address, jump_to_end : Address]]
  /\ if_stmt \in [Record -> [next_else : Address, list : SUBSET Address]]
  /\ starts \subseteq Nat
  /\ fault \in {"none", "overrun", "no_record", "stale"}

\* No record beyond the arrays is used, no address in a buffer that has moved
\* is written through, and nothing is written behind the buffer's end
\* (prepare_loop, prepare_if, finalise_loop, finalise_if, emit_string).
NoFault == fault = "none"

\* A jump that is fixed up leads to where an instruction begins.
JumpsLand ==
  \A p \in DOMAIN offset :
    offset[p] # 0 => p + offset[p] \in starts \cup {buffer.next}

\* Compiled code has no jump that was never fixed up.
AllFixed == phase = "compiled" => \A p \in DOMAIN offset : offset[p] # 0

\* The records and their addresses do what ControlFlow says each structure
\* does on its own: every jump leads where its own structure sends it, however
\* structures are nested and whatever was compiled before with the same record.
OpenStructure(i) ==
  LET l == loop[i - 1]  f == if_stmt[i - 1]  s == syntax[i] IN
  [kind |-> s.kind, part |-> s.part,
   start |-> IF s.kind = "while" THEN l.loop_start.pos ELSE 0,
   exit |-> IF s.kind = "if" THEN f.next_else.pos
            ELSE IF s.part = "body" THEN l.jump_to_end.pos ELSE 0,
   ends |-> IF s.kind = "if" THEN {a.pos : a \in f.list} ELSE {}]

Flow == INSTANCE ControlFlow WITH
  length <- buffer.next,
  jumps <- [p \in DOMAIN offset |-> p + offset[p]],
  open <- [i \in 1 .. depth |-> OpenStructure(i)]
FlowSpec == Flow!Spec

=============================================================================
