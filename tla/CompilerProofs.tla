--------------------------- MODULE CompilerProofs ---------------------------
(***************************************************************************)
(* What holds of Compiler for every depth of nesting and every length of   *)
(* code.                                                                   *)
(***************************************************************************)
EXTENDS Compiler, TLAPS

-----------------------------------------------------------------------------
(* The buffer.                                                             *)

Buffer == [next : Nat, size : Nat, moves : Nat]

\* There is room for what was emitted, and at least what there was at first.
Sound(b) == b \in Buffer /\ b.next <= b.size /\ InitSize <= b.size

LEMMA EnlargedEnough ==
  ASSUME NEW n \in Nat, n >= 8
  PROVE  Enlarged(n) \in Nat /\ Enlarged(n) >= 2 * n
<1>1. Enlarged(n) = (5 * n) \div 2
  BY DEF Enlarged
<1>2. ASSUME NEW m \in Nat PROVE (5 * m) \div 2 \in Nat /\ (5 * m) \div 2 >= 2 * m
  OBVIOUS
<1> QED BY <1>1, <1>2

LEMMA MovedBuffer ==
  ASSUME NEW b \in Buffer, NEW size \in Nat, NEW c \in Moved(b, size)
  PROVE  /\ c \in Buffer /\ c.next = b.next /\ c.size = size
         /\ "move" \notin Careless => c.moves = b.moves
<1>1. PICK m \in IF "move" \in Careless THEN {0, 1} ELSE {0} :
        c = [b EXCEPT !.size = size, !.moves = @ + m]
  BY DEF Moved
<1>2. m \in Nat /\ ("move" \notin Careless => m = 0)
  BY <1>1
<1>3. b.next \in Nat /\ b.moves \in Nat
  BY DEF Buffer
<1>4. c = [next |-> b.next, size |-> size, moves |-> b.moves + m]
  BY <1>1 DEF Buffer
<1> QED BY <1>2, <1>3, <1>4 DEF Buffer

LEMMA AfterBuffer ==
  ASSUME NEW b, Sound(b), NEW n \in Nat, n <= InitSize, NEW c \in After(b, n)
  PROVE  /\ Sound(c) /\ c.next = b.next + n
         /\ "move" \notin Careless => c.moves = b.moves
<1>1. /\ b \in Buffer /\ b.next \in Nat /\ b.size \in Nat /\ b.moves \in Nat
      /\ b.next <= b.size /\ InitSize <= b.size /\ InitSize \in Nat /\ InitSize >= 8
  BY SizeAssumption DEF Sound, Buffer
<1>2. PICK d \in IF b.next + n <= b.size THEN {b} ELSE Moved(b, Enlarged(b.size)) :
        c = [d EXCEPT !.next = @ + n]
  BY DEF After
<1>3. Enlarged(b.size) \in Nat /\ Enlarged(b.size) >= 2 * b.size
  BY <1>1, EnlargedEnough
<1>4. /\ d \in Buffer /\ d.next = b.next /\ d.next + n <= d.size /\ InitSize <= d.size
      /\ "move" \notin Careless => d.moves = b.moves
  <2>1. CASE b.next + n <= b.size
    BY <1>1, <1>2, <2>1
  <2>2. CASE ~(b.next + n <= b.size)
    <3>1. d \in Moved(b, Enlarged(b.size))
      BY <1>2, <2>2
    <3>2. /\ d \in Buffer /\ d.next = b.next /\ d.size = Enlarged(b.size)
          /\ "move" \notin Careless => d.moves = b.moves
      BY <1>1, <1>3, <3>1, MovedBuffer
    <3> QED BY <1>1, <1>3, <3>2
  <2> QED BY <2>1, <2>2
<1>5. c = [next |-> d.next + n, size |-> d.size, moves |-> d.moves]
  BY <1>2, <1>4 DEF Buffer
<1>6. d.next \in Nat /\ d.size \in Nat /\ d.moves \in Nat
  BY <1>4 DEF Buffer
<1> QED BY <1>1, <1>4, <1>5, <1>6 DEF Sound, Buffer

LEMMA AtAddress ==
  ASSUME NEW b \in Buffer
  PROVE  At(b) \in Address /\ At(b).pos = b.next /\ At(b).moves = b.moves
BY DEF At, Address, Buffer

-----------------------------------------------------------------------------
(* Offsets.                                                                *)

LEMMA OffsetType ==
  ASSUME NEW to \in Int, NEW at \in Int
  PROVE  Offset(to, at) \in -OffsetRange .. OffsetRange - 1
<1>1. OffsetRange \in Nat \ {0}
  BY SizeAssumption
<1>2. ASSUME NEW x \in Int, NEW m \in Nat \ {0} PROVE x % (2 * m) \in 0 .. 2 * m - 1
  <2>1. 2 * m \in Nat \ {0}
    OBVIOUS
  <2>2. ASSUME NEW k \in Nat \ {0} PROVE x % k \in 0 .. k - 1
    OBVIOUS
  <2> HIDE DEF Offset
  <2> QED BY <2>1, <2>2
<1>3. (to - at + OffsetRange) % (2 * OffsetRange) \in 0 .. 2 * OffsetRange - 1
  BY <1>1, <1>2
<1> QED BY <1>1, <1>3 DEF Offset

\* A distance that 16 bits can hold is kept.
LEMMA OffsetExact ==
  ASSUME NEW to \in Int, NEW at \in Int,
         to - at < OffsetRange, at - to < OffsetRange
  PROVE  at + Offset(to, at) = to
<1>1. OffsetRange \in Nat \ {0}
  BY SizeAssumption
<1> DEFINE x == to - at + OffsetRange
<1>2. x \in 0 .. 2 * OffsetRange - 1
  BY <1>1
<1> HIDE DEF x
<1>3. x % (2 * OffsetRange) = x
  BY <1>1, <1>2
<1>4. x = to - at + OffsetRange
  BY DEF x
<1>5. Offset(to, at) = x - OffsetRange
  BY <1>3 DEF Offset, x
<1> QED BY <1>1, <1>4, <1>5

-----------------------------------------------------------------------------
(* Types.                                                                  *)

Item == [kind : {"while", "if"}, part : {"test", "body", "then", "after", "else"}]
Operands(f) ==
  /\ DOMAIN f \subseteq Nat
  /\ \A p \in DOMAIN f : f[p] \in -OffsetRange .. OffsetRange - 1

\* The type invariant in parts, and what else types rest on: the record in use
\* is that of the innermost structure.
BufferOK ==
  buffer \in Buffer /\ InitSize <= buffer.size
  /\ (fault = "none" => buffer.next <= buffer.size)
OffsetOK == Operands(offset)
SyntaxOK == depth \in Nat /\ syntax \in [1 .. depth -> Item]
CountOK ==
  /\ control_count \in -1 .. MaxNested
  /\ fault = "none" => control_count = depth - 1 /\ control_count < MaxNested
RecordOK ==
  /\ loop \in [Record -> [loop_start : Address, jump_to_end : Address]]
  /\ if_stmt \in [Record -> [next_else : Address, list : SUBSET Address]]
RestOK ==
  /\ phase \in {"parsing", "compiled", "failed"}
  /\ starts \subseteq Nat
  /\ fault \in {"none", "overrun", "no_record", "stale"}

TInv == BufferOK /\ OffsetOK /\ SyntaxOK /\ CountOK /\ RecordOK /\ RestOK

LEMMA TypesFollow == TInv => TypeOK
BY DEF TInv, TypeOK, BufferOK, OffsetOK, SyntaxOK, CountOK, RecordOK, RestOK,
       Buffer, Operands, Item

LEMMA InitTInv == Init => TInv
<1> SUFFICES ASSUME Init PROVE TInv
  OBVIOUS
<1>1. InitSize \in Nat /\ InitSize >= 8 /\ MaxNested \in Nat \ {0}
  BY SizeAssumption
<1>2. BufferOK
  BY <1>1 DEF Init, BufferOK, Buffer
<1>3. OffsetOK /\ SyntaxOK
  BY DEF Init, OffsetOK, SyntaxOK, Operands
<1>4. CountOK
  BY <1>1 DEF Init, CountOK
<1>5. Null \in Address
  BY DEF Null, Address
<1>6. RecordOK
  BY <1>5 DEF Init, RecordOK
<1> QED BY <1>2, <1>3, <1>4, <1>6 DEF Init, TInv, RestOK

LEMMA WithType ==
  ASSUME OffsetOK, NEW p \in Nat, NEW n \in -OffsetRange .. OffsetRange - 1
  PROVE  /\ Operands(With(p, n))
         /\ DOMAIN With(p, n) = DOMAIN offset \cup {p}
BY DEF With, OffsetOK, Operands

LEMMA FixedType ==
  ASSUME NEW f, Operands(f), NEW as, NEW to \in Nat
  PROVE  Operands(Fixed(f, as, to)) /\ DOMAIN Fixed(f, as, to) = DOMAIN f
<1>1. \A p \in DOMAIN f : p \in Int /\ to \in Int
  BY DEF Operands
<1>2. \A p \in DOMAIN f : Offset(to, p) \in -OffsetRange .. OffsetRange - 1
  BY <1>1, OffsetType
<1> QED BY <1>2 DEF Fixed, Operands

LEMMA OpensType ==
  ASSUME SyntaxOK, NEW kind \in {"while", "if"}, Opens(kind)
  PROVE  SyntaxOK' /\ depth' = depth + 1
<1>1. [kind |-> kind, part |-> "test"] \in Item
  BY DEF Item
<1> QED BY <1>1 DEF SyntaxOK, Opens

LEMMA BecomesType ==
  ASSUME SyntaxOK, depth > 0,
         NEW part \in {"test", "body", "then", "after", "else"}, Becomes(part)
  PROVE  SyntaxOK' /\ depth' = depth
BY DEF SyntaxOK, Becomes, Item

LEMMA ClosesType ==
  ASSUME SyntaxOK, depth > 0, Closes
  PROVE  SyntaxOK' /\ depth' = depth - 1
BY DEF SyntaxOK, Closes

\* The record of the innermost structure.
LEMMA TopRecord ==
  ASSUME TInv, Ready, NEW kind, NEW part, In(kind, part)
  PROVE  /\ depth \in Nat /\ depth > 0 /\ depth \in 1 .. depth
         /\ control_count = depth - 1 /\ control_count \in Record
<1>1. depth \in Nat /\ depth > 0 /\ control_count = depth - 1
      /\ control_count < MaxNested /\ MaxNested \in Nat
  BY SizeAssumption DEF TInv, SyntaxOK, CountOK, Ready, In
<1> QED BY <1>1 DEF Record

LEMMA EmitsType ==
  ASSUME TInv, Ready, NEW n \in Nat, n <= InitSize, buffer' \in After(buffer, n)
  PROVE  Sound(buffer') /\ buffer'.next = buffer.next + n /\ buffer.next \in Nat
<1>1. Sound(buffer)
  BY DEF TInv, BufferOK, Ready, Sound
<1> QED BY <1>1, AfterBuffer DEF Sound, Buffer

LEMMA PendingType ==
  ASSUME TInv, Ready, NEW b \in After(buffer, 1), Pending(b)
  PROVE  /\ Sound(b) /\ Sound(buffer')
         /\ b.next = buffer.next + 1 /\ buffer'.next = buffer.next + 3
         /\ buffer.next \in Nat /\ b.next \in Nat /\ starts' \subseteq Nat
         /\ "move" \notin Careless => b.moves = buffer.moves
                                      /\ buffer'.moves = buffer.moves
<1>1. Sound(buffer) /\ buffer.next \in Nat
  BY DEF TInv, BufferOK, Ready, Sound, Buffer
<1>2. 1 \in Nat /\ 2 \in Nat /\ 1 <= InitSize /\ 2 <= InitSize
  BY SizeAssumption
<1>3. /\ Sound(b) /\ b.next = buffer.next + 1
      /\ "move" \notin Careless => b.moves = buffer.moves
  BY <1>1, <1>2, AfterBuffer
<1>4. buffer' \in After(b, 2) /\ starts' = starts \cup {buffer.next}
  BY DEF Pending
<1>5. /\ Sound(buffer') /\ buffer'.next = b.next + 2
      /\ "move" \notin Careless => buffer'.moves = b.moves
  BY <1>2, <1>3, <1>4, AfterBuffer
<1>6. starts' \subseteq Nat
  BY <1>1, <1>4 DEF TInv, RestOK
<1> QED BY <1>1, <1>3, <1>5, <1>6

\* An action that only emits.
LEMMA CodeTInv ==
  ASSUME TInv, Ready, buffer' \in Buffer, InitSize <= buffer'.size,
         fault' \in {"none", "overrun"},
         fault' = "none" => buffer'.next <= buffer'.size,
         starts' = starts \cup {buffer.next},
         phase' \in {"parsing", "compiled", "failed"},
         UNCHANGED <<offset, depth, syntax, control_count, loop, if_stmt>>
  PROVE  TInv'
<1>1. BufferOK'
  BY DEF BufferOK
<1>2. OffsetOK' /\ SyntaxOK' /\ RecordOK'
  BY DEF TInv, OffsetOK, SyntaxOK, RecordOK
<1>3. CountOK'
  BY DEF TInv, CountOK, Ready
<1>4. RestOK'
  BY DEF TInv, RestOK, BufferOK, Buffer
<1> QED BY <1>1, <1>2, <1>3, <1>4 DEF TInv

LEMMA EmitTInv ==
  ASSUME TInv, NEW n \in Chunk, Emit(n)
  PROVE  TInv' /\ buffer'.next = buffer.next + n
<1>1. n \in Nat /\ n <= InitSize
  BY SizeAssumption
<1>2. Ready /\ buffer' \in After(buffer, n)
  BY DEF Emit
<1>3. Sound(buffer') /\ buffer'.next = buffer.next + n
  BY <1>1, <1>2, EmitsType
<1>4. fault' = "none" /\ phase' = "parsing"
  BY DEF Emit, Ready
<1> QED BY <1>2, <1>3, <1>4, CodeTInv DEF Emit, Sound

LEMMA StringTInv ==
  ASSUME TInv, NEW n \in Text, EmitString(n)
  PROVE  TInv' /\ buffer'.next = buffer.next + 3 + n
<1>1. n \in Nat /\ 3 \in Nat /\ 3 <= InitSize
  BY SizeAssumption
<1>2. PICK b \in After(buffer, 3) :
        /\ fault' = IF b.next + n > b.size THEN "overrun" ELSE "none"
        /\ buffer' = [b EXCEPT !.next = @ + n]
  BY DEF EmitString
<1>3. Ready /\ Sound(buffer) /\ buffer.next \in Nat
  BY DEF EmitString, Ready, TInv, BufferOK, Sound, Buffer
<1>4. Sound(b) /\ b.next = buffer.next + 3
  BY <1>1, <1>2, <1>3, AfterBuffer
<1>5. buffer' = [next |-> b.next + n, size |-> b.size, moves |-> b.moves]
  BY <1>2, <1>4 DEF Sound, Buffer
<1>6. b.next \in Nat /\ b.size \in Nat /\ b.moves \in Nat /\ InitSize <= b.size
  BY <1>4 DEF Sound, Buffer
<1>7. buffer' \in Buffer /\ InitSize <= buffer'.size
  BY <1>1, <1>5, <1>6 DEF Buffer
<1>8. fault' \in {"none", "overrun"} /\ (fault' = "none" => buffer'.next <= buffer'.size)
  BY <1>1, <1>2, <1>5, <1>6
<1>9. phase' = "parsing"
  BY DEF EmitString, Ready
<1>10. TInv'
  BY <1>3, <1>7, <1>8, <1>9, CodeTInv DEF EmitString
<1> QED BY <1>1, <1>3, <1>4, <1>5, <1>10

LEMMA MergeTInv ==
  ASSUME TInv, NEW n \in Chunk, MergeItem(n)
  PROVE  /\ TInv' /\ buffer'.next = buffer.next + n
         /\ "move" \notin Careless => buffer'.moves = buffer.moves
<1>1. /\ n \in Nat /\ Ready /\ Sound(buffer) /\ buffer \in Buffer
      /\ buffer.next \in Nat /\ buffer.size \in Nat /\ buffer.next <= buffer.size
      /\ InitSize <= buffer.size /\ InitSize \in Nat /\ InitSize >= 8
  BY SizeAssumption DEF MergeItem, Ready, TInv, BufferOK, Sound, Buffer
<1>2. PICK b \in IF buffer.next + n >= buffer.size
                 THEN Moved(buffer, Enlarged(buffer.next + n)) ELSE {buffer} :
        buffer' = [b EXCEPT !.next = @ + n]
  BY DEF MergeItem
<1>3. /\ b \in Buffer /\ b.next = buffer.next /\ InitSize <= b.size
      /\ b.next + n <= b.size
      /\ "move" \notin Careless => b.moves = buffer.moves
  <2>1. CASE buffer.next + n >= buffer.size
    <3>1. buffer.next + n \in Nat /\ buffer.next + n >= 8
      BY <1>1, <2>1
    <3>2. /\ Enlarged(buffer.next + n) \in Nat
          /\ Enlarged(buffer.next + n) >= 2 * (buffer.next + n)
      BY <3>1, EnlargedEnough
    <3>3. b \in Moved(buffer, Enlarged(buffer.next + n))
      BY <1>2, <2>1
    <3>4. /\ b \in Buffer /\ b.next = buffer.next
          /\ b.size = Enlarged(buffer.next + n)
          /\ "move" \notin Careless => b.moves = buffer.moves
      BY <1>1, <3>2, <3>3, MovedBuffer
    <3> HIDE DEF Enlarged
    <3> QED BY <1>1, <2>1, <3>2, <3>4
  <2>2. CASE ~(buffer.next + n >= buffer.size)
    BY <1>1, <1>2, <2>2
  <2> QED BY <2>1, <2>2
<1>4. buffer' = [next |-> b.next + n, size |-> b.size, moves |-> b.moves]
  BY <1>2, <1>3 DEF Buffer
<1>5. b.next \in Nat /\ b.size \in Nat /\ b.moves \in Nat
  BY <1>3 DEF Buffer
<1>6. buffer' \in Buffer /\ InitSize <= buffer'.size /\ buffer'.next <= buffer'.size
  BY <1>1, <1>3, <1>4, <1>5 DEF Buffer
<1>7. fault' = "none" /\ phase' = "parsing"
  BY DEF MergeItem, Ready
<1>8. TInv'
  BY <1>1, <1>6, <1>7, CodeTInv DEF MergeItem
<1> QED BY <1>3, <1>4, <1>8

LEMMA CompiledTInv ==
  ASSUME TInv, Compiled
  PROVE  TInv' /\ buffer'.next = buffer.next + 1
<1>1. 1 \in Nat /\ 1 <= InitSize
  BY SizeAssumption
<1>2. Ready /\ buffer' \in After(buffer, 1)
  BY DEF Compiled
<1>3. Sound(buffer') /\ buffer'.next = buffer.next + 1
  BY <1>1, <1>2, EmitsType
<1>4. fault' = "none" /\ phase' = "compiled"
  BY DEF Compiled, Ready
<1> QED BY <1>2, <1>3, <1>4, CodeTInv DEF Compiled, Sound

LEMMA WhileTInv == ASSUME TInv, While PROVE TInv'
<1>1. Ready /\ Opens("while") /\ control_count < MaxNested
      /\ control_count' = control_count + 1
      /\ fault' = (IF control_count' \in Record THEN "none" ELSE "no_record")
      /\ UNCHANGED <<phase, buffer, offset, starts>>
  BY DEF While, Opening
<1>2. SyntaxOK' /\ depth' = depth + 1
  BY <1>1, OpensType DEF TInv
<1>3. CountOK'
  BY <1>1, <1>2, SizeAssumption DEF TInv, CountOK, SyntaxOK, Ready, Record
<1>4. RecordOK'
  <2>1. At(buffer) \in Address
    BY AtAddress DEF TInv, BufferOK
  <2>2. \A c \in Record : loop'[c] \in [loop_start : Address, jump_to_end : Address]
    BY <2>1 DEF While, TInv, RecordOK
  <2> QED BY <2>2 DEF While, TInv, RecordOK
<1>5. BufferOK' /\ OffsetOK' /\ RestOK'
  BY <1>1 DEF TInv, BufferOK, OffsetOK, RestOK, Ready
<1> QED BY <1>2, <1>3, <1>4, <1>5 DEF TInv

LEMMA IfTInv == ASSUME TInv, If PROVE TInv'
<1>1. Ready /\ Opens("if") /\ control_count < MaxNested
      /\ control_count' = control_count + 1
      /\ fault' = (IF control_count' \in Record THEN "none" ELSE "no_record")
      /\ UNCHANGED <<phase, buffer, offset, starts>>
  BY DEF If, Opening
<1>2. SyntaxOK' /\ depth' = depth + 1
  BY <1>1, OpensType DEF TInv
<1>3. CountOK'
  BY <1>1, <1>2, SizeAssumption DEF TInv, CountOK, SyntaxOK, Ready, Record
<1>4. RecordOK'
  <2>1. [next_else |-> Null, list |-> {}] \in [next_else : Address, list : SUBSET Address]
    BY DEF Null, Address
  <2> QED BY <2>1 DEF If, TInv, RecordOK
<1>5. BufferOK' /\ OffsetOK' /\ RestOK'
  BY <1>1 DEF TInv, BufferOK, OffsetOK, RestOK, Ready
<1> QED BY <1>2, <1>3, <1>4, <1>5 DEF TInv

\* An action that emits a jump: what is left to show.
LEMMA JumpTInv ==
  ASSUME TInv, Ready, NEW b \in After(buffer, 1), Pending(b),
         SyntaxOK', OffsetOK', CountOK', RecordOK',
         fault' \in {"none", "stale"}, UNCHANGED phase
  PROVE  TInv'
<1>1. Sound(buffer') /\ starts' \subseteq Nat
  BY PendingType
<1>2. BufferOK'
  BY <1>1 DEF BufferOK, Sound
<1>3. RestOK'
  BY <1>1 DEF TInv, RestOK
<1> QED BY <1>2, <1>3 DEF TInv

LEMMA DoTInv == ASSUME TInv, Do PROVE TInv'
<1>1. Ready /\ In("while", "test") /\ Becomes("body")
      /\ UNCHANGED <<phase, control_count, if_stmt, fault>>
  BY DEF Do
<1>2. PICK b \in After(buffer, 1) :
        /\ Pending(b) /\ offset' = With(b.next, 0)
        /\ loop' = [loop EXCEPT ![control_count].jump_to_end = At(b)]
  BY DEF Do
<1>3. b \in Buffer /\ b.next \in Nat
  BY <1>1, <1>2, PendingType DEF Sound
<1>4. depth > 0 /\ control_count \in Record
  BY <1>1, TopRecord
<1>5. SyntaxOK' /\ depth' = depth
  BY <1>1, <1>4, BecomesType DEF TInv
<1>6. 0 \in -OffsetRange .. OffsetRange - 1
  BY SizeAssumption
<1>7. OffsetOK'
  BY <1>2, <1>3, <1>6, WithType DEF TInv, OffsetOK
<1>8. At(b) \in Address
  BY <1>3, AtAddress
<1>9. RecordOK'
  BY <1>1, <1>2, <1>4, <1>8 DEF TInv, RecordOK
<1>10. CountOK'
  BY <1>1, <1>5 DEF TInv, CountOK
<1> QED BY <1>1, <1>2, <1>5, <1>7, <1>9, <1>10, JumpTInv DEF Ready

LEMMA EndWhileTInv == ASSUME TInv, EndWhile PROVE TInv'
<1> DEFINE r == loop[control_count]
<1>1. Ready /\ In("while", "body") /\ Closes /\ control_count' = Popped
      /\ UNCHANGED <<phase, loop, if_stmt>>
  BY DEF EndWhile
<1>2. PICK b \in After(buffer, 1) :
        /\ Pending(b)
        /\ fault' = IF Good(r.loop_start, b) /\ Good(r.jump_to_end, buffer')
                    THEN "none" ELSE "stale"
        /\ offset' = Fixed(With(b.next, Offset(r.loop_start.pos, b.next)),
                           {r.jump_to_end}, buffer'.next)
  BY DEF EndWhile
<1>3. b.next \in Nat /\ buffer'.next \in Nat
  BY <1>1, <1>2, PendingType
<1>4. depth > 0 /\ control_count \in Record /\ control_count = depth - 1 /\ depth \in Nat
  BY <1>1, TopRecord
<1>5. SyntaxOK' /\ depth' = depth - 1
  BY <1>1, <1>4, ClosesType DEF TInv
<1>6. r.loop_start.pos \in Nat
  BY <1>4 DEF TInv, RecordOK, Address
<1>7. Offset(r.loop_start.pos, b.next) \in -OffsetRange .. OffsetRange - 1
  <2>1. r.loop_start.pos \in Int /\ b.next \in Int
    BY <1>3, <1>6
  <2> HIDE DEF r
  <2> QED BY <2>1, OffsetType
<1>8. OffsetOK'
  BY <1>2, <1>3, <1>7, WithType, FixedType DEF TInv, OffsetOK
<1>9. CountOK'
  BY <1>1, <1>4, <1>5, SizeAssumption DEF CountOK, Popped, Record
<1>10. RecordOK'
  BY <1>1 DEF TInv, RecordOK
<1> QED BY <1>1, <1>2, <1>5, <1>8, <1>9, <1>10, JumpTInv

LEMMA ThenTInv == ASSUME TInv, Then PROVE TInv'
<1>1. Ready /\ In("if", "test") /\ Becomes("then")
      /\ UNCHANGED <<phase, control_count, loop, fault>>
  BY DEF Then
<1>2. PICK b \in After(buffer, 1) :
        /\ Pending(b) /\ offset' = With(b.next, 0)
        /\ if_stmt' = [if_stmt EXCEPT ![control_count].next_else = At(b)]
  BY DEF Then
<1>3. b \in Buffer /\ b.next \in Nat
  BY <1>1, <1>2, PendingType DEF Sound
<1>4. depth > 0 /\ control_count \in Record
  BY <1>1, TopRecord
<1>5. SyntaxOK' /\ depth' = depth
  BY <1>1, <1>4, BecomesType DEF TInv
<1>6. 0 \in -OffsetRange .. OffsetRange - 1
  BY SizeAssumption
<1>7. OffsetOK'
  BY <1>2, <1>3, <1>6, WithType DEF TInv, OffsetOK
<1>8. At(b) \in Address
  BY <1>3, AtAddress
<1>9. RecordOK'
  BY <1>1, <1>2, <1>4, <1>8 DEF TInv, RecordOK
<1>10. CountOK'
  BY <1>1, <1>5 DEF TInv, CountOK
<1> QED BY <1>1, <1>2, <1>5, <1>7, <1>9, <1>10, JumpTInv DEF Ready

LEMMA EndThenTInv == ASSUME TInv, EndThen PROVE TInv'
<1>1. Ready /\ In("if", "then") /\ Becomes("after")
      /\ UNCHANGED <<phase, control_count, loop, fault>>
  BY DEF EndThen
<1>2. PICK b \in After(buffer, 1) :
        /\ Pending(b) /\ offset' = With(b.next, 0)
        /\ if_stmt' = [if_stmt EXCEPT ![control_count].list = @ \cup {At(b)}]
  BY DEF EndThen
<1>3. b \in Buffer /\ b.next \in Nat
  BY <1>1, <1>2, PendingType DEF Sound
<1>4. depth > 0 /\ control_count \in Record
  BY <1>1, TopRecord
<1>5. SyntaxOK' /\ depth' = depth
  BY <1>1, <1>4, BecomesType DEF TInv
<1>6. 0 \in -OffsetRange .. OffsetRange - 1
  BY SizeAssumption
<1>7. OffsetOK'
  BY <1>2, <1>3, <1>6, WithType DEF TInv, OffsetOK
<1>8. At(b) \in Address
  BY <1>3, AtAddress
<1>9. RecordOK'
  BY <1>1, <1>2, <1>4, <1>8 DEF TInv, RecordOK
<1>10. CountOK'
  BY <1>1, <1>5 DEF TInv, CountOK
<1> QED BY <1>1, <1>2, <1>5, <1>7, <1>9, <1>10, JumpTInv DEF Ready

LEMMA ElseTInv ==
  ASSUME TInv, NEW part \in {"test", "else"}, Else(part)
  PROVE  TInv'
<1> DEFINE r == if_stmt[control_count]
<1>1. /\ Ready /\ In("if", "after") /\ Becomes(part)
      /\ fault' \in {"none", "stale"}
      /\ offset' = Fixed(offset, {r.next_else}, buffer.next)
      /\ if_stmt' = [if_stmt EXCEPT ![control_count] = ElseFixed(r)]
      /\ UNCHANGED <<phase, buffer, control_count, loop, starts>>
  BY DEF Else
<1>2. depth > 0 /\ control_count \in Record
  BY <1>1, TopRecord
<1>3. SyntaxOK' /\ depth' = depth
  BY <1>1, <1>2, BecomesType DEF TInv
<1>4. OffsetOK'
  BY <1>1, FixedType DEF TInv, OffsetOK, BufferOK, Buffer
<1>5. ElseFixed(r) \in [next_else : Address, list : SUBSET Address]
  BY <1>2 DEF ElseFixed, TInv, RecordOK, Null, Address
<1>6. RecordOK'
  BY <1>1, <1>2, <1>5 DEF TInv, RecordOK
<1>7. BufferOK' /\ CountOK' /\ RestOK'
  BY <1>1, <1>3 DEF TInv, BufferOK, CountOK, RestOK, Ready
<1> QED BY <1>3, <1>4, <1>6, <1>7 DEF TInv

LEMMA EndIfTInv == ASSUME TInv, EndIf PROVE TInv'
<1> DEFINE r == if_stmt[control_count]
<1>1. /\ Ready /\ Closes /\ control_count' = Popped
      /\ fault' \in {"none", "stale"}
      /\ offset' = Fixed(offset, Unfixed(r), buffer.next)
      /\ if_stmt' = [if_stmt EXCEPT ![control_count] = [next_else |-> Null, list |-> {}]]
      /\ UNCHANGED <<phase, buffer, loop, starts>>
  BY DEF EndIf
<1>2. depth > 0 /\ control_count \in Record /\ control_count = depth - 1 /\ depth \in Nat
  <2>1. In("if", "after") \/ In("if", "else")
    BY DEF EndIf
  <2>2. CASE In("if", "after")
    BY <1>1, <2>2, TopRecord
  <2>3. CASE In("if", "else")
    BY <1>1, <2>3, TopRecord
  <2> QED BY <2>1, <2>2, <2>3
<1>3. SyntaxOK' /\ depth' = depth - 1
  BY <1>1, <1>2, ClosesType DEF TInv
<1>4. OffsetOK'
  BY <1>1, FixedType DEF TInv, OffsetOK, BufferOK, Buffer
<1>5. [next_else |-> Null, list |-> {}] \in [next_else : Address, list : SUBSET Address]
  BY DEF Null, Address
<1>6. RecordOK'
  BY <1>1, <1>2, <1>5 DEF TInv, RecordOK
<1>7. CountOK'
  BY <1>1, <1>2, <1>3, SizeAssumption DEF CountOK, Popped, Record
<1>8. BufferOK' /\ RestOK'
  BY <1>1 DEF TInv, BufferOK, RestOK, Ready
<1> QED BY <1>3, <1>4, <1>6, <1>7, <1>8 DEF TInv

LEMMA NextTInv == TInv /\ [Next]_vars => TInv'
<1> SUFFICES ASSUME TInv, [Next]_vars PROVE TInv'
  OBVIOUS
<1>1. ASSUME NEW n \in Chunk, Emit(n) PROVE TInv'
  BY <1>1, EmitTInv
<1>2. ASSUME NEW n \in Chunk, MergeItem(n) PROVE TInv'
  BY <1>2, MergeTInv
<1>3. ASSUME NEW n \in Text, EmitString(n) PROVE TInv'
  BY <1>3, StringTInv
<1>4. CASE While
  BY <1>4, WhileTInv
<1>5. CASE Do
  BY <1>5, DoTInv
<1>6. CASE EndWhile
  BY <1>6, EndWhileTInv
<1>7. CASE If
  BY <1>7, IfTInv
<1>8. CASE Then
  BY <1>8, ThenTInv
<1>9. CASE EndThen
  BY <1>9, EndThenTInv
<1>10. CASE Else("test") \/ Else("else")
  BY <1>10, ElseTInv
<1>11. CASE EndIf
  BY <1>11, EndIfTInv
<1>12. CASE Compiled
  BY <1>12, CompiledTInv
<1>13. CASE Fails
  BY <1>13 DEF Fails, TInv, BufferOK, OffsetOK, SyntaxOK, CountOK, RecordOK, RestOK
<1>14. CASE UNCHANGED vars
  BY <1>14 DEF vars, TInv, BufferOK, OffsetOK, SyntaxOK, CountOK, RecordOK, RestOK
<1> QED BY <1>1, <1>2, <1>3, <1>4, <1>5, <1>6, <1>7, <1>8, <1>9, <1>10, <1>11,
           <1>12, <1>13, <1>14 DEF Next

THEOREM TInvHolds == Spec => []TInv
BY InitTInv, NextTInv, PTL DEF Spec

\* The buffer, the jumps and the records keep their types, also when the
\* buffer moves, a string is too long or too many structures are nested.
THEOREM TypeCorrect == Spec => []TypeOK
BY TypesFollow, TInvHolds, PTL
-----------------------------------------------------------------------------
(* With a buffer that does not move, strings that fit, structures no       *)
(* deeper than the arrays and code shorter than 2^15 bytes.                *)

Ordinary == Careless = {} /\ MaxLength < OffsetRange

\* A place for a jump to lead to, and a jump that waits for one.
Landing(q) == q \in starts \cup {buffer.next}
Waiting(a) == a \in Address /\ a.moves = 0 /\ a.pos \in DOMAIN offset

\* The record of the i-th structure fits the part that is being read.
WhileOK(i) ==
  /\ syntax[i].part \in {"test", "body"}
  /\ loop[i - 1].loop_start.moves = 0
  /\ Landing(loop[i - 1].loop_start.pos)
  /\ syntax[i].part = "body" => Waiting(loop[i - 1].jump_to_end)
IfOK(i) ==
  /\ syntax[i].part \in {"test", "then", "after", "else"}
  /\ \A a \in if_stmt[i - 1].list : Waiting(a)
  /\ IF syntax[i].part \in {"then", "after"}
     THEN Waiting(if_stmt[i - 1].next_else) ELSE if_stmt[i - 1].next_else = Null
StructureOK(i) == IF syntax[i].kind = "while" THEN WhileOK(i) ELSE IfOK(i)

\* Where the jumps are that the i-th structure will fix up.
Waits(i) ==
  IF syntax[i].kind = "while"
  THEN {p \in DOMAIN offset : syntax[i].part = "body"
                              /\ p = loop[i - 1].jump_to_end.pos}
  ELSE {p \in DOMAIN offset :
          \/ \E a \in if_stmt[i - 1].list : a.pos = p
          \/ syntax[i].part \in {"then", "after"} /\ p = if_stmt[i - 1].next_else.pos}

PlainOK ==
  /\ fault = "none" /\ buffer.moves = 0 /\ depth <= MaxNested
  /\ phase = "parsing" => buffer.next <= MaxLength
  /\ phase = "compiled" => depth = 0
OpenOK == \A i \in 1 .. depth : StructureOK(i)
PlacesOK ==
  /\ \A p \in DOMAIN offset : p > 0 /\ p < buffer.next
  /\ \A s \in starts : s <= buffer.next
LandOK == \A p \in DOMAIN offset : offset[p] # 0 => Landing(p + offset[p])
WaitOK == \A p \in DOMAIN offset : offset[p] = 0 => \E i \in 1 .. depth : p \in Waits(i)

FInv == TInv /\ PlainOK /\ OpenOK /\ PlacesOK /\ LandOK /\ WaitOK

LEMMA InitFInv ==
  ASSUME Ordinary, Init
  PROVE  FInv
<1>1. TInv
  BY InitTInv
<1>2. PlainOK
  BY SizeAssumption DEF Init, PlainOK
<1>3. OpenOK /\ PlacesOK /\ LandOK /\ WaitOK
  BY DEF Init, OpenOK, PlacesOK, LandOK, WaitOK
<1> QED BY <1>1, <1>2, <1>3 DEF FInv

\* A structure whose record is left alone stays in order.
LEMMA StructureKept ==
  ASSUME NEW i, StructureOK(i),
         syntax'[i] = syntax[i], loop'[i - 1] = loop[i - 1],
         if_stmt'[i - 1] = if_stmt[i - 1],
         DOMAIN offset \subseteq DOMAIN offset',
         starts \cup {buffer.next} \subseteq starts' \cup {buffer'.next}
  PROVE  StructureOK(i)' /\ Waits(i) \subseteq Waits(i)'
<1>1. \A q : Landing(q) => Landing(q)'
  BY DEF Landing
<1>2. \A a : Waiting(a) => Waiting(a)'
  BY DEF Waiting
<1>3. StructureOK(i)'
  <2>1. CASE syntax[i].kind = "while"
    BY <1>1, <1>2, <2>1 DEF StructureOK, WhileOK
  <2>2. CASE syntax[i].kind # "while"
    BY <1>2, <2>2 DEF StructureOK, IfOK
  <2> QED BY <2>1, <2>2
<1>4. Waits(i) \subseteq Waits(i)'
  BY DEF Waits
<1> QED BY <1>3, <1>4

\* An action that only emits.
LEMMA CodeFInv ==
  ASSUME FInv, Ready, TInv', NEW n \in Nat, buffer'.next = buffer.next + n,
         buffer'.moves = 0, fault' = "none",
         phase' = "parsing" => buffer'.next <= MaxLength,
         phase' = "compiled" => depth = 0,
         starts' = starts \cup {buffer.next},
         UNCHANGED <<offset, depth, syntax, control_count, loop, if_stmt>>
  PROVE  FInv'
<1>1. buffer.next \in Nat /\ starts \subseteq Nat /\ DOMAIN offset \subseteq Nat
  BY DEF FInv, TInv, BufferOK, Buffer, RestOK, OffsetOK, Operands
<1>2. PlainOK'
  BY DEF FInv, PlainOK
<1>3. \A i \in 1 .. depth : StructureOK(i)' /\ Waits(i) \subseteq Waits(i)'
  BY StructureKept DEF FInv, OpenOK
<1>4. OpenOK'
  BY <1>3 DEF OpenOK
<1>5. PlacesOK'
  BY <1>1 DEF FInv, PlacesOK
<1>6. LandOK'
  BY DEF FInv, LandOK, Landing
<1>7. WaitOK'
  BY <1>3 DEF FInv, WaitOK
<1> QED BY <1>2, <1>4, <1>5, <1>6, <1>7 DEF FInv

LEMMA EmitFInv ==
  ASSUME Ordinary, FInv, NEW n \in Chunk, Emit(n)
  PROVE  FInv'
<1>1. n \in Nat /\ n <= InitSize /\ Sound(buffer) /\ buffer' \in After(buffer, n)
  BY SizeAssumption DEF Emit, Ready, FInv, TInv, BufferOK, Sound
<1>2. TInv' /\ buffer'.next = buffer.next + n
  BY EmitTInv DEF FInv
<1>3. buffer'.moves = 0
  BY <1>1, AfterBuffer DEF Ordinary, FInv, PlainOK
<1> QED BY <1>1, <1>2, <1>3, CodeFInv DEF Emit, Ready, Short

LEMMA StringFInv ==
  ASSUME Ordinary, FInv, NEW n \in Text, EmitString(n)
  PROVE  FInv'
<1>1. n \in Nat /\ 3 \in Nat /\ 3 <= InitSize /\ Sound(buffer) /\ Ready
  BY SizeAssumption DEF EmitString, Ready, FInv, TInv, BufferOK, Sound
<1>2. TInv' /\ buffer'.next = buffer.next + 3 + n /\ buffer.next \in Nat
  BY StringTInv DEF FInv, TInv, BufferOK, Buffer
<1>3. PICK b \in After(buffer, 3) :
        /\ b.next + n > b.size => "text" \in Careless
        /\ fault' = IF b.next + n > b.size THEN "overrun" ELSE "none"
        /\ buffer' = [b EXCEPT !.next = @ + n]
  BY DEF EmitString
<1>4. b.moves = 0 /\ b \in Buffer
  BY <1>1, <1>3, AfterBuffer DEF Ordinary, FInv, PlainOK, Sound
<1>5. buffer'.moves = 0 /\ fault' = "none"
  BY <1>3, <1>4 DEF Ordinary, Buffer
<1>6. 3 + n \in Nat /\ buffer'.next = buffer.next + (3 + n)
  BY <1>1, <1>2
<1> QED BY <1>1, <1>2, <1>5, <1>6, CodeFInv DEF EmitString, Ready, Short

LEMMA MergeFInv ==
  ASSUME Ordinary, FInv, NEW n \in Chunk, MergeItem(n)
  PROVE  FInv'
<1>1. TInv' /\ buffer'.next = buffer.next + n /\ buffer'.moves = 0 /\ n \in Nat
  BY MergeTInv, SizeAssumption DEF Ordinary, FInv, PlainOK
<1> QED BY <1>1, CodeFInv DEF MergeItem, Ready, Short

LEMMA CompiledFInv ==
  ASSUME Ordinary, FInv, Compiled
  PROVE  FInv'
<1>1. 1 \in Nat /\ 1 <= InitSize /\ Sound(buffer) /\ buffer' \in After(buffer, 1)
  BY SizeAssumption DEF Compiled, Ready, FInv, TInv, BufferOK, Sound
<1>2. TInv' /\ buffer'.next = buffer.next + 1
  BY CompiledTInv DEF FInv
<1>3. buffer'.moves = 0
  BY <1>1, AfterBuffer DEF Ordinary, FInv, PlainOK
<1> QED BY <1>1, <1>2, <1>3, CodeFInv DEF Compiled, Ready

\* The i-th record belongs to the i-th structure only.
LEMMA OtherRecords ==
  ASSUME TInv, Ready, NEW i \in 1 .. depth
  PROVE  /\ depth \in Nat /\ i - 1 \in Record /\ control_count = depth - 1
         /\ i # depth => i \in 1 .. depth - 1 /\ i - 1 # control_count
BY SizeAssumption DEF TInv, SyntaxOK, CountOK, Ready, Record

LEMMA OpeningFInv ==
  ASSUME Ordinary, FInv, Opening, TInv', NEW kind, Opens(kind),
         \A c \in Record : c # control_count' =>
           loop'[c] = loop[c] /\ if_stmt'[c] = if_stmt[c],
         control_count' \in Record => StructureOK(depth)'
  PROVE  FInv'
<1>1. /\ Ready /\ TInv /\ depth \in Nat /\ control_count = depth - 1
      /\ depth < MaxNested /\ MaxNested \in Nat /\ depth' = depth + 1
      /\ control_count' = depth
      /\ UNCHANGED <<phase, buffer, offset, starts>>
      /\ fault' = IF control_count' \in Record THEN "none" ELSE "no_record"
  <2>1. /\ TInv /\ depth \in Nat /\ control_count \in -1 .. MaxNested
        /\ control_count = depth - 1 /\ MaxNested \in Nat
    BY SizeAssumption DEF FInv, TInv, SyntaxOK, CountOK, Opening, Ready
  <2>2. ~(depth >= MaxNested)
    BY DEF Opening, Ordinary
  <2>3. depth' = depth + 1 /\ control_count' = control_count + 1
    BY DEF Opens, Opening
  <2> QED BY <2>1, <2>2, <2>3 DEF Opening
<1>2. depth \in Record /\ fault' = "none"
  BY <1>1 DEF Record
<1>3. PlainOK'
  BY <1>1, <1>2 DEF FInv, PlainOK, Ready
<1>4. \A i \in 1 .. depth : StructureOK(i)' /\ Waits(i) \subseteq Waits(i)'
  <2> SUFFICES ASSUME NEW i \in 1 .. depth
               PROVE  StructureOK(i)' /\ Waits(i) \subseteq Waits(i)'
    OBVIOUS
  <2>1. i - 1 \in Record /\ i - 1 # control_count'
    <3>1. i - 1 \in Record
      BY <1>1, OtherRecords
    <3>2. i - 1 # depth
      BY <1>1
    <3> QED BY <1>1, <3>1, <3>2
  <2>2. syntax'[i] = syntax[i] /\ StructureOK(i)
    BY <1>1 DEF Opens, FInv, OpenOK
  <2>3. loop'[i - 1] = loop[i - 1] /\ if_stmt'[i - 1] = if_stmt[i - 1]
    BY <2>1
  <2> QED BY <1>1, <2>2, <2>3, StructureKept
<1>5. OpenOK'
  BY <1>1, <1>2, <1>4 DEF OpenOK
<1>6. PlacesOK' /\ LandOK'
  BY <1>1 DEF FInv, PlacesOK, LandOK, Landing
<1>7. WaitOK'
  BY <1>1, <1>4 DEF FInv, WaitOK
<1> QED BY <1>3, <1>5, <1>6, <1>7 DEF FInv

LEMMA WhileFInv ==
  ASSUME Ordinary, FInv, While
  PROVE  FInv'
<1>1. TInv' /\ Opening /\ Opens("while") /\ UNCHANGED if_stmt
      /\ UNCHANGED <<buffer, starts>>
  BY WhileTInv DEF FInv, While, Opening
<1>2. \A c \in Record : loop'[c] =
        IF c = control_count' THEN [loop[c] EXCEPT !.loop_start = At(buffer)] ELSE loop[c]
  BY DEF While
<1>3. ASSUME control_count' \in Record
      PROVE  StructureOK(depth)'
  <2>1. depth \in Nat /\ control_count' = depth
    BY DEF While, Opening, Ready, FInv, TInv, SyntaxOK, CountOK
  <2>2. syntax'[depth + 1] = [kind |-> "while", part |-> "test"]
    BY <1>1, <2>1 DEF Opens
  <2>3. loop[depth] \in [loop_start : Address, jump_to_end : Address]
    BY <1>3, <2>1 DEF FInv, TInv, RecordOK
  <2>4. loop'[depth].loop_start = At(buffer)
    BY <1>2, <1>3, <2>1, <2>3
  <2>5. depth' = depth + 1 /\ depth' - 1 = depth
    BY <1>1, <2>1 DEF Opens
  <2>6. At(buffer).moves = 0 /\ At(buffer).pos = buffer'.next
    BY <1>1 DEF At, FInv, PlainOK
  <2>7. loop'[depth' - 1].loop_start.moves = 0
        /\ Landing(loop[depth - 1].loop_start.pos)'
    BY <2>4, <2>5, <2>6 DEF Landing
  <2>8. syntax'[depth'].kind = "while" /\ syntax'[depth'].part = "test"
    BY <2>2, <2>5
  <2> QED BY <2>7, <2>8 DEF StructureOK, WhileOK
<1> QED BY <1>1, <1>2, <1>3, OpeningFInv

LEMMA IfFInv ==
  ASSUME Ordinary, FInv, If
  PROVE  FInv'
<1>1. TInv' /\ Opening /\ Opens("if") /\ UNCHANGED loop
  BY IfTInv DEF FInv, If
<1>2. \A c \in Record : if_stmt'[c] =
        IF c = control_count' THEN [next_else |-> Null, list |-> {}] ELSE if_stmt[c]
  BY DEF If
<1>3. ASSUME control_count' \in Record
      PROVE  StructureOK(depth)'
  <2>1. depth \in Nat /\ control_count' = depth
    BY DEF If, Opening, Ready, FInv, TInv, SyntaxOK, CountOK
  <2>2. syntax'[depth + 1] = [kind |-> "if", part |-> "test"]
    BY <1>1, <2>1 DEF Opens
  <2>3. if_stmt'[depth] = [next_else |-> Null, list |-> {}]
    BY <1>2, <1>3, <2>1
  <2>4. depth' = depth + 1 /\ depth' - 1 = depth
    BY <1>1, <2>1 DEF Opens
  <2>5. syntax'[depth'].kind = "if" /\ syntax'[depth'].part = "test"
        /\ if_stmt'[depth' - 1].list = {} /\ if_stmt'[depth' - 1].next_else = Null
    BY <2>2, <2>3, <2>4
  <2> QED BY <2>5 DEF StructureOK, IfOK
<1> QED BY <1>1, <1>2, <1>3, OpeningFInv

\* What a jump leaves behind it.
LEMMA JumpPlaces ==
  ASSUME Ordinary, FInv, Ready, NEW b \in After(buffer, 1), Pending(b),
         DOMAIN offset' = DOMAIN offset \cup {b.next},
         depth' \in Nat, depth' <= depth, fault' = "none", UNCHANGED phase
  PROVE  /\ PlainOK' /\ PlacesOK'
         /\ \A q : Landing(q) => Landing(q)'
         /\ starts \cup {buffer.next} \subseteq starts' \cup {buffer'.next}
<1>1. /\ b.next = buffer.next + 1 /\ buffer'.next = buffer.next + 3
      /\ buffer.next \in Nat /\ buffer'.moves = buffer.moves
      /\ starts' = starts \cup {buffer.next} /\ buffer'.next <= MaxLength
  BY PendingType DEF FInv, Ordinary, Pending, Short
<1>2. /\ starts \subseteq Nat /\ DOMAIN offset \subseteq Nat
      /\ depth \in Nat /\ MaxNested \in Nat
  BY SizeAssumption DEF FInv, TInv, RestOK, OffsetOK, Operands, SyntaxOK
<1>3. PlainOK'
  BY <1>1, <1>2 DEF FInv, PlainOK, Ready
<1>4. PlacesOK'
  BY <1>1, <1>2 DEF FInv, PlacesOK
<1>5. \A q : Landing(q) => Landing(q)'
  BY <1>1 DEF Landing
<1> QED BY <1>1, <1>3, <1>4, <1>5

\* A jump of the innermost structure that waits from now on.
LEMMA WaitingFInv ==
  ASSUME Ordinary, FInv, Ready, TInv', NEW b \in After(buffer, 1), Pending(b),
         offset' = With(b.next, 0), depth > 0,
         NEW part, Becomes(part), fault' = "none", UNCHANGED phase,
         \A c \in Record : c # control_count =>
           loop'[c] = loop[c] /\ if_stmt'[c] = if_stmt[c],
         StructureOK(depth)', Waits(depth) \cup {b.next} \subseteq Waits(depth)'
  PROVE  FInv'
<1>1. TInv /\ depth' = depth /\ depth \in Nat /\ syntax' = [syntax EXCEPT ![depth].part = part]
      /\ syntax \in [1 .. depth -> Item]
  BY DEF FInv, TInv, SyntaxOK, Becomes
<1>2. /\ DOMAIN offset' = DOMAIN offset \cup {b.next}
      /\ \A p \in DOMAIN offset : p # b.next => offset'[p] = offset[p]
      /\ offset'[b.next] = 0
  BY DEF With
<1>3. /\ PlainOK' /\ PlacesOK'
      /\ \A q : Landing(q) => Landing(q)'
      /\ starts \cup {buffer.next} \subseteq starts' \cup {buffer'.next}
  BY <1>1, <1>2, JumpPlaces
<1>4. \A i \in 1 .. depth : StructureOK(i)' /\ Waits(i) \subseteq Waits(i)'
  <2> SUFFICES ASSUME NEW i \in 1 .. depth
               PROVE  StructureOK(i)' /\ Waits(i) \subseteq Waits(i)'
    OBVIOUS
  <2>1. CASE i = depth
    BY <1>1, <2>1
  <2>2. CASE i # depth
    <3>1. i - 1 \in Record /\ i - 1 # control_count
      BY <1>1, <2>2, OtherRecords
    <3>2. syntax'[i] = syntax[i] /\ StructureOK(i)
      BY <1>1, <2>2 DEF FInv, OpenOK
    <3>3. loop'[i - 1] = loop[i - 1] /\ if_stmt'[i - 1] = if_stmt[i - 1]
      BY <3>1
    <3> QED BY <1>2, <1>3, <3>2, <3>3, StructureKept
  <2> QED BY <2>1, <2>2
<1>5. OpenOK'
  BY <1>1, <1>4 DEF OpenOK
<1>6. LandOK'
  BY <1>2, <1>3 DEF FInv, LandOK
<1>7. WaitOK'
  <2> SUFFICES ASSUME NEW p \in DOMAIN offset', offset'[p] = 0
               PROVE  \E i \in 1 .. depth : p \in Waits(i)'
    BY <1>1 DEF WaitOK
  <2>1. CASE p = b.next
    BY <1>1, <2>1
  <2>2. CASE p # b.next
    <3>1. PICK i \in 1 .. depth : p \in Waits(i)
      BY <1>2, <2>2 DEF FInv, WaitOK
    <3> QED BY <1>4, <3>1
  <2> QED BY <2>1, <2>2
<1> QED BY <1>3, <1>5, <1>6, <1>7 DEF FInv

LEMMA DoFInv ==
  ASSUME Ordinary, FInv, Do
  PROVE  FInv'
<1>1. TInv /\ TInv' /\ Ready /\ In("while", "test") /\ Becomes("body")
      /\ UNCHANGED <<phase, control_count, if_stmt, fault>>
  BY DoTInv DEF FInv, Do
<1>2. PICK b \in After(buffer, 1) :
        /\ Pending(b) /\ offset' = With(b.next, 0)
        /\ loop' = [loop EXCEPT ![control_count].jump_to_end = At(b)]
  BY DEF Do
<1>3. /\ b.next \in Nat /\ b.moves = 0 /\ b \in Buffer
      /\ starts' = starts \cup {buffer.next}
  BY <1>1, <1>2, PendingType DEF FInv, PlainOK, Ordinary, Sound, Pending
<1>4. /\ depth > 0 /\ depth \in Nat /\ depth' = depth /\ depth - 1 = control_count
      /\ control_count \in Record /\ syntax \in [1 .. depth -> Item]
      /\ depth \in 1 .. depth
  BY <1>1, TopRecord DEF Becomes, TInv, SyntaxOK
<1>5. /\ syntax[depth].kind = "while" /\ syntax[depth].part = "test"
      /\ syntax'[depth].kind = "while" /\ syntax'[depth].part = "body"
  BY <1>1, <1>4 DEF In, Becomes, Item
<1>6. WhileOK(depth)
  BY <1>4, <1>5 DEF FInv, OpenOK, StructureOK
<1>7. loop \in [Record -> [loop_start : Address, jump_to_end : Address]]
  BY <1>1 DEF TInv, RecordOK
<1>8. /\ loop'[depth - 1].loop_start = loop[depth - 1].loop_start
      /\ loop'[depth - 1].jump_to_end = At(b)
      /\ \A c \in Record : c # control_count => loop'[c] = loop[c]
  BY <1>2, <1>4, <1>7
<1>9. At(b) \in Address /\ At(b).moves = 0 /\ At(b).pos = b.next
  BY <1>3, AtAddress
<1>10. DOMAIN offset' = DOMAIN offset \cup {b.next}
  BY <1>2 DEF With
<1>11. WhileOK(depth)'
  BY <1>3, <1>4, <1>5, <1>6, <1>8, <1>9, <1>10 DEF WhileOK, Landing, Waiting
<1>12. StructureOK(depth)'
  BY <1>4, <1>5, <1>11 DEF StructureOK
<1>13. Waits(depth) = {}
  BY <1>5 DEF Waits
<1>14. b.next \in Waits(depth)'
  BY <1>4, <1>5, <1>8, <1>9, <1>10 DEF Waits
<1> QED BY <1>1, <1>2, <1>4, <1>8, <1>12, <1>13, <1>14, WaitingFInv DEF Ready

LEMMA ThenFInv ==
  ASSUME Ordinary, FInv, Then
  PROVE  FInv'
<1>1. TInv /\ TInv' /\ Ready /\ In("if", "test") /\ Becomes("then")
      /\ UNCHANGED <<phase, control_count, loop, fault>>
  BY ThenTInv DEF FInv, Then
<1>2. PICK b \in After(buffer, 1) :
        /\ Pending(b) /\ offset' = With(b.next, 0)
        /\ if_stmt' = [if_stmt EXCEPT ![control_count].next_else = At(b)]
  BY DEF Then
<1>3. b.next \in Nat /\ b.moves = 0 /\ b \in Buffer
  BY <1>1, <1>2, PendingType DEF FInv, PlainOK, Ordinary, Sound
<1>4. /\ depth > 0 /\ depth \in Nat /\ depth' = depth /\ depth - 1 = control_count
      /\ control_count \in Record /\ syntax \in [1 .. depth -> Item]
      /\ depth \in 1 .. depth
  BY <1>1, TopRecord DEF Becomes, TInv, SyntaxOK
<1>5. /\ syntax[depth].kind = "if" /\ syntax[depth].part = "test"
      /\ syntax'[depth].kind = "if" /\ syntax'[depth].part = "then"
  BY <1>1, <1>4 DEF In, Becomes, Item
<1>6. IfOK(depth)
  BY <1>4, <1>5 DEF FInv, OpenOK, StructureOK
<1>7. if_stmt \in [Record -> [next_else : Address, list : SUBSET Address]]
  BY <1>1 DEF TInv, RecordOK
<1>8. /\ if_stmt'[depth - 1].list = if_stmt[depth - 1].list
      /\ if_stmt'[depth - 1].next_else = At(b)
      /\ \A c \in Record : c # control_count => if_stmt'[c] = if_stmt[c]
  BY <1>2, <1>4, <1>7
<1>9. At(b) \in Address /\ At(b).moves = 0 /\ At(b).pos = b.next
  BY <1>3, AtAddress
<1>10. DOMAIN offset' = DOMAIN offset \cup {b.next}
  BY <1>2 DEF With
<1>11. IfOK(depth)'
  BY <1>4, <1>5, <1>6, <1>8, <1>9, <1>10 DEF IfOK, Waiting
<1>12. StructureOK(depth)'
  BY <1>4, <1>5, <1>11 DEF StructureOK
<1>13. Waits(depth) \cup {b.next} \subseteq Waits(depth)'
  BY <1>4, <1>5, <1>8, <1>9, <1>10 DEF Waits
<1> QED BY <1>1, <1>2, <1>4, <1>8, <1>12, <1>13, WaitingFInv DEF Ready

LEMMA EndThenFInv ==
  ASSUME Ordinary, FInv, EndThen
  PROVE  FInv'
<1>1. TInv /\ TInv' /\ Ready /\ In("if", "then") /\ Becomes("after")
      /\ UNCHANGED <<phase, control_count, loop, fault>>
  BY EndThenTInv DEF FInv, EndThen
<1>2. PICK b \in After(buffer, 1) :
        /\ Pending(b) /\ offset' = With(b.next, 0)
        /\ if_stmt' = [if_stmt EXCEPT ![control_count].list = @ \cup {At(b)}]
  BY DEF EndThen
<1>3. b.next \in Nat /\ b.moves = 0 /\ b \in Buffer
  BY <1>1, <1>2, PendingType DEF FInv, PlainOK, Ordinary, Sound
<1>4. /\ depth > 0 /\ depth \in Nat /\ depth' = depth /\ depth - 1 = control_count
      /\ control_count \in Record /\ syntax \in [1 .. depth -> Item]
      /\ depth \in 1 .. depth
  BY <1>1, TopRecord DEF Becomes, TInv, SyntaxOK
<1>5. /\ syntax[depth].kind = "if" /\ syntax[depth].part = "then"
      /\ syntax'[depth].kind = "if" /\ syntax'[depth].part = "after"
  BY <1>1, <1>4 DEF In, Becomes, Item
<1>6. IfOK(depth)
  BY <1>4, <1>5 DEF FInv, OpenOK, StructureOK
<1>7. if_stmt \in [Record -> [next_else : Address, list : SUBSET Address]]
  BY <1>1 DEF TInv, RecordOK
<1>8. /\ if_stmt'[depth - 1].list = if_stmt[depth - 1].list \cup {At(b)}
      /\ if_stmt'[depth - 1].next_else = if_stmt[depth - 1].next_else
      /\ \A c \in Record : c # control_count => if_stmt'[c] = if_stmt[c]
  BY <1>2, <1>4, <1>7
<1>9. At(b) \in Address /\ At(b).moves = 0 /\ At(b).pos = b.next
  BY <1>3, AtAddress
<1>10. DOMAIN offset' = DOMAIN offset \cup {b.next}
  BY <1>2 DEF With
<1>11. IfOK(depth)'
  BY <1>4, <1>5, <1>6, <1>8, <1>9, <1>10 DEF IfOK, Waiting
<1>12. StructureOK(depth)'
  BY <1>4, <1>5, <1>11 DEF StructureOK
<1>13. Waits(depth) \cup {b.next} \subseteq Waits(depth)'
  BY <1>4, <1>5, <1>8, <1>9, <1>10 DEF Waits
<1> QED BY <1>1, <1>2, <1>4, <1>8, <1>12, <1>13, WaitingFInv DEF Ready

\* A jump over less than 2^15 bytes leads where it is sent.
LEMMA FixedLands ==
  ASSUME Ordinary, NEW f, Operands(f), NEW as, NEW to \in Nat, to <= MaxLength,
         NEW p \in DOMAIN f, p < to
  PROVE  IF \E a \in as : a.pos = p
         THEN Fixed(f, as, to)[p] # 0 /\ p + Fixed(f, as, to)[p] = to
         ELSE Fixed(f, as, to)[p] = f[p]
<1>1. /\ p \in Nat /\ p \in Int /\ to \in Int /\ MaxLength \in Nat
      /\ OffsetRange \in Nat /\ MaxLength < OffsetRange
  BY SizeAssumption DEF Operands, Ordinary
<1>2. to - p < OffsetRange /\ p - to < OffsetRange
  BY <1>1
<1>3. p + Offset(to, p) = to
  BY <1>1, <1>2, OffsetExact
<1>4. Offset(to, p) \in -OffsetRange .. OffsetRange - 1
  BY <1>1, OffsetType
<1> HIDE DEF Offset
<1>5. Offset(to, p) # 0
  BY <1>1, <1>3, <1>4
<1> QED BY <1>3, <1>5 DEF Fixed

\* A structure that is closed.
LEMMA ClosingFInv ==
  ASSUME FInv, Ready, TInv', depth > 0, Closes,
         \A c \in Record : c # control_count =>
           loop'[c] = loop[c] /\ if_stmt'[c] = if_stmt[c],
         PlainOK', PlacesOK', LandOK',
         DOMAIN offset \subseteq DOMAIN offset',
         starts \cup {buffer.next} \subseteq starts' \cup {buffer'.next},
         \A p \in DOMAIN offset' : offset'[p] = 0 =>
           p \in DOMAIN offset /\ offset[p] = 0 /\ p \notin Waits(depth)
  PROVE  FInv'
<1>1. TInv /\ depth \in Nat /\ depth' = depth - 1
  BY DEF FInv, TInv, SyntaxOK, Closes
<1>2. \A i \in 1 .. depth - 1 : StructureOK(i)' /\ Waits(i) \subseteq Waits(i)'
  <2> SUFFICES ASSUME NEW i \in 1 .. depth - 1
               PROVE  StructureOK(i)' /\ Waits(i) \subseteq Waits(i)'
    OBVIOUS
  <2>1. i \in 1 .. depth /\ i # depth
    BY <1>1
  <2>2. i - 1 \in Record /\ i - 1 # control_count
    BY <1>1, <2>1, OtherRecords
  <2>3. syntax'[i] = syntax[i] /\ StructureOK(i)
    BY <2>1 DEF Closes, FInv, OpenOK
  <2>4. loop'[i - 1] = loop[i - 1] /\ if_stmt'[i - 1] = if_stmt[i - 1]
    BY <2>2
  <2> QED BY <2>3, <2>4, StructureKept
<1>3. OpenOK'
  BY <1>1, <1>2 DEF OpenOK
<1>4. WaitOK'
  <2> SUFFICES ASSUME NEW p \in DOMAIN offset', offset'[p] = 0
               PROVE  \E i \in 1 .. depth - 1 : p \in Waits(i)'
    BY <1>1 DEF WaitOK
  <2>1. PICK i \in 1 .. depth : p \in Waits(i)
    BY DEF FInv, WaitOK
  <2>2. i # depth
    BY <2>1
  <2>3. i \in 1 .. depth - 1
    BY <1>1, <2>2
  <2> QED BY <1>2, <2>1, <2>3
<1> QED BY <1>3, <1>4 DEF FInv

\* The jump back and the jump out of a loop.
LEMMA EndWhileFInv ==
  ASSUME Ordinary, FInv, EndWhile
  PROVE  /\ FInv'
         /\ buffer'.next = buffer.next + 3
         /\ DOMAIN offset' = DOMAIN offset \cup {buffer.next + 1}
         /\ \A p \in DOMAIN offset' :
              p + offset'[p] =
                IF p = loop[control_count].jump_to_end.pos THEN buffer.next + 3
                ELSE IF p = buffer.next + 1 THEN loop[control_count].loop_start.pos
                ELSE p + offset[p]
<1> DEFINE r == loop[control_count]
<1>1. TInv /\ TInv' /\ Ready /\ In("while", "body") /\ Closes
      /\ UNCHANGED <<phase, loop, if_stmt>>
  BY EndWhileTInv DEF FInv, EndWhile
<1>2. PICK b \in After(buffer, 1) :
        /\ Pending(b)
        /\ fault' = IF Good(r.loop_start, b) /\ Good(r.jump_to_end, buffer')
                    THEN "none" ELSE "stale"
        /\ offset' = Fixed(With(b.next, Offset(r.loop_start.pos, b.next)),
                           {r.jump_to_end}, buffer'.next)
  BY DEF EndWhile
<1>3. /\ b.next = buffer.next + 1 /\ b.next \in Nat /\ b.moves = 0
      /\ buffer'.next = buffer.next + 3 /\ buffer.next \in Nat /\ buffer'.moves = 0
      /\ starts' = starts \cup {buffer.next} /\ buffer'.next <= MaxLength
  BY <1>1, <1>2, PendingType DEF FInv, PlainOK, Ordinary, Pending, Short
<1>4. /\ depth > 0 /\ depth \in Nat /\ depth - 1 = control_count
      /\ control_count \in Record /\ depth \in 1 .. depth /\ depth' = depth - 1
  BY <1>1, TopRecord DEF Closes
<1>5. syntax[depth].kind = "while" /\ syntax[depth].part = "body"
  BY <1>1 DEF In
<1>6. WhileOK(depth)
  BY <1>4, <1>5 DEF FInv, OpenOK, StructureOK
<1>7. /\ r.loop_start.moves = 0 /\ Landing(r.loop_start.pos)
      /\ r.jump_to_end.moves = 0 /\ r.jump_to_end.pos \in DOMAIN offset
      /\ r.loop_start.pos \in Nat
  BY <1>1, <1>4, <1>5, <1>6 DEF WhileOK, Waiting, TInv, RecordOK, Address
<1>8. fault' = "none"
  BY <1>2, <1>3, <1>7 DEF Good
<1> DEFINE start == r.loop_start.pos
           f == With(b.next, Offset(start, b.next))
<1>9. start \in Nat /\ start <= buffer.next /\ Landing(start)
  BY <1>3, <1>7 DEF Landing, FInv, PlacesOK
<1> HIDE DEF start
<1>10. /\ b.next + Offset(start, b.next) = start /\ Offset(start, b.next) # 0
       /\ Offset(start, b.next) \in -OffsetRange .. OffsetRange - 1
  <2>1. /\ start \in Int /\ b.next \in Int /\ OffsetRange \in Nat /\ MaxLength \in Nat
        /\ MaxLength < OffsetRange
    BY <1>3, <1>9, SizeAssumption DEF Ordinary
  <2>2. start - b.next < OffsetRange /\ b.next - start < OffsetRange
    BY <1>3, <1>9, <2>1
  <2>3. b.next + Offset(start, b.next) = start
    BY <2>1, <2>2, OffsetExact
  <2>4. Offset(start, b.next) \in -OffsetRange .. OffsetRange - 1
    BY <2>1, OffsetType
  <2> HIDE DEF Offset
  <2> QED BY <1>3, <1>9, <2>1, <2>3, <2>4
<1>11. /\ Operands(f) /\ DOMAIN f = DOMAIN offset \cup {b.next}
       /\ f[b.next] = Offset(start, b.next)
       /\ \A p \in DOMAIN offset : p # b.next => f[p] = offset[p]
  BY <1>1, <1>3, <1>10, WithType DEF TInv, OffsetOK, With
<1> HIDE DEF f
<1>12. offset' = Fixed(f, {r.jump_to_end}, buffer'.next)
  BY <1>2 DEF f, start
<1>13. DOMAIN offset' = DOMAIN f
  BY <1>12 DEF Fixed
<1>14. /\ PlainOK' /\ PlacesOK'
       /\ \A q : Landing(q) => Landing(q)'
       /\ starts \cup {buffer.next} \subseteq starts' \cup {buffer'.next}
  <2>1. DOMAIN offset' = DOMAIN offset \cup {b.next} /\ depth' \in Nat /\ depth' <= depth
    BY <1>4, <1>11, <1>13
  <2> HIDE DEF r
  <2> QED BY <1>1, <1>2, <1>8, <2>1, JumpPlaces
<1>15. \A p \in DOMAIN f :
         IF p = r.jump_to_end.pos THEN offset'[p] # 0 /\ p + offset'[p] = buffer'.next
         ELSE offset'[p] = f[p]
  <2> SUFFICES ASSUME NEW p \in DOMAIN f
               PROVE  IF p = r.jump_to_end.pos
                      THEN offset'[p] # 0 /\ p + offset'[p] = buffer'.next
                      ELSE offset'[p] = f[p]
    OBVIOUS
  <2>1. p < buffer'.next /\ buffer'.next \in Nat
    BY <1>3, <1>13, <1>14 DEF PlacesOK
  <2> QED BY <1>3, <1>11, <1>12, <2>1, FixedLands
<1>16. LandOK'
  BY <1>9, <1>10, <1>11, <1>13, <1>14, <1>15 DEF FInv, LandOK, Landing
<1>17. \A p \in DOMAIN offset' : offset'[p] = 0 =>
         p \in DOMAIN offset /\ offset[p] = 0 /\ p \notin Waits(depth)
  BY <1>4, <1>5, <1>10, <1>11, <1>13, <1>15 DEF Waits
<1>18. DOMAIN offset \subseteq DOMAIN offset'
  BY <1>11, <1>13
<1>19. FInv'
  BY <1>1, <1>4, <1>14, <1>16, <1>17, <1>18, ClosingFInv
<1>20. \A p \in DOMAIN f :
         p + offset'[p] = IF p = r.jump_to_end.pos THEN buffer.next + 3
                          ELSE IF p = buffer.next + 1 THEN start ELSE p + offset[p]
  BY <1>3, <1>10, <1>11, <1>15
<1> QED BY <1>3, <1>11, <1>13, <1>19, <1>20 DEF start

\* Jumps that are sent here while nothing is emitted.
LEMMA FixedHere ==
  ASSUME Ordinary, FInv, Ready, NEW fixes, offset' = Fixed(offset, fixes, buffer.next),
         UNCHANGED <<phase, buffer, starts>>, fault' = "none",
         depth' \in Nat, depth' <= depth
  PROVE  /\ PlainOK' /\ PlacesOK' /\ LandOK'
         /\ DOMAIN offset' = DOMAIN offset
         /\ \A p \in DOMAIN offset : offset'[p] = 0 =>
              offset[p] = 0 /\ \A a \in fixes : a.pos # p
         /\ \A p \in DOMAIN offset : p + offset'[p] =
              IF \E a \in fixes : a.pos = p THEN buffer.next ELSE p + offset[p]
<1>1. /\ DOMAIN offset' = DOMAIN offset /\ Operands(offset)
      /\ buffer.next \in Nat /\ buffer.next <= MaxLength
      /\ depth \in Nat /\ MaxNested \in Nat
  BY SizeAssumption DEF Fixed, FInv, TInv, OffsetOK, BufferOK, Buffer, PlainOK, Ready, SyntaxOK
<1>2. \A p \in DOMAIN offset :
        IF \E a \in fixes : a.pos = p THEN offset'[p] # 0 /\ p + offset'[p] = buffer.next
        ELSE offset'[p] = offset[p]
  <2> SUFFICES ASSUME NEW p \in DOMAIN offset
               PROVE  IF \E a \in fixes : a.pos = p
                      THEN offset'[p] # 0 /\ p + offset'[p] = buffer.next
                      ELSE offset'[p] = offset[p]
    OBVIOUS
  <2>1. p < buffer.next
    BY DEF FInv, PlacesOK
  <2>2. ASSUME NEW g, NEW q \in DOMAIN g, NEW t \in Nat, t <= MaxLength, q < t, Operands(g)
        PROVE  IF \E a \in fixes : a.pos = q
               THEN Fixed(g, fixes, t)[q] # 0 /\ q + Fixed(g, fixes, t)[q] = t
               ELSE Fixed(g, fixes, t)[q] = g[q]
    BY <2>2, FixedLands
  <2> QED BY <1>1, <2>1, <2>2
<1>3. PlainOK'
  BY <1>1 DEF FInv, PlainOK, Ready
<1>4. PlacesOK'
  BY <1>1 DEF FInv, PlacesOK
<1>5. LandOK'
  BY <1>1, <1>2 DEF FInv, LandOK, Landing
<1> QED BY <1>1, <1>2, <1>3, <1>4, <1>5

LEMMA ElseFInv ==
  ASSUME Ordinary, FInv, NEW part \in {"test", "else"}, Else(part)
  PROVE  FInv'
<1> DEFINE r == if_stmt[control_count]
<1>1. /\ TInv /\ TInv' /\ Ready /\ In("if", "after") /\ Becomes(part)
      /\ fault' = (IF Good(r.next_else, buffer) THEN "none" ELSE "stale")
      /\ offset' = Fixed(offset, {r.next_else}, buffer.next)
      /\ if_stmt' = [if_stmt EXCEPT ![control_count] = ElseFixed(r)]
      /\ UNCHANGED <<phase, buffer, control_count, loop, starts>>
  BY ElseTInv DEF FInv, Else
<1>2. /\ depth > 0 /\ depth \in Nat /\ depth' = depth /\ depth - 1 = control_count
      /\ control_count \in Record /\ syntax \in [1 .. depth -> Item]
      /\ depth \in 1 .. depth
  BY <1>1, TopRecord DEF Becomes, TInv, SyntaxOK
<1>3. /\ syntax[depth].kind = "if" /\ syntax[depth].part = "after"
      /\ syntax'[depth].kind = "if" /\ syntax'[depth].part = part
      /\ \A i \in 1 .. depth : i # depth => syntax'[i] = syntax[i]
  BY <1>1, <1>2 DEF In, Becomes, Item
<1>4. IfOK(depth)
  BY <1>2, <1>3 DEF FInv, OpenOK, StructureOK
<1>5. r.next_else.moves = 0 /\ r.next_else.pos \in DOMAIN offset
  BY <1>2, <1>3, <1>4 DEF IfOK, Waiting
<1>6. fault' = "none"
  BY <1>1, <1>5 DEF Good, FInv, PlainOK
<1>7. /\ PlainOK' /\ PlacesOK' /\ LandOK'
      /\ DOMAIN offset' = DOMAIN offset
      /\ \A p \in DOMAIN offset : offset'[p] = 0 =>
           offset[p] = 0 /\ r.next_else.pos # p
  <2>1. depth' \in Nat /\ depth' <= depth
    BY <1>2
  <2> HIDE DEF r
  <2>2. /\ PlainOK' /\ PlacesOK' /\ LandOK'
        /\ DOMAIN offset' = DOMAIN offset
        /\ \A p \in DOMAIN offset : offset'[p] = 0 =>
             offset[p] = 0 /\ \A a \in {r.next_else} : a.pos # p
    BY <1>1, <1>6, <2>1, FixedHere
  <2> QED BY <2>2
<1>8. /\ if_stmt'[depth - 1].list = if_stmt[depth - 1].list
      /\ if_stmt'[depth - 1].next_else = Null
      /\ \A c \in Record : c # control_count => if_stmt'[c] = if_stmt[c]
  BY <1>1, <1>2 DEF TInv, RecordOK, ElseFixed
<1>9. StructureOK(depth)'
  BY <1>2, <1>3, <1>4, <1>7, <1>8 DEF StructureOK, IfOK, Waiting
<1>10. \A i \in 1 .. depth : i # depth =>
         StructureOK(i)' /\ Waits(i) \subseteq Waits(i)'
  <2> SUFFICES ASSUME NEW i \in 1 .. depth, i # depth
               PROVE  StructureOK(i)' /\ Waits(i) \subseteq Waits(i)'
    OBVIOUS
  <2>1. i - 1 \in Record /\ i - 1 # control_count
    BY <1>1, OtherRecords
  <2>2. StructureOK(i) /\ if_stmt'[i - 1] = if_stmt[i - 1]
    BY <1>8, <2>1 DEF FInv, OpenOK
  <2> QED BY <1>1, <1>3, <1>7, <2>2, StructureKept
<1>11. OpenOK'
  BY <1>2, <1>9, <1>10 DEF OpenOK
<1>12. WaitOK'
  <2> SUFFICES ASSUME NEW p \in DOMAIN offset, offset'[p] = 0
               PROVE  \E i \in 1 .. depth : p \in Waits(i)'
    BY <1>2, <1>7 DEF WaitOK
  <2>1. PICK i \in 1 .. depth : p \in Waits(i)
    BY <1>7 DEF FInv, WaitOK
  <2>2. CASE i # depth
    BY <1>10, <2>1, <2>2
  <2>3. CASE i = depth
    <3>1. \E a \in if_stmt[depth - 1].list : a.pos = p
      BY <1>2, <1>3, <1>7, <2>1, <2>3 DEF Waits
    <3>2. p \in Waits(depth)'
      BY <1>2, <1>3, <1>7, <1>8, <3>1 DEF Waits
    <3> QED BY <1>2, <3>2
  <2> QED BY <2>2, <2>3
<1> QED BY <1>1, <1>7, <1>11, <1>12 DEF FInv

LEMMA EndIfFInv ==
  ASSUME Ordinary, FInv, EndIf
  PROVE  FInv'
<1> DEFINE r == if_stmt[control_count]
<1>1. /\ TInv /\ TInv' /\ Ready /\ Closes
      /\ fault' = (IF \A a \in Unfixed(r) : Good(a, buffer) THEN "none" ELSE "stale")
      /\ offset' = Fixed(offset, Unfixed(r), buffer.next)
      /\ if_stmt' = [if_stmt EXCEPT ![control_count] = [next_else |-> Null, list |-> {}]]
      /\ UNCHANGED <<phase, buffer, loop, starts>>
  BY EndIfTInv DEF FInv, EndIf
<1>2. PICK part \in {"after", "else"} : In("if", part)
  BY DEF EndIf
<1>3. /\ depth > 0 /\ depth \in Nat /\ depth - 1 = control_count
      /\ control_count \in Record /\ depth \in 1 .. depth /\ depth' = depth - 1
  BY <1>1, <1>2, TopRecord DEF Closes
<1>4. syntax[depth].kind = "if" /\ syntax[depth].part = part
  BY <1>2 DEF In
<1>5. IfOK(depth)
  BY <1>3, <1>4 DEF FInv, OpenOK, StructureOK
<1>6. \A a \in Unfixed(r) : a.moves = 0
  BY <1>3, <1>4, <1>5 DEF IfOK, Unfixed, Waiting
<1>7. fault' = "none"
  BY <1>1, <1>6 DEF Good, FInv, PlainOK
<1>8. /\ PlainOK' /\ PlacesOK' /\ LandOK'
      /\ DOMAIN offset' = DOMAIN offset
      /\ \A p \in DOMAIN offset : offset'[p] = 0 =>
           offset[p] = 0 /\ \A a \in Unfixed(r) : a.pos # p
  BY <1>1, <1>3, <1>7, FixedHere
<1>9. \A c \in Record : c # control_count => if_stmt'[c] = if_stmt[c]
  BY <1>1, <1>3 DEF TInv, RecordOK
<1>10. \A p \in Waits(depth) : \E a \in Unfixed(r) : a.pos = p
  <2> SUFFICES ASSUME NEW p \in Waits(depth)
               PROVE  \E a \in Unfixed(r) : a.pos = p
    OBVIOUS
  <2>1. \/ \E a \in r.list : a.pos = p
        \/ part = "after" /\ p = r.next_else.pos
    BY <1>3, <1>4 DEF Waits
  <2>2. part = "after" => r.next_else # Null
    <3>1. ASSUME part = "after" PROVE r.next_else.pos \in DOMAIN offset
      BY <1>3, <1>4, <1>5, <3>1 DEF IfOK, Waiting
    <3>2. \A q \in DOMAIN offset : q # 0
      BY DEF FInv, TInv, OffsetOK, Operands, PlacesOK
    <3> QED BY <3>1, <3>2 DEF Null
  <2> QED BY <2>1, <2>2 DEF Unfixed
<1> QED BY <1>1, <1>3, <1>8, <1>9, <1>10, ClosingFInv

LEMMA NextFInv ==
  ASSUME Ordinary, FInv, [Next]_vars
  PROVE  FInv'
<1>1. ASSUME NEW n \in Chunk, Emit(n) PROVE FInv'
  BY <1>1, EmitFInv
<1>2. ASSUME NEW n \in Chunk, MergeItem(n) PROVE FInv'
  BY <1>2, MergeFInv
<1>3. ASSUME NEW n \in Text, EmitString(n) PROVE FInv'
  BY <1>3, StringFInv
<1>4. CASE While
  BY <1>4, WhileFInv
<1>5. CASE Do
  BY <1>5, DoFInv
<1>6. CASE EndWhile
  BY <1>6, EndWhileFInv
<1>7. CASE If
  BY <1>7, IfFInv
<1>8. CASE Then
  BY <1>8, ThenFInv
<1>9. CASE EndThen
  BY <1>9, EndThenFInv
<1>10. CASE Else("test") \/ Else("else")
  BY <1>10, ElseFInv
<1>11. CASE EndIf
  BY <1>11, EndIfFInv
<1>12. CASE Compiled
  BY <1>12, CompiledFInv
<1>13. ASSUME UNCHANGED <<buffer, offset, depth, syntax, control_count, loop, if_stmt,
                          starts, fault>>,
              phase' = phase \/ phase' = "failed"
       PROVE  FInv'
  <2>1. TInv'
    BY <1>13 DEF FInv, TInv, BufferOK, OffsetOK, SyntaxOK, CountOK, RecordOK, RestOK
  <2>2. PlainOK' /\ PlacesOK' /\ LandOK'
    BY <1>13 DEF FInv, PlainOK, PlacesOK, LandOK, Landing
  <2>3. \A i : (StructureOK(i) => StructureOK(i)') /\ Waits(i)' = Waits(i)
    BY <1>13 DEF StructureOK, WhileOK, IfOK, Landing, Waiting, Waits
  <2>4. OpenOK' /\ WaitOK'
    BY <1>13, <2>3 DEF FInv, OpenOK, WaitOK
  <2> QED BY <2>1, <2>2, <2>4 DEF FInv
<1>14. CASE Fails
  BY <1>13, <1>14 DEF Fails
<1>15. CASE UNCHANGED vars
  BY <1>13, <1>15 DEF vars
<1> QED BY <1>1, <1>2, <1>3, <1>4, <1>5, <1>6, <1>7, <1>8, <1>9, <1>10, <1>11,
           <1>12, <1>14, <1>15 DEF Next

THEOREM FInvHolds ==
  ASSUME Ordinary
  PROVE  Spec => []FInv
<1>1. Init => FInv
  BY InitFInv
<1>2. FInv /\ [Next]_vars => FInv'
  BY NextFInv
<1> QED BY <1>1, <1>2, PTL DEF Spec

\* Nothing is written through an address that is no longer good, behind the
\* end of the buffer or of the arrays of records.
THEOREM NothingIsCorrupted ==
  ASSUME Ordinary
  PROVE  Spec => []NoFault
<1>1. FInv => NoFault
  BY DEF FInv, PlainOK, NoFault
<1> QED BY <1>1, FInvHolds, PTL

\* A jump that is fixed up leads to where an instruction begins, however many
\* structures are nested and however often the buffer grew in place.
THEOREM JumpsLeadToCode ==
  ASSUME Ordinary
  PROVE  Spec => []JumpsLand
<1>1. FInv => JumpsLand
  BY DEF FInv, LandOK, Landing, JumpsLand
<1> QED BY <1>1, FInvHolds, PTL

\* What was compiled without an error has no jump left to fix up.
THEOREM NoJumpIsLeft ==
  ASSUME Ordinary
  PROVE  Spec => []AllFixed
<1>1. FInv => AllFixed
  <2> SUFFICES ASSUME FInv, phase = "compiled", NEW p \in DOMAIN offset
               PROVE  offset[p] # 0
    BY DEF AllFixed
  <2>1. depth = 0
    BY DEF FInv, PlainOK
  <2> QED BY <2>1 DEF FInv, WaitOK
<1> QED BY <1>1, FInvHolds, PTL

-----------------------------------------------------------------------------
(* The compiler implements ControlFlow.                                    *)

Jumps == [p \in DOMAIN offset |-> p + offset[p]]
Open == [i \in 1 .. depth |-> OpenStructure(i)]

LEMMA OpenSame ==
  ASSUME NEW i, syntax'[i] = syntax[i], loop'[i - 1] = loop[i - 1],
         if_stmt'[i - 1] = if_stmt[i - 1]
  PROVE  OpenStructure(i)' = OpenStructure(i)
BY DEF OpenStructure

LEMMA FlowOpened ==
  ASSUME FInv, Ready, NEW kind, Opens(kind), control_count' = control_count + 1,
         \A c \in Record : c # control_count' =>
           loop'[c] = loop[c] /\ if_stmt'[c] = if_stmt[c],
         NEW s, OpenStructure(depth)' = s
  PROVE  Flow!Opened(s)
<1>1. depth \in Nat /\ depth' = depth + 1 /\ control_count' = depth /\ TInv
  BY DEF FInv, TInv, SyntaxOK, CountOK, Ready, Opens
<1>2. \A i \in 1 .. depth : OpenStructure(i)' = OpenStructure(i)
  <2> SUFFICES ASSUME NEW i \in 1 .. depth
               PROVE  OpenStructure(i)' = OpenStructure(i)
    OBVIOUS
  <2>1. i - 1 \in Record /\ syntax'[i] = syntax[i]
    BY <1>1, OtherRecords DEF Opens
  <2>2. i - 1 # control_count'
    BY <1>1
  <2> QED BY <2>1, <2>2, OpenSame
<1>3. \A i \in 1 .. depth' : OpenStructure(i)' = IF i <= depth THEN OpenStructure(i) ELSE s
  <2> SUFFICES ASSUME NEW i \in 1 .. depth'
               PROVE  OpenStructure(i)' = IF i <= depth THEN OpenStructure(i) ELSE s
    OBVIOUS
  <2>1. CASE i <= depth
    BY <1>1, <1>2, <2>1
  <2>2. CASE ~(i <= depth)
    <3>1. i = depth'
      BY <1>1, <2>2
    <3> QED BY <2>2, <3>1
  <2> QED BY <2>1, <2>2
<1>4. Open' = [i \in 1 .. depth + 1 |-> IF i <= depth THEN Open[i] ELSE s]
  BY <1>1, <1>3 DEF Open
<1> QED BY <1>1, <1>4 DEF Flow!Opened, Open

LEMMA FlowBecomes ==
  ASSUME FInv, Ready, depth > 0, NEW part, Becomes(part),
         \A c \in Record : c # control_count =>
           loop'[c] = loop[c] /\ if_stmt'[c] = if_stmt[c],
         NEW s, OpenStructure(depth)' = s
  PROVE  Flow!Becomes(s)
<1>1. depth \in Nat /\ depth' = depth /\ TInv /\ syntax \in [1 .. depth -> Item]
      /\ syntax' = [syntax EXCEPT ![depth].part = part]
  BY DEF FInv, TInv, SyntaxOK, Becomes
<1>2. \A i \in 1 .. depth : i # depth => OpenStructure(i)' = OpenStructure(i)
  <2> SUFFICES ASSUME NEW i \in 1 .. depth, i # depth
               PROVE  OpenStructure(i)' = OpenStructure(i)
    OBVIOUS
  <2>1. i - 1 \in Record /\ i - 1 # control_count /\ syntax'[i] = syntax[i]
    BY <1>1, OtherRecords
  <2> QED BY <2>1, OpenSame
<1>3. \A i \in 1 .. depth : OpenStructure(i)' = IF i = depth THEN s ELSE OpenStructure(i)
  <2> SUFFICES ASSUME NEW i \in 1 .. depth
               PROVE  OpenStructure(i)' = IF i = depth THEN s ELSE OpenStructure(i)
    OBVIOUS
  <2>1. CASE i = depth
    <3>1. i = depth'
      BY <1>1, <2>1
    <3> QED BY <2>1, <3>1
  <2>2. CASE i # depth
    BY <1>2, <2>2
  <2> QED BY <2>1, <2>2
<1>4. Open' = [Open EXCEPT ![depth] = s]
  BY <1>1, <1>3 DEF Open
<1> QED BY <1>1, <1>4 DEF Flow!Becomes, Open

LEMMA FlowClosed ==
  ASSUME FInv, Ready, depth > 0, Closes,
         \A c \in Record : c # control_count =>
           loop'[c] = loop[c] /\ if_stmt'[c] = if_stmt[c]
  PROVE  Flow!Closed
<1>1. depth \in Nat /\ depth' = depth - 1 /\ TInv
  BY DEF FInv, TInv, SyntaxOK, Closes
<1>2. \A i \in 1 .. depth - 1 : OpenStructure(i)' = OpenStructure(i)
  <2> SUFFICES ASSUME NEW i \in 1 .. depth - 1
               PROVE  OpenStructure(i)' = OpenStructure(i)
    OBVIOUS
  <2>1. i \in 1 .. depth /\ i # depth
    BY <1>1
  <2>2. i - 1 \in Record /\ i - 1 # control_count /\ syntax'[i] = syntax[i]
    BY <1>1, <2>1, OtherRecords DEF Closes
  <2> QED BY <2>2, OpenSame
<1>3. Open' = [i \in 1 .. depth - 1 |-> Open[i]]
  BY <1>1, <1>2 DEF Open
<1> QED BY <1>1, <1>3 DEF Flow!Closed, Open

LEMMA FlowTop ==
  ASSUME FInv, Ready, NEW kind, NEW part, In(kind, part)
  PROVE  /\ Flow!At(kind, part) /\ Open[depth] = OpenStructure(depth)
         /\ depth \in 1 .. depth
<1>1. depth \in 1 .. depth /\ depth > 0
  BY TopRecord DEF FInv
<1>2. Open[depth] = OpenStructure(depth)
  BY <1>1 DEF Open
<1>3. OpenStructure(depth).kind = kind /\ OpenStructure(depth).part = part
  BY DEF In, OpenStructure
<1> QED BY <1>1, <1>2, <1>3 DEF Flow!At, Open

LEMMA FlowEmit ==
  ASSUME FInv, Ready, Coding, buffer'.next \in Nat, buffer'.next > buffer.next,
         UNCHANGED <<offset, depth, syntax, control_count, loop, if_stmt>>
  PROVE  Flow!Emit
<1>1. depth \in Nat
  BY DEF FInv, TInv, SyntaxOK
<1>2. depth > 0 => Open[depth].part # "after"
  <2> SUFFICES ASSUME depth > 0 PROVE Open[depth].part # "after"
    OBVIOUS
  <2>1. depth \in 1 .. depth
    BY <1>1
  <2> QED BY <2>1 DEF Open, OpenStructure, Coding
<1>3. \A i : OpenStructure(i)' = OpenStructure(i)
  BY DEF OpenStructure
<1>4. Open' = Open /\ Jumps' = Jumps
  BY <1>3 DEF Open, Jumps
<1> QED BY <1>2, <1>4 DEF Flow!Emit, Flow!Coding, Open, Jumps

LEMMA FlowStatements == ASSUME FInv, Stmt PROVE Flow!Statements
<1>1. depth \in Nat
  BY DEF FInv, TInv, SyntaxOK
<1>2. depth > 0 => Open[depth].part \in {"body", "then", "else"}
  <2> SUFFICES ASSUME depth > 0 PROVE Open[depth].part \in {"body", "then", "else"}
    OBVIOUS
  <2>1. depth \in 1 .. depth
    BY <1>1
  <2> QED BY <2>1 DEF Open, OpenStructure, Stmt
<1> QED BY <1>2 DEF Flow!Statements, Open

LEMMA WhileFlow ==
  ASSUME Ordinary, FInv, While, FInv'
  PROVE  Flow!While
<1> DEFINE s == Flow!Loop("test", buffer.next, 0)
<1>1. Ready /\ Stmt /\ Opens("while") /\ control_count' = control_count + 1
      /\ UNCHANGED <<buffer, offset, if_stmt>>
  BY DEF While, Opening
<1>2. \A c \in Record : loop'[c] =
        IF c = control_count' THEN [loop[c] EXCEPT !.loop_start = At(buffer)] ELSE loop[c]
  BY DEF While
<1>3. depth \in Nat /\ control_count' = depth /\ depth' = depth + 1 /\ depth' - 1 = depth
  BY <1>1 DEF Opens, Ready, FInv, TInv, SyntaxOK, CountOK
<1>4. control_count' \in Record
  <2>1. fault' = (IF control_count' \in Record THEN "none" ELSE "no_record")
    BY DEF While, Opening
  <2>2. fault' = "none"
    BY DEF FInv, PlainOK
  <2> QED BY <2>1, <2>2
<1>5. syntax'[depth'] = [kind |-> "while", part |-> "test"]
  BY <1>1, <1>3 DEF Opens
<1>6. loop'[depth' - 1].loop_start = At(buffer)
  <2>1. loop[depth] \in [loop_start : Address, jump_to_end : Address]
    BY <1>3, <1>4 DEF FInv, TInv, RecordOK
  <2> QED BY <1>2, <1>3, <1>4, <2>1
<1>7. OpenStructure(depth)' = s
  BY <1>5, <1>6 DEF OpenStructure, At, Flow!Loop
<1>8. \A c \in Record : c # control_count' =>
        loop'[c] = loop[c] /\ if_stmt'[c] = if_stmt[c]
  BY <1>1, <1>2
<1>9. Flow!Opened(s)
  <2> HIDE DEF s
  <2> QED BY <1>1, <1>7, <1>8, FlowOpened
<1>10. buffer'.next = buffer.next /\ Jumps' = Jumps
  BY <1>1 DEF Jumps
<1> QED BY <1>1, <1>9, <1>10, FlowStatements DEF Flow!While, Flow!None, Jumps

LEMMA IfFlow ==
  ASSUME Ordinary, FInv, If, FInv'
  PROVE  Flow!If
<1> DEFINE s == Flow!Branch("test", 0, {})
<1>1. Ready /\ Stmt /\ Opens("if") /\ control_count' = control_count + 1
      /\ UNCHANGED <<buffer, offset, loop>>
  BY DEF If, Opening
<1>2. \A c \in Record : if_stmt'[c] =
        IF c = control_count' THEN [next_else |-> Null, list |-> {}] ELSE if_stmt[c]
  BY DEF If
<1>3. depth \in Nat /\ control_count' = depth /\ depth' = depth + 1 /\ depth' - 1 = depth
  BY <1>1 DEF Opens, Ready, FInv, TInv, SyntaxOK, CountOK
<1>4. control_count' \in Record
  <2>1. fault' = (IF control_count' \in Record THEN "none" ELSE "no_record")
    BY DEF If, Opening
  <2>2. fault' = "none"
    BY DEF FInv, PlainOK
  <2> QED BY <2>1, <2>2
<1>5. syntax'[depth'] = [kind |-> "if", part |-> "test"]
  BY <1>1, <1>3 DEF Opens
<1>6. if_stmt'[depth' - 1] = [next_else |-> Null, list |-> {}]
  BY <1>2, <1>3, <1>4
<1>7. OpenStructure(depth)' = s
  BY <1>5, <1>6 DEF OpenStructure, Null, Flow!Branch
<1>8. \A c \in Record : c # control_count' =>
        loop'[c] = loop[c] /\ if_stmt'[c] = if_stmt[c]
  BY <1>1, <1>2
<1>9. Flow!Opened(s)
  <2> HIDE DEF s
  <2> QED BY <1>1, <1>7, <1>8, FlowOpened
<1>10. buffer'.next = buffer.next /\ Jumps' = Jumps
  BY <1>1 DEF Jumps
<1> QED BY <1>1, <1>9, <1>10, FlowStatements DEF Flow!If, Flow!None, Jumps

\* A jump with its operand behind the next byte.
LEMMA FlowWith ==
  ASSUME FInv, NEW b, b.next = buffer.next + 1, buffer.next \in Nat,
         offset' = With(b.next, 0)
  PROVE  Jumps' = Flow!With(Flow!Jump)
<1>1. b.next + 0 = b.next
  OBVIOUS
<1>2. DOMAIN offset' = DOMAIN offset \cup {b.next}
  BY DEF With
<1>3. \A p \in DOMAIN offset' :
        p + offset'[p] = IF p = b.next THEN b.next ELSE Jumps[p]
  BY <1>1 DEF With, Jumps
<1> QED BY <1>2, <1>3 DEF Jumps, Flow!With, Flow!Jump

LEMMA DoFlow ==
  ASSUME Ordinary, FInv, Do
  PROVE  Flow!Do
<1>1. TInv /\ Ready /\ In("while", "test") /\ Becomes("body") /\ UNCHANGED if_stmt
  BY DEF FInv, Do
<1>2. PICK b \in After(buffer, 1) :
        /\ Pending(b) /\ offset' = With(b.next, 0)
        /\ loop' = [loop EXCEPT ![control_count].jump_to_end = At(b)]
  BY DEF Do
<1>3. /\ b.next = buffer.next + 1 /\ buffer'.next = buffer.next + 3
      /\ buffer.next \in Nat /\ b \in Buffer
  BY <1>1, <1>2, PendingType DEF Sound
<1>4. /\ depth > 0 /\ depth - 1 = control_count /\ depth' = depth
      /\ control_count \in Record /\ depth \in 1 .. depth
      /\ syntax \in [1 .. depth -> Item]
      /\ loop \in [Record -> [loop_start : Address, jump_to_end : Address]]
  BY <1>1, TopRecord DEF Becomes, TInv, SyntaxOK, RecordOK
<1>5. /\ syntax[depth].kind = "while" /\ syntax[depth].part = "test"
      /\ syntax'[depth].kind = "while" /\ syntax'[depth].part = "body"
  BY <1>1, <1>4 DEF In, Becomes, Item
<1>6. /\ loop'[depth - 1].loop_start = loop[depth - 1].loop_start
      /\ loop'[depth - 1].jump_to_end.pos = buffer.next + 1
      /\ \A c \in Record : c # control_count =>
           loop'[c] = loop[c] /\ if_stmt'[c] = if_stmt[c]
  BY <1>1, <1>2, <1>3, <1>4 DEF At
<1>7. Flow!At("while", "test") /\ Open[depth] = OpenStructure(depth)
  BY <1>1, FlowTop
<1>8. OpenStructure(depth)' = Flow!Loop("body", Open[depth].start, buffer.next + 1)
  <2>1. Open[depth].start = loop[depth - 1].loop_start.pos
    BY <1>5, <1>7 DEF OpenStructure
  <2> QED BY <1>4, <1>5, <1>6, <2>1 DEF OpenStructure, Flow!Loop
<1>9. Flow!Becomes(Flow!Loop("body", Open[depth].start, buffer.next + 1))
  BY <1>1, <1>4, <1>6, <1>8, FlowBecomes
<1>10. Jumps' = Flow!With(Flow!Jump)
  BY <1>2, <1>3, FlowWith
<1> QED BY <1>3, <1>7, <1>9, <1>10 DEF Flow!Do, Flow!Jump, Jumps, Open

LEMMA ThenFlow ==
  ASSUME Ordinary, FInv, Then
  PROVE  Flow!Then
<1>1. TInv /\ Ready /\ In("if", "test") /\ Becomes("then") /\ UNCHANGED loop
  BY DEF FInv, Then
<1>2. PICK b \in After(buffer, 1) :
        /\ Pending(b) /\ offset' = With(b.next, 0)
        /\ if_stmt' = [if_stmt EXCEPT ![control_count].next_else = At(b)]
  BY DEF Then
<1>3. /\ b.next = buffer.next + 1 /\ buffer'.next = buffer.next + 3
      /\ buffer.next \in Nat /\ b \in Buffer
  BY <1>1, <1>2, PendingType DEF Sound
<1>4. /\ depth > 0 /\ depth - 1 = control_count /\ depth' = depth
      /\ control_count \in Record /\ depth \in 1 .. depth
      /\ syntax \in [1 .. depth -> Item]
      /\ if_stmt \in [Record -> [next_else : Address, list : SUBSET Address]]
  BY <1>1, TopRecord DEF Becomes, TInv, SyntaxOK, RecordOK
<1>5. /\ syntax[depth].kind = "if" /\ syntax[depth].part = "test"
      /\ syntax'[depth].kind = "if" /\ syntax'[depth].part = "then"
  BY <1>1, <1>4 DEF In, Becomes, Item
<1>6. /\ if_stmt'[depth - 1].list = if_stmt[depth - 1].list
      /\ if_stmt'[depth - 1].next_else.pos = buffer.next + 1
      /\ \A c \in Record : c # control_count =>
           loop'[c] = loop[c] /\ if_stmt'[c] = if_stmt[c]
  BY <1>1, <1>2, <1>3, <1>4 DEF At
<1>7. Flow!At("if", "test") /\ Open[depth] = OpenStructure(depth)
  BY <1>1, FlowTop
<1>8. OpenStructure(depth)' = Flow!Branch("then", buffer.next + 1, Open[depth].ends)
  <2>1. Open[depth].ends = {a.pos : a \in if_stmt[depth - 1].list}
    BY <1>5, <1>7 DEF OpenStructure
  <2> QED BY <1>4, <1>5, <1>6, <2>1 DEF OpenStructure, Flow!Branch
<1>9. Flow!Becomes(Flow!Branch("then", buffer.next + 1, Open[depth].ends))
  BY <1>1, <1>4, <1>6, <1>8, FlowBecomes
<1>10. Jumps' = Flow!With(Flow!Jump)
  BY <1>2, <1>3, FlowWith
<1> QED BY <1>3, <1>7, <1>9, <1>10 DEF Flow!Then, Flow!Jump, Jumps, Open

LEMMA EndThenFlow ==
  ASSUME Ordinary, FInv, EndThen
  PROVE  Flow!EndThen
<1>1. TInv /\ Ready /\ In("if", "then") /\ Becomes("after") /\ UNCHANGED loop
  BY DEF FInv, EndThen
<1>2. PICK b \in After(buffer, 1) :
        /\ Pending(b) /\ offset' = With(b.next, 0)
        /\ if_stmt' = [if_stmt EXCEPT ![control_count].list = @ \cup {At(b)}]
  BY DEF EndThen
<1>3. /\ b.next = buffer.next + 1 /\ buffer'.next = buffer.next + 3
      /\ buffer.next \in Nat /\ b \in Buffer
  BY <1>1, <1>2, PendingType DEF Sound
<1>4. /\ depth > 0 /\ depth - 1 = control_count /\ depth' = depth
      /\ control_count \in Record /\ depth \in 1 .. depth
      /\ syntax \in [1 .. depth -> Item]
      /\ if_stmt \in [Record -> [next_else : Address, list : SUBSET Address]]
  BY <1>1, TopRecord DEF Becomes, TInv, SyntaxOK, RecordOK
<1>5. /\ syntax[depth].kind = "if" /\ syntax[depth].part = "then"
      /\ syntax'[depth].kind = "if" /\ syntax'[depth].part = "after"
  BY <1>1, <1>4 DEF In, Becomes, Item
<1>6. /\ if_stmt'[depth - 1].list = if_stmt[depth - 1].list \cup {At(b)}
      /\ if_stmt'[depth - 1].next_else = if_stmt[depth - 1].next_else
      /\ At(b).pos = buffer.next + 1
      /\ \A c \in Record : c # control_count =>
           loop'[c] = loop[c] /\ if_stmt'[c] = if_stmt[c]
  BY <1>1, <1>2, <1>3, <1>4 DEF At
<1>7. Flow!At("if", "then") /\ Open[depth] = OpenStructure(depth)
  BY <1>1, FlowTop
<1>8. OpenStructure(depth)' =
        Flow!Branch("after", Open[depth].exit, Open[depth].ends \cup {buffer.next + 1})
  <2>1. {a.pos : a \in if_stmt'[depth - 1].list} =
          {a.pos : a \in if_stmt[depth - 1].list} \cup {buffer.next + 1}
    BY <1>6
  <2>2. /\ Open[depth].ends = {a.pos : a \in if_stmt[depth - 1].list}
        /\ Open[depth].exit = if_stmt[depth - 1].next_else.pos
    BY <1>5, <1>7 DEF OpenStructure
  <2> QED BY <1>4, <1>5, <1>6, <2>1, <2>2 DEF OpenStructure, Flow!Branch
<1>9. Flow!Becomes(Flow!Branch("after", Open[depth].exit,
                               Open[depth].ends \cup {buffer.next + 1}))
  BY <1>1, <1>4, <1>6, <1>8, FlowBecomes
<1>10. Jumps' = Flow!With(Flow!Jump)
  BY <1>2, <1>3, FlowWith
<1> QED BY <1>3, <1>7, <1>9, <1>10 DEF Flow!EndThen, Flow!Jump, Jumps, Open

LEMMA EndWhileFlow ==
  ASSUME Ordinary, FInv, EndWhile
  PROVE  Flow!EndWhile
<1> DEFINE r == loop[control_count]
<1>1. Ready /\ In("while", "body") /\ Closes /\ UNCHANGED <<loop, if_stmt>>
  BY DEF EndWhile
<1>2. depth > 0 /\ depth - 1 = control_count
  BY <1>1, TopRecord DEF FInv
<1>3. Flow!At("while", "body") /\ Open[depth] = OpenStructure(depth)
  BY <1>1, FlowTop
<1>4. Open[depth].start = r.loop_start.pos /\ Open[depth].exit = r.jump_to_end.pos
  BY <1>1, <1>2, <1>3 DEF In, OpenStructure
<1>5. Flow!Closed
  BY <1>1, <1>2, FlowClosed
<1>6. /\ buffer'.next = buffer.next + 3
      /\ DOMAIN offset' = DOMAIN offset \cup {buffer.next + 1}
      /\ \A p \in DOMAIN offset' :
           p + offset'[p] = IF p = Open[depth].exit THEN buffer.next + 3
                            ELSE IF p = buffer.next + 1 THEN Open[depth].start
                            ELSE p + offset[p]
  BY <1>4, EndWhileFInv
<1>7. DOMAIN Jumps = DOMAIN offset /\ \A p \in DOMAIN offset : Jumps[p] = p + offset[p]
  BY DEF Jumps
<1>8. Jumps' = [p \in DOMAIN Jumps \cup {buffer.next + 1} |->
                  IF p \in {Open[depth].exit} THEN buffer.next + 3
                  ELSE IF p = buffer.next + 1 THEN Open[depth].start ELSE Jumps[p]]
  BY <1>6, <1>7 DEF Jumps
<1>9. Jumps' = Flow!Placed(Flow!With(Open[depth].start), {Open[depth].exit}, buffer.next + 3)
  BY <1>8 DEF Flow!Placed, Flow!With, Flow!Jump, Jumps
<1> QED BY <1>3, <1>5, <1>6, <1>9 DEF Flow!EndWhile, Jumps, Open

LEMMA ElseFlow ==
  ASSUME Ordinary, FInv, NEW part \in {"test", "else"}, Else(part)
  PROVE  Flow!Else(part)
<1> DEFINE r == if_stmt[control_count]
<1>1. /\ TInv /\ Ready /\ In("if", "after") /\ Becomes(part)
      /\ offset' = Fixed(offset, {r.next_else}, buffer.next)
      /\ if_stmt' = [if_stmt EXCEPT ![control_count] = ElseFixed(r)]
      /\ UNCHANGED <<phase, buffer, control_count, loop, starts>>
  BY DEF FInv, Else
<1>2. /\ depth > 0 /\ depth \in Nat /\ depth' = depth /\ depth - 1 = control_count
      /\ control_count \in Record /\ syntax \in [1 .. depth -> Item]
      /\ depth \in 1 .. depth
      /\ if_stmt \in [Record -> [next_else : Address, list : SUBSET Address]]
  BY <1>1, TopRecord DEF Becomes, TInv, SyntaxOK, RecordOK
<1>3. /\ syntax[depth].kind = "if"
      /\ syntax'[depth].kind = "if" /\ syntax'[depth].part = part
  BY <1>1, <1>2 DEF In, Becomes, Item
<1>4. fault' = "none"
  BY ElseFInv DEF FInv, PlainOK
<1>5. /\ DOMAIN offset' = DOMAIN offset
      /\ \A p \in DOMAIN offset : p + offset'[p] =
           IF p = r.next_else.pos THEN buffer.next ELSE p + offset[p]
  <2>1. depth' \in Nat /\ depth' <= depth
    BY <1>2
  <2> DEFINE fixes == {r.next_else}
  <2>2. offset' = Fixed(offset, fixes, buffer.next)
    BY <1>1
  <2> HIDE DEF r, fixes
  <2>3. /\ DOMAIN offset' = DOMAIN offset
        /\ \A p \in DOMAIN offset : p + offset'[p] =
             IF \E a \in fixes : a.pos = p THEN buffer.next ELSE p + offset[p]
    BY <1>1, <1>4, <2>1, <2>2, FixedHere
  <2> QED BY <2>3 DEF fixes
<1>6. /\ if_stmt'[depth - 1].list = r.list
      /\ if_stmt'[depth - 1].next_else = Null
      /\ \A c \in Record : c # control_count =>
           loop'[c] = loop[c] /\ if_stmt'[c] = if_stmt[c]
  BY <1>1, <1>2 DEF ElseFixed
<1>7. Flow!At("if", "after") /\ Open[depth] = OpenStructure(depth)
  BY <1>1, FlowTop
<1>8. /\ Open[depth].exit = r.next_else.pos
      /\ Open[depth].ends = {a.pos : a \in r.list}
  BY <1>2, <1>3, <1>7 DEF OpenStructure
<1>9. OpenStructure(depth)' = Flow!Branch(part, 0, Open[depth].ends)
  BY <1>2, <1>3, <1>6, <1>8 DEF OpenStructure, Flow!Branch, Null
<1>10. Flow!Becomes(Flow!Branch(part, 0, Open[depth].ends))
  BY <1>1, <1>2, <1>6, <1>9, FlowBecomes
<1>11. DOMAIN Jumps = DOMAIN offset /\ \A p \in DOMAIN offset : Jumps[p] = p + offset[p]
  BY DEF Jumps
<1>12. Jumps' = [p \in DOMAIN Jumps |->
                   IF p \in {Open[depth].exit} THEN buffer.next ELSE Jumps[p]]
  BY <1>5, <1>8, <1>11 DEF Jumps
<1>13. Jumps' = Flow!Placed(Jumps, {Open[depth].exit}, buffer.next)
  BY <1>12 DEF Flow!Placed
<1>14. buffer'.next = buffer.next
  BY <1>1
<1> QED BY <1>7, <1>10, <1>13, <1>14 DEF Flow!Else, Flow!None, Jumps, Open

LEMMA EndIfFlow ==
  ASSUME Ordinary, FInv, EndIf
  PROVE  Flow!EndIf
<1> DEFINE r == if_stmt[control_count]
<1>1. /\ TInv /\ Ready /\ Closes
      /\ offset' = Fixed(offset, Unfixed(r), buffer.next)
      /\ if_stmt' = [if_stmt EXCEPT ![control_count] = [next_else |-> Null, list |-> {}]]
      /\ UNCHANGED <<phase, buffer, loop, starts>>
  BY DEF FInv, EndIf
<1>2. PICK part \in {"after", "else"} : In("if", part)
  BY DEF EndIf
<1>3. /\ depth > 0 /\ depth \in Nat /\ depth - 1 = control_count /\ depth' = depth - 1
      /\ control_count \in Record
      /\ if_stmt \in [Record -> [next_else : Address, list : SUBSET Address]]
  BY <1>1, <1>2, TopRecord DEF Closes, TInv, RecordOK
<1>4. syntax[depth].kind = "if"
  BY <1>2 DEF In
<1>5. fault' = "none"
  BY EndIfFInv DEF FInv, PlainOK
<1>6. /\ DOMAIN offset' = DOMAIN offset
      /\ \A p \in DOMAIN offset : p + offset'[p] =
           IF \E a \in Unfixed(r) : a.pos = p THEN buffer.next ELSE p + offset[p]
  <2>1. depth' \in Nat /\ depth' <= depth
    BY <1>3
  <2> HIDE DEF r
  <2> QED BY <1>1, <1>5, <2>1, FixedHere
<1>7. \A c \in Record : c # control_count =>
        loop'[c] = loop[c] /\ if_stmt'[c] = if_stmt[c]
  BY <1>1, <1>3
<1>8. (Flow!At("if", "after") \/ Flow!At("if", "else")) /\ Open[depth] = OpenStructure(depth)
  BY <1>1, <1>2, FlowTop
<1>9. /\ Open[depth].exit = r.next_else.pos
      /\ Open[depth].ends = {a.pos : a \in r.list}
  BY <1>3, <1>4, <1>8 DEF OpenStructure
<1>10. Flow!Closed
  BY <1>1, <1>3, <1>7, FlowClosed
<1>11. \A p \in DOMAIN offset :
         (\E a \in Unfixed(r) : a.pos = p) <=> p \in {Open[depth].exit} \cup Open[depth].ends
  <2> SUFFICES ASSUME NEW p \in DOMAIN offset
               PROVE  (\E a \in Unfixed(r) : a.pos = p)
                        <=> p \in {Open[depth].exit} \cup Open[depth].ends
    OBVIOUS
  <2>1. p # 0
    BY DEF FInv, TInv, OffsetOK, Operands, PlacesOK
  <2>2. r.next_else = Null => p # r.next_else.pos
    BY <2>1 DEF Null
  <2> HIDE DEF r
  <2> QED BY <1>9, <2>2 DEF Unfixed
<1>12. DOMAIN Jumps = DOMAIN offset /\ \A p \in DOMAIN offset : Jumps[p] = p + offset[p]
  BY DEF Jumps
<1>13. Jumps' = [p \in DOMAIN Jumps |->
                   IF p \in {Open[depth].exit} \cup Open[depth].ends
                   THEN buffer.next ELSE Jumps[p]]
  BY <1>6, <1>11, <1>12 DEF Jumps
<1>14. Jumps' = Flow!Placed(Jumps, {Open[depth].exit} \cup Open[depth].ends, buffer.next)
  BY <1>13 DEF Flow!Placed
<1>15. buffer'.next = buffer.next
  BY <1>1
<1> QED BY <1>8, <1>10, <1>14, <1>15 DEF Flow!EndIf, Jumps, Open

LEMMA CodeFlow ==
  ASSUME Ordinary, FInv,
         \/ \E n \in Chunk : Emit(n) \/ MergeItem(n)
         \/ \E n \in Text : EmitString(n)
         \/ Compiled
  PROVE  Flow!Emit
<1>1. buffer.next \in Nat /\ TInv
  BY DEF FInv, TInv, BufferOK, Buffer
<1>2. ASSUME NEW n \in Chunk, Emit(n) \/ MergeItem(n) PROVE Flow!Emit
  <2>1. buffer'.next = buffer.next + n /\ n \in Nat /\ n > 0
    BY <1>1, <1>2, EmitTInv, MergeTInv, SizeAssumption
  <2>2. Ready /\ Coding
        /\ UNCHANGED <<offset, depth, syntax, control_count, loop, if_stmt>>
    BY <1>2 DEF Emit, MergeItem
  <2> QED BY <1>1, <2>1, <2>2, FlowEmit
<1>3. ASSUME NEW n \in Text, EmitString(n) PROVE Flow!Emit
  <2>1. buffer'.next = buffer.next + 3 + n /\ n \in Nat
    BY <1>1, <1>3, StringTInv, SizeAssumption
  <2>2. Ready /\ Coding
        /\ UNCHANGED <<offset, depth, syntax, control_count, loop, if_stmt>>
    BY <1>3 DEF EmitString
  <2> QED BY <1>1, <2>1, <2>2, FlowEmit
<1>4. CASE Compiled
  <2>1. buffer'.next = buffer.next + 1
    BY <1>1, <1>4, CompiledTInv
  <2>2. Ready /\ Coding
        /\ UNCHANGED <<offset, depth, syntax, control_count, loop, if_stmt>>
    BY <1>4 DEF Compiled, Coding
  <2> QED BY <1>1, <2>1, <2>2, FlowEmit
<1> QED BY <1>2, <1>3, <1>4

LEMMA FlowStep ==
  ASSUME Ordinary, FInv, [Next]_vars
  PROVE  [Flow!Next]_Flow!vars
<1>1. FInv'
  BY NextFInv
<1>2. CASE \/ \E n \in Chunk : Emit(n) \/ MergeItem(n)
           \/ \E n \in Text : EmitString(n)
           \/ Compiled
  BY <1>2, CodeFlow DEF Flow!Next
<1>3. CASE While
  BY <1>1, <1>3, WhileFlow DEF Flow!Next
<1>4. CASE Do
  BY <1>4, DoFlow DEF Flow!Next
<1>5. CASE EndWhile
  BY <1>5, EndWhileFlow DEF Flow!Next
<1>6. CASE If
  BY <1>1, <1>6, IfFlow DEF Flow!Next
<1>7. CASE Then
  BY <1>7, ThenFlow DEF Flow!Next
<1>8. CASE EndThen
  BY <1>8, EndThenFlow DEF Flow!Next
<1>9. CASE Else("test") \/ Else("else")
  BY <1>9, ElseFlow DEF Flow!Next
<1>10. CASE EndIf
  BY <1>10, EndIfFlow DEF Flow!Next
<1>11. CASE Fails \/ UNCHANGED vars
  <2>1. UNCHANGED <<buffer, offset, depth, syntax, loop, if_stmt>>
    BY <1>11 DEF Fails, vars
  <2>2. \A i : OpenStructure(i)' = OpenStructure(i)
    BY <2>1 DEF OpenStructure
  <2>3. Open' = Open /\ Jumps' = Jumps /\ buffer'.next = buffer.next /\ depth' = depth
    BY <2>1, <2>2 DEF Open, Jumps
  <2> QED BY <2>3 DEF Flow!vars, Open, Jumps
<1> QED BY <1>2, <1>3, <1>4, <1>5, <1>6, <1>7, <1>8, <1>9, <1>10, <1>11 DEF Next

\* The records shared by all loops and ifs, and the addresses in them, do what
\* ControlFlow says of each structure by itself: every jump is sent where its
\* own structure sends it.
THEOREM CompilerImplementsControlFlow ==
  ASSUME Ordinary
  PROVE  Spec => FlowSpec
<1>1. Init => Flow!Init
  <2> SUFFICES ASSUME Init PROVE Flow!Init
    OBVIOUS
  <2>1. buffer.next = 2 /\ depth = 0
    BY DEF Init
  <2>2. Jumps = [p \in {} |-> 0]
    BY DEF Init, Jumps
  <2>3. Open = [i \in {} |-> 0]
    BY <2>1 DEF Open
  <2> QED BY <2>1, <2>2, <2>3 DEF Flow!Init, Jumps, Open
<1>2. FInv /\ [Next]_vars => [Flow!Next]_Flow!vars
  BY FlowStep
<1> QED BY <1>1, <1>2, FInvHolds, PTL DEF Spec, FlowSpec, Flow!Spec
=============================================================================
