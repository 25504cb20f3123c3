------------------------------- MODULE Stack -------------------------------
(***************************************************************************)
(* The value stack of one VM: values, locals, call frames, and who frees   *)
(* the strings (src/stack.c, src/vm.c and the opcodes of src/interpret.c   *)
(* that move values).                                                      *)
(*                                                                         *)
(* A slot holds "nil", "int" (which stands for bools too) or a pointer to  *)
(* a string.  Strings that are handed to items or to library calls are     *)
(* theirs, and leave the model.  What compiled code does to the stack is   *)
(* bounded as the compiler bounds it: an expression takes values it made.  *)
(***************************************************************************)
EXTENDS Integers, Sequences, FiniteSets

CONSTANTS
  Str,          \* the addresses of strings
  StackSize,    \* STACK_SIZE
  IndexRange,   \* 256: the index of a local is an 8-bit number
  MaxCalls,     \* a bound on nested calls, below CALLSTACK_SIZE
  MaxLocals,    \* a bound on the locals of one item, parameters included
  MaxArgs,      \* a bound on the arguments of one call
  Careless      \* what game code does beyond ordinary play, see below

(* "string_local": a local is assigned a string                            *)
(* "string_arg":   a parameter is given a string                           *)
(* "leftover":     an item ends with more than one value on the stack, or  *)
(*                 arguments are given to an item that is not code         *)
(* "no_value":     an item that is called ends without a value             *)
(* "deep":         calls go beyond the stack or the range of an index      *)
(* "params":       the item of a task, or the input item, has parameters   *)
(* "input_value":  the input item ends with a string                       *)
Liberty == {"string_local", "string_arg", "leftover", "no_value", "deep",
            "params", "input_value"}

ASSUME StackAssumption ==
  /\ StackSize \in Nat \ {0} /\ IndexRange \in Nat \ {0}
  /\ MaxCalls \in Nat /\ MaxLocals \in Nat /\ MaxArgs \in Nat
  /\ MaxLocals < IndexRange /\ IndexRange <= StackSize
  /\ Careless \subseteq Liberty
  /\ Str \cap {"nil", "int"} = {}

Slot == 0 .. StackSize - 1
Content == {"nil", "int"} \cup Str

VARIABLES
  slot,         \* the array
  current,      \* the index of the top value
  base,         \* where the slots of the running item begin
  locals,       \* how many of them are its locals
  calls,        \* the call stack
  running,      \* an item is being interpreted
  heap,         \* the strings that are allocated and the stack's to free
  forgotten,    \* those that an operator took and did not free
  fault         \* "none", or what went wrong

vars == <<slot, current, base, locals, calls, running, heap, forgotten, fault>>

\* make_vm: calloc makes every slot an integer, the first of the types.
Init ==
  /\ slot = [s \in Slot |-> "int"]
  /\ current = -1
  /\ base = 0
  /\ locals = 0
  /\ calls = <<>>
  /\ running = FALSE
  /\ heap = {}
  /\ forgotten = {}
  /\ fault = "none"

-----------------------------------------------------------------------------

\* The values the running item has on the stack, above its locals.
Own == current + 1 - (base + locals)

Ready == running /\ fault = "none"
Room(n) == "deep" \in Careless \/ current + n < StackSize

Strings(S) == {slot[s] : s \in S} \cap Str
Allocated == heap \cup forgotten

\* Mutant: throwing a value away keeps its string.
FreeNothing(S) == UNCHANGED <<heap, forgotten, fault>>

\* Freeing the strings in a set of slots, one after the other.
Free(S) ==
  /\ heap' = heap \ Strings(S)
  /\ forgotten' = forgotten \ Strings(S)
  /\ fault' = IF \/ ~ (Strings(S) \subseteq Allocated)
                 \/ \E s, t \in S : s # t /\ slot[s] \in Str /\ slot[s] = slot[t]
              THEN "double_free" ELSE "none"

\* The topmost n slots, from c downwards.
Topmost(c, n) == (c - n + 1) .. c

\* Mutant: pop_stack leaves the type.
ClearedNot(S) == slot

\* pop_stack sets the type of what it takes to nil.
Cleared(S) == [s \in Slot |-> IF s \in S THEN "nil" ELSE slot[s]]

\* push_stack, on an array a whose top is c.
PushOn(a, c, v) ==
  IF c < StackSize - 1
  THEN slot' = [a EXCEPT ![c + 1] = v] /\ current' = c + 1
  ELSE slot' = a /\ current' = c

-----------------------------------------------------------------------------
(* Opcodes that make and take values.                                      *)

\* op_pushint, op_pushstr, and the results of operators and library calls.
PushInt ==
  /\ Ready
  /\ Room(1)
  /\ PushOn(slot, current, "int")
  /\ fault' = IF current < StackSize - 1 THEN "none" ELSE "overflow"
  /\ UNCHANGED <<base, locals, calls, running, heap, forgotten>>

PushStr(s) ==
  /\ Ready
  /\ Room(1)
  /\ s \in Str \ Allocated
  /\ PushOn(slot, current, s)
  /\ heap' = heap \cup {s}
  /\ fault' = IF current < StackSize - 1 THEN "none" ELSE "overflow"
  /\ UNCHANGED <<base, locals, calls, running, forgotten>>

\* An operator, a branch or a library call takes the top value and frees it,
\* or gives it to an item.
Consume ==
  /\ Ready
  /\ Own > 0
  /\ slot' = Cleared({current})
  /\ current' = current - 1
  /\ Free({current})
  /\ UNCHANGED <<base, locals, calls, running>>

\* The comparisons (op_equal to op_greaterthanorequal), op_jumpfalse when it
\* jumps, and arithmetic of an integer and a string pop a string, read it and
\* do not free it.
Forget ==
  /\ Ready
  /\ Own > 0
  /\ slot[current] \in Str
  /\ slot' = Cleared({current})
  /\ current' = current - 1
  /\ heap' = heap \ {slot[current]}
  /\ IF slot[current] \in Allocated
     THEN forgotten' = forgotten \cup {slot[current]} /\ UNCHANGED fault
     ELSE fault' = "freed_string" /\ UNCHANGED forgotten
  /\ UNCHANGED <<base, locals, calls, running>>

-----------------------------------------------------------------------------
(* Locals.                                                                 *)

\* Mutant: indexed from the bottom of the stack.
IndexAbsolute(i) == i % IndexRange

Index(i) == (i + base) % IndexRange

\* op_savelocal: the value is copied down; the slot it came from keeps it.
SaveLocal(i) ==
  /\ Ready
  /\ i < locals
  /\ Own > 0
  /\ slot[current] \in Str => "string_local" \in Careless
  /\ Free({Index(i)})
  /\ slot' = [slot EXCEPT ![Index(i)] = slot[current]]
  /\ current' = current - 1
  /\ UNCHANGED <<base, locals, calls, running>>

\* op_getlocal: a string is duplicated.  Nothing looks whether there is room.
GetLocal(i) ==
  /\ Ready
  /\ i < locals
  /\ Room(1)
  /\ IF current + 1 >= StackSize
     THEN fault' = "overrun" /\ UNCHANGED <<slot, current, heap>>
     ELSE /\ current' = current + 1
          /\ \/ /\ slot[Index(i)] \notin Str
                /\ slot' = [slot EXCEPT ![current + 1] = slot[Index(i)]]
                /\ UNCHANGED <<heap, fault>>
             \/ /\ slot[Index(i)] \in Allocated
                /\ \E s \in Str \ Allocated :
                     /\ slot' = [slot EXCEPT ![current + 1] = s]
                     /\ heap' = heap \cup {s}
                /\ UNCHANGED fault
             \/ /\ slot[Index(i)] \in Str \ Allocated
                /\ fault' = "freed_string"
                /\ UNCHANGED <<slot, heap>>
  /\ UNCHANGED <<base, locals, calls, running, forgotten>>

-----------------------------------------------------------------------------
(* Calls.                                                                  *)

\* push_callstack: the arguments are the first slots of the frame.
FrameBase(top, np) == top - np + 1

\* op_fetchitem of a code item with np parameters and nl locals, and the
\* first lines of interpret.  Arguments in excess are thrown away, missing
\* ones are nil; the slots of the other locals keep what was there.
Call(argc, np, nl) ==
  LET lost == Topmost(current, argc - np)
      kept == Topmost(current - (IF argc > np THEN argc - np ELSE 0),
                      IF argc > np THEN np ELSE argc)
      missing == (current + 1) .. (current + np - argc)
      floor == current - argc
  IN
  /\ Ready
  /\ Len(calls) < MaxCalls
  /\ argc <= Own
  /\ np <= nl
  /\ Strings(kept) = {} \/ "string_arg" \in Careless
  /\ \/ "deep" \in Careless
     \/ floor + nl < StackSize /\ floor + nl < IndexRange
  /\ Free(lost)
  /\ IF floor + nl < StackSize
     THEN /\ slot' = Cleared(lost \cup missing)
          /\ calls' = Append(calls, [current |-> floor, base |-> base,
                                     locals |-> locals])
          /\ current' = floor + nl
          /\ base' = FrameBase(floor + np, np)
          /\ locals' = nl
          /\ UNCHANGED running
     ELSE \* the signal of push_stack, or a frame beyond the array
          /\ running' = FALSE
          /\ UNCHANGED <<slot, current, base, locals, calls>>

\* op_fetchitem of a value item: the arguments stay where they are.  (Here and
\* below a full stack is left out: PushInt shows what it does.)
FetchValue(argc, v) ==
  /\ Ready
  /\ argc <= Own
  /\ argc > 0 => "leftover" \in Careless
  /\ current + 1 < StackSize
  /\ v \notin Allocated
  /\ PushOn(slot, current, v)
  /\ heap' = heap \cup ({v} \cap Str)
  /\ UNCHANGED <<base, locals, calls, running, forgotten, fault>>

\* op_fetchitem of an item that does not exist: nil for its arguments.
FetchMissing(argc) ==
  /\ Ready
  /\ argc <= Own
  /\ current - argc + 1 < StackSize
  /\ Free(Topmost(current, argc))
  /\ PushOn(Cleared(Topmost(current, argc)), current - argc, "nil")
  /\ UNCHANGED <<base, locals, calls, running>>

\* size_stack: the result of interpret is the top of the stack, or nil.
HasValue == current + 1 - locals > 0

\* Mutant: what the item left stays.
ResetToNothing(left, top) == left

\* reset_stack_to
ResetTo(left, top) == IF left > top THEN top ELSE left

\* The halt opcode in an item that was called, pop_callstack, and the push
\* of the result.
Return ==
  LET frame == calls[Len(calls)]
      left == IF HasValue THEN current - 1 ELSE current
      value == IF HasValue THEN slot[current] ELSE "nil"
      array == IF HasValue THEN Cleared({current}) ELSE slot
  IN
  /\ Ready
  /\ calls # <<>>
  /\ "no_value" \in Careless \/ Own > 0
  /\ "leftover" \in Careless \/ Own <= 1
  /\ PushOn(array, ResetTo(left, frame.current), value)
  /\ base' = frame.base
  /\ locals' = frame.locals
  /\ calls' = SubSeq(calls, 1, Len(calls) - 1)
  /\ UNCHANGED <<running, heap, forgotten, fault>>

-----------------------------------------------------------------------------
(* The event loop: execute_task_cb and input_processor.                    *)

\* interpret of an item that nothing called: no arguments were pushed.
Start(np, nl) ==
  /\ ~running
  /\ fault = "none"
  /\ np <= nl
  /\ np > 0 => "params" \in Careless
  /\ running' = TRUE
  /\ current' = current + nl - np
  /\ locals' = nl
  /\ UNCHANGED <<slot, base, calls, heap, forgotten, fault>>

\* reset_stack goes through these slots.
ResetSlots(c) == {s \in Slot : s < c + locals}

\* interpret returns and reset_stack is called.  execute_task_cb frees a
\* string that is the result, input_processor does not.
Ends(frees) ==
  LET left == IF HasValue THEN current - 1 ELSE current
      array == IF HasValue THEN Cleared({current}) ELSE slot
      lost == {array[s] : s \in ResetSlots(left)} \cap Str
      result == IF HasValue /\ frees THEN {slot[current]} \cap Str ELSE {}
  IN
  /\ Ready
  /\ calls = <<>>
  /\ "leftover" \in Careless \/ Own <= 1
  /\ (~frees /\ HasValue /\ slot[current] \in Str) => "input_value" \in Careless
  /\ running' = FALSE
  /\ slot' = array
  /\ current' = -1
  /\ heap' = heap \ (lost \cup result)
  /\ forgotten' = forgotten \ (lost \cup result)
  /\ fault' = IF \/ ~ (lost \cup result \subseteq Allocated)
                 \/ lost \cap result # {}
                 \/ \E s, t \in ResetSlots(left) :
                      s # t /\ array[s] \in Str /\ array[s] = array[t]
              THEN "double_free" ELSE "none"
  /\ UNCHANGED <<base, locals, calls>>

EndTask == Ends(TRUE)
EndInput == Ends(FALSE)

Next ==
  \/ PushInt
  \/ \E s \in Str : PushStr(s)
  \/ Consume
  \/ Forget
  \/ \E i \in 0 .. MaxLocals - 1 : SaveLocal(i) \/ GetLocal(i)
  \/ \E argc \in 0 .. MaxArgs, np, nl \in 0 .. MaxLocals : Call(argc, np, nl)
  \/ \E argc \in 0 .. MaxArgs, v \in Content : FetchValue(argc, v)
  \/ \E argc \in 0 .. MaxArgs : FetchMissing(argc)
  \/ Return
  \/ \E np, nl \in 0 .. MaxLocals : Start(np, nl)
  \/ EndTask
  \/ EndInput

Spec == Init /\ [][Next]_vars

-----------------------------------------------------------------------------
(* Properties.                                                             *)

TypeOK ==
  /\ slot \in [Slot -> Content]
  /\ current \in -1 .. StackSize - 1
  /\ base \in 0 .. StackSize
  /\ locals \in 0 .. MaxLocals
  /\ calls \in Seq([current : -1 .. StackSize - 1, base : 0 .. StackSize,
                    locals : 0 .. MaxLocals])
  /\ running \in BOOLEAN
  /\ heap \subseteq Str /\ forgotten \subseteq Str
  /\ fault \in {"none", "overflow", "overrun", "double_free", "freed_string"}

\* Frames lie one upon another: each begins where the one below it stops, and
\* its locals are below its values (push_callstack, pop_callstack, interpret).
FramesStack ==
  /\ running => base + locals <= current + 1
  /\ \A k \in 1 .. Len(calls) :
       LET next == IF k < Len(calls) THEN calls[k + 1].base ELSE base
       IN /\ next = calls[k].current + 1
          /\ calls[k].base + calls[k].locals <= next

\* Every string on the stack is allocated and is there once, and besides the
\* ones that operators forgot there is no other: none is freed under a value,
\* no frame that ends and no argument that is thrown away leaves one behind,
\* and a forgotten one is never met again (FREE_STR, pop_stack,
\* throwaway_stack, pop_callstack, reset_stack).
StringsOwned ==
  /\ heap = Strings(Slot \cap 0 .. current)
  /\ heap \cap forgotten = {}
  /\ \A s, t \in Slot \cap 0 .. current :
       slot[s] \in Str /\ slot[s] = slot[t] => s = t

\* Nothing is freed twice, used when freed, or written beyond the stack.
NoFault == fault = "none"

\* When no item runs, every string has been freed but the forgotten ones
\* (reset_stack).
NothingLost == ~running => heap = {}

\* The running item changes nothing of the items that called it, also when
\* it returns (op_savelocal, op_getlocal, interpret, pop_callstack).
FrameIsOwn == [][\A s \in Slot : s < base => slot'[s] = slot[s]]_vars

\* A call takes its arguments and gives one value.
CallGivesOne ==
  [][Len(calls') < Len(calls) => current' = calls[Len(calls)].current + 1]_vars

=============================================================================
