----------------------------- MODULE Execution -----------------------------
(***************************************************************************)
(* Items that are executed while game code deletes, assigns and compiles   *)
(* items (src/interpret.c, src/item.c), and the restart after SIGUSR1      *)
(* (src/sin.c).                                                            *)
(*                                                                         *)
(* An item is found by its path from the root of the tree.  A code item    *)
(* owns a block of bytecode; the interpreter holds pointers into blocks,   *)
(* one for each item that is being executed.  Values are not modelled, nor *)
(* are the subitems of "error", which no Path is part of.                  *)
(***************************************************************************)
EXTENDS Naturals, Sequences, FiniteSets

CONSTANTS
  Path,         \* the items game code names: sequences of layer names
  Input,        \* config.input
  Code,         \* blocks of bytecode
  MaxCalls,     \* CALLSTACK_SIZE
  Careless      \* what game code does beyond ordinary play, see below

(* "recursion": an item calls itself, directly or not                      *)
(* "ancestor":  an item is deleted while one below it is executed          *)
(* "overwrite": a code item that is idle is assigned a value               *)
(* "deep":      calls are nested deeper than the call stack                *)
(* "input":     the input item is made a value item                        *)
Liberty == {"recursion", "ancestor", "overwrite", "deep", "input"}

Above(p) == {SubSeq(p, 1, n) : n \in 1 .. Len(p)}

ASSUME PathAssumption ==
  /\ \A p \in Path : p \in Seq(STRING) /\ p # <<>> /\ Above(p) \subseteq Path
  /\ Input \in Path
ASSUME ExecutionAssumption ==
  MaxCalls \in Nat \ {0} /\ Careless \subseteq Liberty /\ "none" \notin Code

NoCode == "none"

VARIABLES
  phase,        \* "boot", "loop", or "exited"
  tree,         \* what each path leads to
  heap,         \* the blocks that are allocated
  frames,       \* the calls of interpret(), the innermost last
  blocked,      \* SIGUSR1 is blocked: its handler never returned
  error,        \* the item "error"
  fault         \* "none", or the use that was made of freed memory

vars == <<phase, tree, heap, frames, blocked, error, fault>>

Absent == [type |-> "absent", inuse |-> FALSE, code |-> NoCode]
Value == [type |-> "value", inuse |-> FALSE, code |-> NoCode]
Item == [type : {"absent", "value", "code"}, inuse : BOOLEAN,
         code : Code \cup {NoCode}]

(* The boot item is not in the tree.  A call: the path of the item and the *)
(* block op points into.                                                   *)
Boot == [item |-> <<>>, code |-> NoCode]

Init ==
  /\ phase = "boot"
  /\ tree = [p \in Path |-> Absent]
  /\ heap = {}
  /\ frames = <<Boot>>
  /\ blocked = FALSE
  /\ error = "none"
  /\ fault = "none"

-----------------------------------------------------------------------------

Present(p) == tree[p].type # "absent"
IsCode(p) == tree[p].type = "code"
Below(p) == {q \in Path : p \in Above(q)}

Top == frames[Len(frames)]
Running(p) == \E i \in 1 .. Len(frames) : frames[i].item = p

\* The interpreter can go on: the bytecode it reads is there.
Coding ==
  /\ fault = "none"
  /\ frames # <<>>
  /\ Top = Boot \/ Top.code \in heap

\* Blocks nothing points into.
Unused == Code \ (heap \cup {tree[p].code : p \in Path}
                       \cup {frames[i].code : i \in 1 .. Len(frames)})

\* Mutant: only the last layer is made.
WithLast(p) == [q \in Path |-> IF q = p /\ ~Present(q) THEN Value ELSE tree[q]]

\* The layers insert_item and insert_code_item make on the way to p.
WithLayers(p) ==
  [q \in Path |-> IF q \in Above(p) /\ ~Present(q) THEN Value ELSE tree[q]]

\* Freeing the block of an item that still has a pointer to a freed one.
Freed(p) == IF tree[p].code \in heap \cup {NoCode} THEN "none" ELSE "double_free"

-----------------------------------------------------------------------------
(* Opcodes.                                                                *)

\* Mutant: delete_item does not look at inuse.
DeletableAlways(p) == Present(p)

Deletable(p) == Present(p) /\ ~tree[p].inuse

\* op_delete, delete_item, destroy_item: the item and all below it.
Delete(p) ==
  /\ Coding
  /\ Deletable(p)
  /\ "ancestor" \in Careless \/ \A q \in Below(p) \ {p} : ~Running(q)
  /\ fault' = IF \E q \in Below(p) : Freed(q) # "none" THEN "double_free" ELSE "none"
  /\ heap' = heap \ {tree[q].code : q \in Below(p)}
  /\ tree' = [q \in Path |-> IF q \in Below(p) THEN Absent ELSE tree[q]]
  /\ UNCHANGED <<phase, frames, blocked, error>>

\* op_assignitem, insert_item.  A code item in use is left alone.  One that
\* is idle loses its bytecode, but stays a code item and keeps the pointer.
AssignValue(p) ==
  /\ Coding
  /\ p = Input => "input" \in Careless
  /\ tree' = WithLayers(p)
  /\ IF IsCode(p) /\ ~tree[p].inuse
     THEN /\ "overwrite" \in Careless
          /\ fault' = Freed(p)
          /\ heap' = heap \ {tree[p].code}
     ELSE UNCHANGED <<heap, fault>>
  /\ UNCHANGED <<phase, frames, blocked, error>>

\* Mutant: op_assigncodeitem does not look at inuse.
InUseNever(p) == FALSE

\* op_assigncodeitem: the item cannot be overwritten.
InUse(p) == tree[p].inuse

\* Mutant: insert_code_item keeps the old block.
ReplacedKept(p, c) == heap \cup {c}

\* insert_code_item frees the block the item had.
Replaced(p, c) == (heap \ {tree[p].code}) \cup {c}

\* op_assigncodeitem: refused, rejected by the compiler, or compiled.
AssignCodeInUse(p) ==
  /\ Coding
  /\ InUse(p)
  /\ error' = "in_use"
  /\ UNCHANGED <<phase, tree, heap, frames, blocked, fault>>

AssignCodeFails(p) ==
  /\ Coding
  /\ ~InUse(p)
  /\ error' = "syntax"
  /\ UNCHANGED <<phase, tree, heap, frames, blocked, fault>>

AssignCode(p, c) ==
  /\ Coding
  /\ ~InUse(p)
  /\ c \in Unused
  /\ tree' = [WithLayers(p) EXCEPT ![p].type = "code", ![p].code = c]
  /\ heap' = Replaced(p, c)
  /\ fault' = Freed(p)
  /\ error' = "none"
  /\ UNCHANGED <<phase, frames, blocked>>

\* interpret: the item is in use.
Enter(p) == tree' = [tree EXCEPT ![p].inuse = TRUE]

\* op_fetchitem of a code item.  A value item only gives its value.
Fetch(p) ==
  /\ Coding
  /\ IsCode(p)
  /\ tree[p].code \in heap
  /\ Len(frames) <= MaxCalls
  /\ "recursion" \in Careless \/ ~Running(p)
  /\ Enter(p)
  /\ frames' = Append(frames, [item |-> p, code |-> tree[p].code])
  /\ UNCHANGED <<phase, heap, blocked, error, fault>>

\* It reads the number of parameters from bytecode that is gone.
FetchFreed(p) ==
  /\ Coding
  /\ IsCode(p)
  /\ tree[p].code \notin heap
  /\ fault' = "freed_bytecode"
  /\ UNCHANGED <<phase, tree, heap, frames, blocked, error>>

\* SIGUSR1: handle_sigusr1 jumps back to main, which runs the boot item again
\* on new stacks.  When the signal is blocked raise only returns.
Raise ==
  /\ blocked' = TRUE
  /\ frames' = IF blocked THEN frames ELSE <<Boot>>
  /\ fault' = IF blocked THEN "frame_lost"
              ELSE IF phase = "boot" THEN "none" ELSE "boot_freed"

\* push_callstack finds the call stack full.  If it returns op_fetchitem goes
\* on without a frame of its own.
FetchTooDeep(p) ==
  /\ Coding
  /\ "deep" \in Careless
  /\ IsCode(p)
  /\ tree[p].code \in heap
  /\ Len(frames) > MaxCalls
  /\ "recursion" \in Careless \/ ~Running(p)
  /\ Raise
  /\ UNCHANGED <<phase, tree, heap, error>>

\* interpret at the halt opcode: the item is free again.
Leave(p) == tree' = [tree EXCEPT ![p].inuse = FALSE]

\* interpret returns to op_fetchitem, to input_processor or to
\* execute_task_cb.
Return ==
  /\ Coding
  /\ Top # Boot
  /\ Leave(Top.item)
  /\ frames' = SubSeq(frames, 1, Len(frames) - 1)
  /\ UNCHANGED <<phase, heap, blocked, error, fault>>

\* The boot item ends; main destroys it and starts the loop.
BootReturns ==
  /\ Coding
  /\ Top = Boot
  /\ frames' = <<>>
  /\ phase' = "loop"
  /\ UNCHANGED <<tree, heap, blocked, error, fault>>

-----------------------------------------------------------------------------
(* The event loop.                                                         *)

Idle == fault = "none" /\ phase = "loop" /\ frames = <<>>

\* interpret called by input_processor or by execute_task_cb.
Start(p) ==
  /\ IF tree[p].code \in heap
     THEN /\ Enter(p)
          /\ frames' = <<[item |-> p, code |-> tree[p].code]>>
          /\ UNCHANGED fault
     ELSE fault' = "freed_bytecode" /\ UNCHANGED <<tree, frames>>
  /\ UNCHANGED <<phase, heap, blocked, error>>

\* execute_task_cb runs code items only; input_processor does not look: the
\* bytecode of a value item is NULL.
RunTask(p) == Idle /\ IsCode(p) /\ Start(p)

RunInput == Idle /\ Present(Input) /\ Start(Input)

\* input_processor exits when there is no input item.
NoInput ==
  /\ Idle
  /\ ~Present(Input)
  /\ phase' = "exited"
  /\ UNCHANGED <<tree, heap, frames, blocked, error, fault>>

Next ==
  \/ \E p \in Path :
       \/ Delete(p)
       \/ AssignValue(p)
       \/ AssignCodeInUse(p)
       \/ AssignCodeFails(p)
       \/ \E c \in Code : AssignCode(p, c)
       \/ Fetch(p)
       \/ FetchFreed(p)
       \/ FetchTooDeep(p)
       \/ RunTask(p)
  \/ Return
  \/ BootReturns
  \/ RunInput
  \/ NoInput

Spec == Init /\ [][Next]_vars

-----------------------------------------------------------------------------
(* Properties.                                                             *)

TypeOK ==
  /\ phase \in {"boot", "loop", "exited"}
  /\ tree \in [Path -> Item]
  /\ heap \subseteq Code
  /\ frames \in Seq([item : Path, code : Code] \cup {Boot})
  /\ blocked \in BOOLEAN
  /\ error \in {"none", "in_use", "syntax"}
  /\ fault \in {"none", "double_free", "freed_bytecode", "frame_lost",
                "boot_freed"}

\* The bytecode that is executed, or will be when a call returns, has not
\* been freed, and is that of its item: what game code deletes, assigns and
\* compiles never takes the code away from under the interpreter
\* (delete_item, insert_item, op_assigncodeitem).
RunningCodeIsLive ==
  \A i \in 1 .. Len(frames) :
    frames[i] = Boot \/ /\ frames[i].code \in heap
                        /\ tree[frames[i].item].code = frames[i].code

\* inuse is set while the item is executed ...
RunningIsInUse == \A p \in Path : Running(p) => tree[p].inuse

\* ... and only then: an item that nobody executes can be replaced.
InUseIsRunning == \A p \in Path : tree[p].inuse => Running(p)

\* inuse says exactly what is executed, whatever calls what, returns, or is
\* replaced (interpret.c:1069, interpret.c:1088).
InUseExact == RunningIsInUse /\ InUseIsRunning

\* Every block belongs to one code item, and every code item has its block:
\* none is freed twice, lost or shared (insert_item, insert_code_item,
\* destroy_item).
CodeOwned ==
  /\ \A p \in Path : IsCode(p) <=> tree[p].code # NoCode
  /\ \A p, q \in Path : IsCode(p) /\ tree[p].code = tree[q].code => p = q
  /\ heap = {tree[p].code : p \in {q \in Path : IsCode(q)}}

\* An item has the layers above it, so that find_item finds it: they are
\* made first and deleted with it.
LayersAbove == \A p \in Path : Present(p) => \A q \in Above(p) : Present(q)

\* A restart runs the boot item only as long as it exists.
RestartIsSafe == fault # "boot_freed"

=============================================================================
