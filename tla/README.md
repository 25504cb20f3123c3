# A TLA+ verification project for Sinistra

Sinistra (`src/`) is an engine for text games.  One process holds a tree of
named *items* (values and compiled code), accepts telnet connections, and runs
game code: a *boot* item once, an *input* item on every turn of a libuv event
loop, and *tasks* when their timers are due.  Game code is compiled by an
embedded compiler and interpreted by a stack machine.  The item tree is loaded
from a file when the engine starts and saved when it stops.

Everything runs on one thread.  What makes the engine hard to get right is not
parallelism but order: which libuv callback runs before which library call, what
a pointer that was stored earlier still means when it is used, and what is left
behind when an operation ends in the middle.

## 1. Inventory

| Component | State | Operations | Talks to |
|---|---|---|---|
| Connection table (`network.c`) | `line[]`: status, socket handle, telnet, input buffer | `on_new_connection`, `client_read`, `client_on_close`, `telnet_event_handler`, `input_processor` | libuv (callbacks), the telnet engine, the interpreter |
| Output (`network.c`) | the output buffer of a line; the write that libuv has not finished | `append_output`, `flush_output` | libuv, the telnet engine |
| Telnet engine (`libtelnet.c`, `.h`) | per connection: the place in the protocol, where each option stands, the subnegotiation buffer | `telnet_recv`; `telnet_printf`, `telnet_send`, `telnet_negotiate`, `telnet_iac`, subnegotiations | the connection table (events), the engine at the other end |
| Network library calls (`libcall.c`) | `config.lastconn`, the items `input.line` and `input.text` | `net.input`, `net.write` | the connection table |
| Tasks (`task.c`, `libcall.c`) | the task list, the next task id (its stack of retired ids is never allocated), one timer and one VM per task | `task.newgametask`, `task.killtask`, the timer callback, `finalise_tasks` | libuv timers, the item store, the interpreter |
| Stack machine (`stack.c`, `vm.c`) | value stack, locals, call stack | push, pop, reset, call frames | the interpreter |
| Interpreter (`interpret.c`, `value.c`) | program counter, the VM, `inuse` of the items being run | one function per opcode | everything |
| Operators and names (`interpret.c`, `value.c`, `libcall.c`, `parser.y`) | the values on the stack, the name that is being put together | the operators, the `str` library, fetch, exists, delete, n-th name; the buffers in which a name is compiled | the item store |
| Item store (`item.c`) | a tree; per item a hash table and an ordered array of its children | make, insert, find, delete, set, n-th name | the interpreter, the file system |
| Persistence and life cycle (`item.c`, `sin.c`, `libcall.c`) | the item file, `safe_shutdown`, the recovery point | load, save, back up, shut down, abort, recover after SIGUSR1 | everything |
| Compiler (`parser.y`, `lexer.l`) | the output buffer, loop and `if` records, fix-up lists, the table of locals | emit, open and close a control structure, finish | the interpreter (code items assembled at run time) |
| Tools and support (`scomp.c`, `sdiss.c`, `log.c`, `util.c`, `memory.c`, `error.c`) | none that the game depends on | | |

How the parts interact on one turn of the loop (`uv_run`): timers that are due
run `execute_task_cb`, which points `config.vm` at the task's VM and interprets
its item; the idle handle runs `input_processor`, which points it at the input
VM, interprets the input item and flushes the output of every connected line; the
poll phase accepts connections and reads sockets, which changes the line table
only; the closing phase calls `client_on_close` for sockets passed to `uv_close`
in this turn.  Game code reaches the tables through library calls, which run to
their end inside one opcode.

What makes each part correct, and what is hard about it:

* **Connection table.**  A socket has one line and a line one socket, although
  lines are found by comparing addresses that are never cleared; input reaches
  the game whole, once, in order, from the right line, as far as it is free of NULs;
  nobody is starved;
  nothing is used after it is freed.
* **Tasks.**  No two tasks have one id, no id is put on the stack that was never
  allocated, a task that was killed stays dead and is killed once.
* **Stack machine.**  A string has one owner; a frame gives back what it took;
  the fixed-size arrays are not overrun.
* **Interpreter.**  An item that is being executed is neither deleted nor
  replaced, also across recursion and recovery.
* **Item store.**  The hash table and the ordered array of an item always hold
  the same children, at every size.
* **Telnet engine and output.**  What the program at one end means reaches the
  program at the other, whatever the pieces in which bytes come and whatever is
  negotiated meanwhile; two ends agree about options and stop asking; a buffer
  lent to libuv is not changed under it.
* **Operators and names.**  An operator means the same in every order and form that is
  to mean the same, whatever types it meets; a name is the item it spells; a string
  is freed by the one who takes it off the stack.
* **Persistence.**  What is loaded is what was saved; an orderly end saves the game
  and an abort leaves the files alone, whatever is backed up, deleted or broken
  before.
* **Compiler.**  Jumps go where the control structure says, nesting is bounded,
  and no address into the output buffer is used after the buffer has moved.

The hazards, one by one and with their lines, are listed in `PROJECT.json`.

## 2. Plan

| Order | Modules | What | Proofs | State |
|---|---|---|---|---|
| 1 | `Lines` | connection table, `net.input`, `net.write`, the phases of the loop | `LinesProofs` | done |
| 2 | `Tasks` | tasks, their ids and timers, shutdown of tasks | `TasksProofs` | done |
| 3 | `Execution` | items that are executed while the tree is changed; restart after SIGUSR1 | `ExecutionProofs` | done |
| 4 | `Stack` | the value stack, frames, ownership of strings | `StackProofs` | done |
| 5 | `ChildList`, `Children` | what the children of an item promise; hash table and array that implement it | `ItemsProofs` | done |
| 6 | `ControlFlow`, `Compiler` | what a control structure promises; the compiler's records and buffer that implement it | `CompilerProofs` | done |
| 7 | `Persistence` | options, loading, boot, back-ups, the ways to end, saving over the only copy, a crash at every step | `PersistenceProofs` | done |
| 8 | `Telnet` | the telnet engine at both ends of a connection, the output buffer and the write in flight | `TelnetProofs` | done |
| 9 | `Operators`, `Expressions` | the operators on values; how expressions and names of items are compiled and evaluated | `ItemsProofs` (strings, and the operators for any width); the laws of whole sources by TLC | done |
| 10 | `LineService` | what a connection promises to game code (connected, data in order, disconnected), implemented by `Lines` | the refinement, in `LinesProofs` | done |
| 11 | `Engine` | `Tasks`, `Lines` and `Execution` composed over one turn of the loop | invariants of the parts carry over | not done |
| 12 | `Locals` | the compiler's table of locals (`parser.y:180`) | | not done |

The abstract specifications are `ChildList`, `ControlFlow` and `LineService`; each
is refined, checked as a property of a run and proved.  A module is checked by an `MC` module and
its configurations, and proved about in a `Proofs` module that extends it.

Two conventions run through all modules.

*Faults.*  Where the code uses memory it must not use, the step sets `fault` to
what happened and nothing follows: the process is dead, or in a state nobody can
say anything about.  `NoFault` and its kin say that this does not happen.

*Liberties.*  Some faults do happen when game code, a client or the C library
does something that the documentation allows, or does not exclude.  A module
names these liberties in one constant (`Rough` for what the world does,
`Careless` for what game code does).  With the empty set the module describes
ordinary play.  Each liberty has a configuration, or a row of one, that shows what goes
wrong when it is taken, and every theorem says which liberties it excludes, so that
nothing is hidden: the code is safe up to them, and not beyond.

A definition whose comment begins with *Mutant* is a plausible bug in the
definition below it.  `PROJECT.json` pairs each property with such a bug, which
TLC finds with the property.

## 3. The modules

### 3.1 `Lines`: the connection table

State: the fields of `line[]` (`status`, `line_handle`, `telnet`, `inbuf`,
`length`, `outbuf`), `config.lastconn`, the state of each `uv_tcp_t` by its
address (`socket`: unallocated, open, closing, closed), what the last `net.input`
told the game (`event`), and the phase of the loop.  An address may be handed out
again as soon as it is freed, as malloc does.  Freed lines keep their
`line_handle`, as in the code.  Four history variables, read by no guard,
remember which socket has which line, what it sent, whom the game believes to be
on a line and how long a line has waited.

Text is a sequence of which the newline and the NUL matter.  libtelnet lets a NUL
through, and `append_input` takes it for a character (`memchr`, `memcpy`), but
`get_input` reads the buffer as a C string (`strchr`, `strdup`, `strcpy`, `strlen`,
`network.c:138`-`149`): what lies behind a NUL is lost, and when the only newlines lie
there, `strchr` gives NULL and the process writes through it.  `NoFirstNewline`,
`FirstNewline`, `Upto` and `StatusAfter` follow these calls.  Chunks in the runs contain
NULs, in front of a newline and behind one.

| Action | Code |
|---|---|
| `Connect`, `ConnectFull`, `ConnectRefused` | `on_new_connection` with `add_line`, when a line is free, when none is, when `uv_accept` fails |
| `ClientRead`, `ClientNegotiates`, `ClientGone` | `client_read` with `telnet_event_handler` and `append_input`; an answer to a telnet option; end of file |
| `ClientOnClose`, `ClientOnCloseNull` | `client_on_close` when `find_line` finds a line, and when not |
| `InputConnect`, `InputDisconnect`, `InputData`, `InputNothing` | `lc_net_input`, with `get_input` and `destroy_line` |
| `NetWrite` | `lc_net_write` |
| `Flush`, `EndPoll`, `EndClosing` | the end of `input_processor`, and the other phases of `uv_run` |

Properties: `FindLineExact` (the search by address is never misled by a stale or
reused address), `InputIntact` (what a line holds is what its client sent and the game has
not got; of a client that sent a NUL, what was in front of it), `ServiceSpec` (below), `GameViewSafe` (a line is not given away before the game
knows), `FlushTargetsOpen`, `InputFits`, `NoFault` (the process dies of nothing but that
`strchr`, and only after some client sent a NUL), `FairQueue` (an active line is
passed over at most `MaxConns` times), and the liveness properties `Served` and
`Reclaimed`, both up to a fault.  `DataHasNewline` (`LINE_data` means a newline, which
`strchr` finds unless there is a NUL) and `DeliversOldestLine` are proved and not run.

`LineService` is what a connection is to game code, without addresses, buffers and
phases: a client arrives, sends and leaves; `net.input` tells that it connected, hands out
its oldest whole line, or tells that it has gone, and only then is the line free for
another; `net.write` reaches the client that is there.  Nothing is promised of what a
client types behind a NUL.  `ServiceSpec` says that `Lines`
implements it.  The abstract variables are read off the history variables: a client is *here* while
its socket is open and *gone* after, `unread` is what it sent and the game did not get, `known` is
what the game was told.  Closing callbacks, and the phases but the end of a turn, are stutters.

### 3.2 `Tasks`

State: `task_list` (newest first; of each task its id, the state of its timer,
the turns left and the repeat interval), `next_taskid`, and the phase of the loop.
Nothing calls `init_tasks` (`task.c:26`-`33`), so ids begin with 0 and the stack of retired
ids is a null pointer of capacity 0 (which doubling leaves 0): `retire_task_id` either counts
down (`RetireId`'s shortcut, for the id that was given last) or writes through null.  Time is counted in turns of the loop; a negative interval becomes,
as a `uint64_t`, a time that does not come.  `Schedule` is the pairs of intervals that
game code gives.

| Action | Code |
|---|---|
| `NewGameTask` | `lc_task_newgametask`, `make_task`, `new_task_id` |
| `KillTask` | `lc_task_killtask` of an id that is found (of another it changes nothing) |
| `FireTask`, `TaskReturns` | libuv's timer phase and `execute_task_cb` |
| `RunInput`, `InputReturns`, `EndTurn` | the rest of a turn, in which closing timers are closed |
| `Stop`, `Shutdown`, `FinaliseTask` | `uv_stop`, the walk that closes every handle, `finalise_tasks` |

`destroy_task_by_id` has no caller and is no action; tasks are freed by `finalise_tasks` only.

Properties: `ShutdownClean` (nothing is written through null: the list is freed newest
first, so each id is given back by counting down), `KilledStaysDead`, and the liveness
properties `TasksRun` and `ShutdownEnds`.  `IdsNumbered` (the listed tasks have the ids
below `next_taskid`, the newest the highest) is proved and not run.

### 3.3 `Execution`

State: `tree` (what each path leads to, with `inuse` and the block of bytecode it
owns), `heap` (the blocks that are allocated), `frames` (the nested calls of
`interpret`, each with the block its program counter points into), `blocked`
(SIGUSR1 stays blocked, since its handler leaves by `siglongjmp`), `error`.

| Action | Code |
|---|---|
| `Fetch`, `FetchFreed`, `FetchTooDeep` | `op_fetchitem` of a code item: it is entered; its bytecode was freed; the call stack is full and `raise` is called |
| `Return`, `BootReturns` | the halt opcode and what follows in `op_fetchitem` or the caller of `interpret` |
| `AssignValue` | assignment to an item (`insert_item`), which makes the layers above it |
| `AssignCode`, `AssignCodeInUse`, `AssignCodeFails` | `op_assigncodeitem`: the code compiles; the item is in use; it does not compile |
| `Delete` | `delete_item` with everything below it |
| `RunTask`, `RunInput`, `NoInput` | what the turn of the loop starts, and the end when there is no input item |

A value item that is called and a path that leads nowhere change nothing here.
The restart at the recovery point is part of `FetchTooDeep`.

Properties: `RunningCodeIsLive` (the block of every active call is allocated and
still the item's), `InUseExact` (the `inuse` flag, a single bit set on entry and
cleared on exit, says exactly what is executed; its halves are `RunningIsInUse` and
`InUseIsRunning`),
`CodeOwned`, `LayersAbove`.

### 3.4 `Stack`

State: the array of slots, `current`, `base`, `locals`, the call stack, and the
strings that are allocated and the stack's to free, and those that were `forgotten`.
The actions are the opcodes
that move values (push, consume, forget, store and load a local, call, return) and
the ways an item is started and ended by a task and by the input processor.
`Forget` is an operator that pops a string and frees nothing: the comparisons
(`interpret.c:303`-`456`), `op_jumpfalse` when it jumps (`interpret.c:101`-`107`) and
arithmetic of an integer and a string.
`IndexRange` stands for the 8 bits in which `base + index` is computed.

Properties: `FrameIsOwn` (an item changes nothing of its callers), `StringsOwned` (a string
on the stack is allocated and there once, and no other string is left but those that
operators forgot, which are never met again) and `NoFault` (nothing is freed twice),
`CallGivesOne`.  `FramesStack` (frames lie upon
each other) is proved, and checked in `Stack_rough.cfg`.

### 3.5 `ChildList` and `Children`

`ChildList` is what `item.h` promises: children have different names and are
numbered in the order they were made.  `Children` (`MakeItem` is `make_item` with
`insert_hashtable`, `resize_hashtable` and `resize_ordered_array`; `DeleteItem` is
`delete_item` with `delete_hashtable`) is how `item.c` keeps them: a
table of chains that is rehashed, and an array that is searched by address,
whose capacity is an 8-bit number (`Limit`).  `ListSpec` says that `Children`
implements `ChildList` with `list <- array`; `SameChildren` ties the two structures to
each other; `NoOverrun` says that the array is long enough.

### 3.6 `ControlFlow` and `Compiler`

`ControlFlow` is what a `while` and an `if` mean in bytecode: each structure keeps
the jumps that wait for it and sends them where the code behind begins.
`Compiler` is how `parser.y` does it: records in two arrays indexed by
`control_count`, which all structures of one depth share; addresses into a buffer
that `realloc` may move; offsets of 16 bits.  An address is a position and how often the
buffer had moved, so that one used after a move is seen.  The actions are the
grammar's actions, one for each place in a structure where code is emitted.
`FlowSpec` says that `Compiler` implements `ControlFlow`, under a mapping that reads
what waits from the records; `JumpsLand` and `NoFault` say that jumps lead to
instructions and that nothing is written through a wrong address.  `AllFixed` (no
jump is left with a placeholder) is proved.

### 3.7 `Persistence`: the life of the engine

State: the phase of `main` (off, options, reading, boot, running, backup, down,
saving), the tree in memory, `config` (`itemstore`, `input`, `bootonly`,
`safe_shutdown`, and whether `uv_stop` was called), the files that exist and the
records in them, and the place of the recursive writer and reader.  A file that is opened for
writing is empty from then on; what `fwrite` was given is on disk when the file is
closed, unless the disk is full, and some part from the beginning then and when the process
dies before.  The results of `fwrite` and `fclose` are ignored (`item.c:639`-`685`), so an
engine that saved to a full disk goes on, or ends, as if it had saved.  The engine
starts again after every end, so the histories go through several lives.

| Action | Code |
|---|---|
| `Start`, `GiveStore`, `GiveInput`, `GiveBootOnly`, `Refuse` | the options of `main` in their order; `-i` loads a file at once |
| `Boot` | the end of the options: the item file is loaded unless one was |
| `ReadItem`, `ReadReturn`, `ReadPastEnd` | `read_item`: a record, the return from its children, and the end of the file before the last child |
| `Assign`, `AssignCode`, `Delete`, `NoRoot` | what game code does to the tree |
| `Shutdown`, `Abort`, `EndBoot`, `NoInput`, `EndLoop` | `sys.shutdown`, `sys.abort`, the end of the boot item, a turn without an input item, the end of the loop |
| `Backup`, `Save`, `CannotWrite`, `WriteItem`, `Close`, `CloseShort`, `Discard` | `sys.backup`; `save_itemstore` with `write_item`; the file is closed, with all that was written or on a full disk with a part of it; the tree is destroyed without |
| `Crash` | the process is killed, at any step |

Properties: `LoadsWhatWasSaved` (every record finds its parent again from the
numbers of children alone, and only a file that was cut short ends too early),
`ShutdownSaves` (an orderly end leaves the whole game in the item file, if the disk had room
for it), `AbortKeepsFiles`
(an abort or a refused start leaves every item file as it was).  Beside the runs
are `StopEnds`, `NamedIsUsed`, `BackupsStay` and `EndIsSaved`.

### 3.8 `Telnet`: the engines and the output buffer

State: of each end its engine (place in the protocol, where options stand for
either side after RFC 1143, the subnegotiation buffer and its size, the run of data that is
being read), the bytes on their way, the output buffer of the line with the write that
libuv has not finished, and what each program said.  The other end is an engine made
with the same library, which agrees to all options.

| Action | Code |
|---|---|
| `Receive` | one byte of a piece in `telnet_recv`; the last one ends the piece.  `Process` is `_process`, `Negotiate` `_negotiate` and its answers |
| `Write` | `net.write`: `telnet_printf` into the output buffer |
| `Flush`, `Drain` | `flush_output` with `uv_write`; libuv writes the rest when the socket takes it |
| `Type`, `Ask`, `Command`, `Subnegotiation`, `Abandon` | the client: `telnet_send_text`, `telnet_negotiate`, `telnet_iac`, `telnet_begin_sb` with `telnet_send`, and one that is broken off |
| `Compress` | the client: the beginning of MCCP in its first form, `IAC SB COMPRESS WILL SE` |

Compression itself is not compiled (`HAVE_ZLIB` is not defined), but the case of `_process` that
looks for its beginning is (`libtelnet.c:1085`-`1093`).  It takes `WILL` inside a
subnegotiation of COMPRESS for the end of it and lets the run of data start behind the byte
that is to come, the SE: the engine is `AHEAD`.  Where that byte has not come with the piece, or
is none to be passed over (an IAC), the run ends before its start, its size is -1 as an unsigned
number, and what lies behind the piece is handed on; nothing can be said of the engine any
more (`ASTRAY`).

Liberties: `slow` (a socket takes a part of what is written, the rest before sin sends more),
`choked` (or nothing, for as long as it likes), `long` (a subnegotiation longer than the largest buffer),
`compress` (a client begins MCCP), `cut` (a piece ends between its WILL and its SE).

Properties: `TextArrives` (what the programs mean arrives whole and in order however the bytes are
cut and whatever comes between), `Agree` (when all is read the ends stand alike with every
option and nobody waits), `NeverCrossed`, `SinNeverWaits`, `BufferFits`, and the
liveness property `Settles`.

### 3.9 `Operators` and `Expressions`

`Operators` defines each operator as the values and the number of strings it
leaves, type by type as the branches in `interpret.c` do.  Numbers have `Width` bits, and where
an operator takes the address of a string for a number the result is a set.
A nil has bits too: `pop_stack` (`stack.c:70`) resets the type and leaves what was in the slot,
and `op_add` (`interpret.c:184`) adds it.  `NilOf` is a nil with the bits of a value that was
there, `Left` the bits a run takes for it, `Nil` a nil with zero bits.
`Expressions` compiles a source into the buffers of items (`prepare_item`,
`emit_itemcode`, `finish_item`), puts names together (`op_assembleitem` with its helper), and
evaluates.

A local that was never assigned is no nil: no slot is cleared when a frame is made
(`interpret.c:1075`), so it is whatever its slot held, 0 in new memory, a nil with bits
or a value that was left behind.  Init chooses among them.

A *law* is two sources that are to leave the same value on the same locals.  Init chooses
one law and values for its locals; the left source is compiled and run,
then the right one, and `LawsHold` compares.  The laws are of arithmetic,
comparison and logic, of the `str` library, of names that are fetched, looked for,
deleted and numbered, and of arguments that are evaluated while the name they belong to waits.
Reference definitions (what a name spells, what lies below it) say what the right
side is where it is a value.  Items in brackets are checked from bytecode as `opcodes.txt:56`
describes it, since the compiler never produces it.

An opcode that finds too little on the stack ends in the fault `underflow`, as
`pop_stack` does with its signal; an item that leaves nothing gives nil.

`HeldIsThere` says that a string on the stack was not freed, `NoFault` that nothing
is read or written outside of buffers, records and names, in any lookup of a name
(`find_item` copies each layer, `item.c:493`-`497`).  Each case of a law that
does not hold is a liberty.  Three liberties are what is said of the language and is not
so: `sums` and `filled` are sentences of `Concepts.md` (47: what is added to nil is nil; 72: a
string is true if it is empty), `stale` is a local
that is taken for 0 before it is assigned.

## 4. The runs

`PROJECT.json` lists the runs; each answers one question.

| Run | Instance | Distinct states | What it shows |
|---|---|---|---|
| `lines` | 2 lines, 3 addresses, chunks with part of a line, one end, two ends, an end with a beginning, and a NUL; 3 characters unread; one `net.input` a turn | 557905 | ordinary play: the safety properties of `Lines`, and that it implements `LineService` |
| `lines_live` | 2 lines, 3 addresses, whole lines, two `net.input` a turn, all three liberties | 124440 | `Served` and `Reclaimed` under the fairness of the loop, and `FairQueue`, in every environment |
| `tasks` | 3 tasks, 5 pairs of intervals among -1, 0 and 1 | 106693 | killed tasks, due tasks run, shutdown is clean and ends |
| `execution` | 4 items, one below another, 5 blocks, 3 nested calls | 1593 | ordinary play: what is executed is there, marked and owned |
| `execution_rough` | 3 items, 6 blocks, every liberty | 37370 | layers above an item are never missing |
| `execution_ancestor` | 2 items, one below the input item, liberty `ancestor` |  | **violated**: deleting a layer frees code that is executed below it |
| `stack` | 6 slots, 3 strings, 2 nested calls, 2 locals, 2 arguments | 588328 | ordinary play: frames and strings |
| `children` | 6 names whose hashes collide in tables of 2, 5 and 11 buckets | 2121 | table and array implement `ChildList` through two resizes |
| `compiler` | 24 bytes of code in a buffer of 8 that grows, three structures deep | 178156 | jumps and records implement `ControlFlow` |
| `persistence` | trees of three layers, one item file and its back-up, every liberty | 1078269 | what is loaded was saved, and the ways to end |
| `telnet` | both ends, one option, texts with every byte that matters, three moves, a slow socket, MCCP begun and not cut | 524326 | texts arrive, options agree, negotiation ends |
| `expressions` | 4-bit numbers, nils with the bits 0 and 3, 6 strings, 8 items | 346117 | sources that are to mean the same do |

The violation is real, and listed as a finding: `delete_item` (`src/src/item.c:548`)
tests `inuse` of the item it was given and then destroys all its children
without looking.  Code that deletes a layer above the item it is part of goes on in
freed bytecode.

### Further configurations

These are kept beside the runs.  Each takes a liberty, or a size, that the runs
leave out, and TLC finds the property it names violated.  They are the reasons
for the liberties and for the assumptions of the theorems.  The head of a
`_beside.cfg` lists the rows, and the file itself is its first one.

| Configuration | With | Violated | Why |
|---|---|---|---|
| `Lines_beside` | `writes` | `WritesAreSafe` | `net.write` to a line that has no connection hands the library a telnet that was freed or never made |
| | | `DataIsReadable` | a client that sends a NUL and then a newline makes the line `LINE_data`, and `get_input` finds no newline (`network.c:138`) |
| | `full` | `FullTableRefused` | the NULL that `add_line` returns for a full table is used |
| | `refused` | `FindLineExact` | the close callback of a socket whose `uv_accept` failed finds the line of an earlier one at its address |
| | | `ConnectionReported` | data that arrives before the first `net.input` replaces `LINE_connecting` by `LINE_data` (`network.c:118`), and the connection is not reported; `Concepts.md:98` says it is |
| | | `ZeroMeansQuiet` | the scan ends at the end of the table (`libcall.c:201`), so 0 does not mean that nothing happened |
| | `MaxIn = 5` | `InputFits` | what `get_input` leaves may be longer than the `INBUF_LENGTH` it records (`network.c:146`) |
| `Tasks_beside` | `kill_again` | `KillTwiceIsSilent` | a second `task.killtask` closes the timer again |
| | | `NoTaskForZeroes` | a task with both intervals 0 is made |
| `Execution_beside` | `recursion` | `RunningIsInUse` | the inner of two calls of one item clears `inuse` |
| | `overwrite` | `CodeOwned` | a value assigned over a code item frees the bytecode and changes nothing else |
| | `deep` | `InUseIsRunning` | the restart keeps the marks of calls that are gone |
| | `deep`, `recursion` | `RestartIsSafe` | the restart uses the boot item after it was destroyed (`sin.c:295`) |
| `Stack_beside` | `string_local` | `NoFault` | `op_savelocal` (`interpret.c:123`) copies the top value into the local's slot and lowers `current`: the slot above keeps a second pointer to the string, and `reset_stack` (`stack.c:34`) frees `current + locals` slots, one more than there are with two locals |
| | `leftover` | `NothingLost` | values left on the stack of an item are not all freed |
| | `no_value` | `CallGivesOne` | an item without a value takes one of its caller's |
| | `params` | `FramesStack` | a task's item with parameters starts with a frame below the stack |
| | `deep`, `IndexRange = 3` | `FrameIsOwn` | `base + index` wraps at 8 bits |
| `Children_wrap` | `Capacity = 2`, `Limit = 5` | `NoOverrun` | the capacity of the ordered array wraps at 8 bits |
| `Compiler_beside` | `move` | `NoFault` | an address kept for a fix-up is used after `realloc` moved the buffer |
| | `deep` | `NoFault` | the 33rd nested structure uses a record behind the array |
| | `text` | `NoFault` | a string literal is copied behind the end of the buffer |
| `Persistence_beside` | `unreadable` | `NamedIsUsed` | a file named by `-i` that cannot be opened leaves `itemroot` NULL, and the default file is loaded and saved in its place (`sin.c:261`) |
| | `crash` | `BackupsStay` | back-ups are named by the second: one that is made in the same second replaces one that was finished |
| | `full` | `EndIsSaved` | a shutdown on a full disk ends in order with the only copy cut short, and nobody is told (`item.c:685`) |
| `Telnet_beside` | `slow`, `choked` | `TextArrives` | the output buffer is filled again while libuv still holds its address |
| | `long` | `TextArrives` | a subnegotiation longer than the largest buffer is dropped in its middle, and its rest read as data (`libtelnet.c:929`) |
| | `slow`, `compress`, `cut` | `TextArrives` | a piece that ends with the WILL of MCCP's beginning leaves a size below zero, and what lies behind the piece is handed on (`libtelnet.c:1092`) |
| `Expressions_beside` | `nils` | `LawsHold` | nil == nil and nil != nil are both false (`interpret.c:332`) |
| | `empty` | `LawsHold` | an empty string is true for `and` and `or` (`value.c:29`) and false for a jump |
| | `mixed` | `LawsHold` | `op_subtract`, `op_multiply` and `op_divide` look at the type of one operand twice (`interpret.c:212`) |
| | `other` | `LawsHold` | `str.upper` and its kin give nil for a number; `Concepts.md:105` says the value is unchanged |
| | `no_layer` | `LawsHold` | an empty string in brackets leaves two dots, or one at an end: at the end of a name `find_item` does not look for it (`a.[x]` is `a`, and `[x]` the root), in the middle it finds nothing |
| | `wide` | `LawsHold` | a number in brackets is written with 32 bits |
| | `brackets` | `LawsHold` | an item in brackets is begun by `prepare_item` and never finished: what it was is lost (`parser.y:669`; `opcodes.txt:56` says items may be nested) |
| | `args` | `LawsHold` | arguments given to an item that holds a value stay on the stack |
| | `stale` | `LawsHold` | a local that was never assigned adds the bits its slot held (`interpret.c:184`, `interpret.c:1075`) |
| | `sums` | `LawsHold` | nil plus a number is a number; `Concepts.md:47` says it is nil |
| | `filled` | `LawsHold` | a string is true for a jump unless it is empty (`interpret.c:95`); `Concepts.md:72` says that of strings the empty ones are true |
| | `smallest` | `NoFault` | the smallest number divided by -1 |
| | `midway` | `NoFault` | a layer that is none ends the helper inside the name, whose rest is executed as opcodes (`interpret.c:778`) |
| | `no_name` | `NoFault` | nil is looked up as a name |
| | `no_layer` | `NoFault` | an empty name is the root, which is deleted |
| | `LongLayers` | `NoFault` | a layer longer than 32 letters is copied to a buffer of 33 (`item.c:496`) |
| | `MaxNested = 1` | `NoFault` | the 33rd nested item uses a record behind the array (`parser.y:363`) |
| | | `NothingLost` | comparisons and jumps free no strings |

And these pass: `Tasks_live` (2 tasks, no liberty: `ShutdownClean` with the liveness
properties), `Stack_rough` (`TypeOK`, `FramesStack` and `FrameIsOwn` also hold when
game code takes every liberty but depth and parameters of tasks), `Persistence_ends`
(`StopEnds`: a game that is told to stop comes to its end) and `Telnet_options` (two
options, five moves, no texts).

## 5. Bounds, symmetry, deadlock

Each bound is a constant, named where it is declared.

* *Tables.*  Two lines and three addresses are the least with which a freed line
  holds an address that is given to another line, a line is passed over, and the
  table is full.  With three tasks one is killed by itself, by one that is due before it
  and by one that is due after it in the same turn, and `finalise_tasks` frees a list
  with a beginning, a middle and an end.
* *Sizes of the code.*  `InbufLength`, `StackSize`, `IndexRange`, `InitSize`,
  `MaxNested`, `Capacity`, `Limit`, `Sizes`, `Width`, `Narrow`,
  `NameSize` and `MaxLayer` stand for the code's constants at a scale where
  the limit is reached: the input buffer grows at the second character, the output
  buffer at the ninth byte, the table at the second child, the subnegotiation
  buffer at the first and second byte; sums, products and negation overflow.  `Left`, the bits
  a nil may have besides 0, is one number that is neither 0 nor the smallest.  The theorems hold for
  the code's own sizes.
* *Histories.*  `MaxIn` bounds what a client has unread, `MaxPolls` the calls of
  `net.input` in a turn, `MaxCalls` the nesting, `MaxLength` the code compiled,
  `MaxMoves` what the two ends of a connection say, `MaxSecond` the seconds in which
  back-ups are made, `runs` counts to 2, and `wait` stops where it refutes `FairQueue`.
* *Symmetry* is used for addresses, blocks and strings, which the code compares
  and never orders, and never where a liveness property is checked.
* *Deadlock* is not checked, since each system may really stop: after a fault (`lines`, where a
  NUL may kill the process, `lines_live`, `persistence`,
  and every configuration that takes a liberty), when the engine has ended (`Tasks`,
  `Execution`), when source text is compiled (`Compiler`) or a law has been run
  (`Expressions`), when all is said and read (`Telnet`).  `Stack` and `Children` stop
  when the small sets of strings and names are used up; they describe data
  structures that are called, not systems that run by themselves.  That the loop goes on
  where it should is what the liveness properties say.

## 6. Fairness

`lines_live`, `tasks` and `telnet` check liveness, and `Persistence_ends` beside them,
under weak fairness of the steps libuv makes by itself.  `uv_run` is one thread and always gets to its next
phase: a poll returns (its callbacks are finite), every socket passed to
`uv_close` has its callback called in the closing phase, due timers are fired and
closed ones completed in every turn.  Game code is assumed to return, and the
input item to call `net.input` once on every turn, as `Concepts.md:85` says it
should; without either the engine hangs, and no property of it could hold.
Clients and game code are under no fairness: nobody has to send, connect, leave, write,
make a task or stop the game.

`Served` needs that a scan wraps only after it has reached the end of the table:
a client that sends for ever cannot keep another from being reported.  `Reclaimed`
is about game code that calls `net.input`, since lines are freed nowhere else.  Both say
*or a fault*: with the liberties the process may be dead.

`Settles` needs that each end reads what has come and that sin's socket takes what it was
given; the two programs need not say anything.  `StopEnds` takes strong fairness of the end of the
boot item and of the loop, which backups interrupt again and again, and weak
fairness of what `main` does by itself.

## 7. What is proved

All theorems are proved for every value of the constants that satisfies the
named assumptions of the modules.

| Module | Theorems | Assuming besides |
|---|---|---|
| `LinesProofs` | `TypeCorrect`, `QueueIsFair`, `DataMeansNewline` | nothing |
| | `FindLineIsExact`, `GameViewIsSafe`, `FlushIsSafe`, `InputStaysIntact`, `OldestLineIsDelivered`, `LinesImplementLineService` | `Orderly`: clients come while a line is free, and `uv_accept` succeeds |
| | `PlayIsFaultFree` | `Rough = {}` |
| | `InputAlwaysFits` | `MaxIn <= InbufLength`: no client has more unread than one unit of the buffer |
| `TasksProofs` | `TypeCorrect`, `IdsUnique`, `DeadStaysDead`, `ShutdownIsClean` | nothing |
| `ExecutionProofs` | `TypeCorrect`, `TreeIsClosed` | nothing |
| | `PlayIsSafe`, `BlocksAreOwned`, `MarksAreExact` | `Ordinary`: none of `recursion`, `ancestor`, `overwrite`, `deep` |
| `StackProofs` | `TypeCorrect`, `FramesNest`, `CallersAreKept` | `Shallow`: neither `deep` nor `params` |
| | `StringsAreOwned`, `PlayHasNoFault`, `CallsGiveOne` | `Ordinary`: no liberty |
| `ItemsProofs` | `TypeCorrect`, `ChildrenAreSame`, `ChildrenAreAList` | nothing |
| | `ArrayIsNotOverrun` | `Few`: the children of an item fit in 8 bits, with one growth to spare |
| | `StringsAreHeld` | nothing: with every liberty of `Expressions` |
| | `OperatorsObeyLaws` | nothing; for the law of `+` on texts, that texts are sequences |
| `CompilerProofs` | `TypeCorrect` | nothing |
| | `NothingIsCorrupted`, `JumpsLeadToCode`, `NoJumpIsLeft`, `CompilerImplementsControlFlow` | `Ordinary`: no liberty, and code shorter than 2^15 bytes |
| `PersistenceProofs` | `TypeCorrect`, `AbortKeepsFilesHolds`, `ShutdownSavesHolds`, `LoadsWhatWasSavedHolds` | nothing |
| `TelnetProofs` | `SinStaysPassive`, `BuffersFit` | nothing |
| | `TextArrivesHolds`, `AgreeHolds`, `NeverCrossedHolds` | `Rough \subseteq {"slow"}`: no socket is choked, no subnegotiation longer than the largest buffer, and no client begins MCCP |

The further configurations of section 4 show why these assumptions are made.  That of
`InputAlwaysFits` is sharp: `get_input` copies what is left to a buffer of
`INBUF_LENGTH`, so a client with one character more unread, of which it takes an
empty line, leaves no room for the NUL.

The arguments:

* **Lines.**  `QueueIsFair` rests on `FairInv`: what a line has waited and its
  distance ahead of `lastconn` (`Ahead`) add up to at most `MaxConns`.  The rest
  rests on `TableInv`.  An address may be in several lines, all but one of them
  free, and `find_line` takes the first.  `OccupiedInv` says that an occupied line
  and its socket point at each other, `SocketInv` that no line below holds the same
  address: it was the first empty line when it was taken, and what is below changes
  only to addresses that malloc gave out later.  `FitInv` bounds besides what the
  input buffer holds by what a client may have unread, because the allocation
  shrinks when a line is taken out.  `ClosedInv` and `KnownInv` tie the
  phase of the loop and what the game knows to the state of sockets and lines.  For the
  refinement these invariants give `View`, which says the abstract variables of the
  table's own fields; `UntoldInv` adds that a line that is connecting was not
  reported before, and `DataHasNewline` that one with data has a line to hand out or a NUL in
  its buffer.  `Keeps` is what a buffer and what the client sent have in common with NULs:
  all, or all in front of the first.  Each action then
  maps to the action of `LineService` its lemma names, or to a stutter.
* **Tasks.**  `IdsNumbered` is what everything rests on: the listed tasks have the ids from 0 up to
  `next_taskid`, each one id below the one that was made after it.  So the task that
  `finalise_tasks` frees is always the one with the highest id, `retire_task_id` counts down
  and `id_stack` is not touched.  `DeadStaysDead` follows a task by its id, which no other task
  has or is given while it is listed, down to the last free at shutdown.
* **Execution.**  `Safe` adds to the properties that an item is in the list of calls
  once (`Distinct`) and the boot item only at its start (`BootFirst`).  The
  properties need each other: a block is not freed because its item is marked, and
  the mark is right because the item is called once.
* **Stack.**  `FInv` (frames lie upon each other and end below `IndexRange`) carries
  the first three theorems.  `OInv` adds that every string has one slot, that slots
  above the top hold none, that locals of all frames hold none (which is
  what the liberty `string_local` breaks), and that a forgotten string is in no slot, so that
  neither a frame that ends nor a push meets it again.
* **Children.**  `SameChildren` with `TypeOK` is inductive; the lemmas about rehashing say
  that the entries stay and each is where the new size puts it.
* **Expressions.**  What is compiled comes first.  A source is read with the number of item
  buffers that are open before each of its tokens (`Leads`); each family of laws is shown to be readable
  in this way, whatever the items, layers and arguments (`LawsGood`), and a source and what it
  compiles to stay so (`ReadInv`): buffers are open when something is written to them, and the bytecode has
  only opcodes with the operands they read.  Then
  strings are counted.  `HeldInv` says that the strings in memory are at least as many as those on
  the stack, and each opcode, with any operands on the stack, takes from the one as many as from the other
  or fewer.  Sequences are concatenated and flattened throughout, for which the
  least counterexample stands in for induction.
* **Operators.**  `Wrap` is the one word congruent to a number modulo `2 ^ Width` (`WrapIs`,
  `WordUnique`), so the laws are those of integers, cut off where one likes.
  Of the powers of two the proofs know only `PowerAssumption`, which TLC evaluates on each run and which holds
  of every width.  Quotients are cut off towards zero, so changing the sign of an operand
  changes that of the quotient; the smallest number has no opposite and is excluded.
  A nil is taken with any bits: where a law needs them to be 0 it says so.
* **Compiler.**  `TInv` is the type invariant as the prover needs it, variable by
  variable.  `FInv` adds five parts: nothing has gone wrong or moved (`PlainOK`), the
  record of each open structure holds what the part that is being read needs
  (`OpenOK`), jumps and instructions are within the code (`PlacesOK`), a jump that is
  fixed up leads to an instruction (`LandOK`), and one that is not waits in the record
  of an open structure (`WaitOK`).  The last gives `AllFixed` when no structure is
  open.  The refinement goes action by action to the action of `ControlFlow` with
  the same name.
* **Persistence.**  `TypeOK` says that what is in memory is a tree at every step; `TreeInv` adds
  in which phases there is a tree, a reader and a writer, so that a record that is read or
  a path that is assigned finds its parent and a deletion takes what is below with it.  `FilesInv` says that before the first save of
  a life, whatever was backed up, every item file is what it was at the start.
  `SavedInv` holds the writer to a walk: there is an order of the tree
  (`Walk`) of which the records handed out are the beginning and what is to do the
  rest, and a file that was closed and not cut short (`Finished`) holds its tree (`HoldsTree`).  `ReadInv` is the reader
  half-way: for some order of what was saved, what is in memory is its beginning, the
  open items are one below another, each lacks as many children as its counter says, and
  all others are complete.  Where an argument calls for an induction over the depth of a tree or the
  length of a file, it takes the least number with a property.
* **Telnet.**  `IInv` says of each engine that its fields are what they may be and its
  buffer is within its size (`EngineOK`), and of sin's engine that it never asked for an option (`Passive`);
  the lemmas go state by state through `Process`.  The other three theorems rest on
  `ConnectionInv`.  What an end has still to learn from its peer is one stream: the rest of
  the piece at hand, what libuv holds, what is in the output buffer and what is on the way.
  `Parsed` labels its bytes from the place in the protocol that the engine shows (`Matches`)
  to the end, and what the labels say is all that the peer said and this end has not read:
  characters and verbs in order.  The verbs then follow RFC 1143: of each option at most
  one is under way in one direction, and where it is both ends stand as it calls for
  (`NegOK`).  `OutOK` says that `Flush` and `Drain` keep the stream, `EndOK` that no run is
  left open between two pieces.  The two halves need each other: a byte is data
  because BINARY is off, and it stays off because no verb for it is ever under way.
  The labels are found byte by byte: what `_process` does with a byte
  is a step along them (`Go`), so no induction over a piece is needed.  MCCP's beginning is outside
  of these theorems, since an engine that is `AHEAD` has no labels; the run `telnet` has it,
  and for a piece that is cut in it the theorem would be false.

Only model-checked are:

* the liveness properties (`Served`, `Reclaimed`, `TasksRun`, `ShutdownEnds`,
  `Settles`), which are beyond the prover;
* `LawsHold` and `NoFault` of `Expressions`.  They say of a table of laws how each run
  of compiled source ends, and are false of bytecode in general, so a proof would run
  every law symbolically.  That the operators obey the laws themselves is proved;
  that compiling and evaluating a source applies them as written is checked;
* `Telnet.TypeOK`, of which the theorems state and use the parts they need.

What a recursive function computes for every input is an induction over data,
which the prover cannot be told in general.  Where a theorem needs such a fact it is proved from
the least counterexample, or the function is stepped along with the action.

## 8. What is not modelled, and why

* Parts of libtelnet that sin never turns on: compression (`HAVE_ZLIB` is not defined; what is
  compiled of it without, the beginning of MCCP, is modelled), proxies, and the readers of ENVIRON, TTYPE, MSSP and ZMP subnegotiations, which
  are handed on here as bytes.
* The compiler's table of locals.  Reading it showed a hazard that is
  listed without a property: with 256 locals the 8-bit index never reaches the
  count (`parser.y:189`).
* A database without a root item ends in `sin.c:348`; what `fread` leaves in a
  record when the file ends early is a fault in `Persistence`, and nothing follows.
* The stack of retired task ids and `destroy_task_by_id`: `init_tasks` is never called, and
  nothing destroys one task.  The shortcut and the write through null are there.
* Strings lost by `input_processor` on every turn (`network.c:271`), and opcodes
  that are given other types than the compiler sees to; `Stack` knows the former as
  values that are lost, and `PROJECT.json` lists them.
* The scanner and the parser's tables (generated), the stand-alone compiler and
  disassembler, logging and messages: they keep no state the game depends on.

The contents of messages and values, and real time, are abstracted: text is a
sequence in which only the bytes with a meaning matter, and time is turns of the loop.
