----------------------------- MODULE Persistence -----------------------------
(***************************************************************************)
(* The life of the engine and of its item file (src/sin.c, src/item.c and  *)
(* the sys library of src/libcall.c): options, loading, the boot item, the *)
(* game, back-ups, and the ways to end.                                    *)
(*                                                                         *)
(* A file is written and read one item after the other, parents first,     *)
(* with the number of children in each record and nothing else that tells  *)
(* where an item belongs.  Opening it for writing empties the only copy,   *)
(* and what is written is on disk when the file is closed: if the process  *)
(* dies before, or the disk is full, some part from the beginning is.      *)
(***************************************************************************)
EXTENDS Naturals, Sequences, FiniteSets

CONSTANTS
  Layer,        \* names of layers
  Path,         \* the items there may be, as sequences of layers
  Value, Code,  \* what they hold
  Default,      \* what an item holds that was only needed for one below it
  Store,        \* names of item files
  DefaultStore, \* items.dat
  DefaultInput, \* the item "input"
  MaxSecond,    \* bound: the seconds in which back-ups are made
  Rough         \* what else happens, see below

(* "crash":      the process is killed, or the machine stops               *)
(* "unreadable": an item file exists and cannot be opened                  *)
(* "unwritable": a file cannot be opened for writing                       *)
(* "full":       the disk is full while a file is written                  *)
(* "overwrite":  a value is assigned over a code item                      *)
Liberty == {"crash", "unreadable", "unwritable", "full", "overwrite"}

Parent(p) == SubSeq(p, 1, Len(p) - 1)

ASSUME PathAssumption ==
  /\ \A p \in Path : p \in Seq(Layer) /\ p # <<>>
  /\ \A p \in Path : Len(p) > 1 => Parent(p) \in Path
ASSUME ValueAssumption == Default \in Value
ASSUME StoreAssumption ==
  DefaultStore \in Store /\ DefaultInput \in Path /\ "none" \notin Store
ASSUME SecondAssumption == MaxSecond \in Nat /\ Rough \subseteq Liberty

\* The root of the tree is the path without layers; its own name is root.
Name == Layer \cup {"root"}

\* The file of a store is numbered 0, its back-ups by the second they are of,
\* in local time, which may come back.
\* No code reads a back-up: of back-ups only which there are, and which of
\* them are whole, is kept here.
File == Store \X (0 .. MaxSecond)

NoFile == <<"none", 0>>

Item == [type : {"value"}, holds : Value] \cup [type : {"code"}, holds : Code]

\* itemroot is NULL; otherwise a tree has a root.
NoTree == [p \in {} |-> p]

Record == [name : Name, item : Item, children : Nat]

VARIABLES
  phase,        \* what main is doing
  back,         \* what it does when a file has been read or backed up
  mem,          \* the tree at itemroot: what each node is
  itemstore,    \* the file it is saved to, or "none"
  input,        \* config.input
  bootonly,
  safe_shutdown,
  stopping,     \* uv_stop was called
  disk,         \* the records of the item file of each store
  exists,       \* the files that exist
  todo,         \* write_item: the items still to be written
  out,          \* the records handed to fwrite so far
  target,       \* and the file
  pos,          \* read_item: the records read so far
  open,         \* and its nested calls: where, and how many children to come
  fault,        \* "none", or what was read that is not there
  \* History, read by no guard:
  named,        \* the store the engine was told to use
  kept,         \* the tree in each item file that was closed
  torn,         \* the files that were opened for writing and not closed whole
  found,        \* the item files as they were when the engine was started
  game,         \* the tree when the game ended
  ended         \* how

config == <<itemstore, input, bootonly, safe_shutdown, stopping>>
files == <<disk, exists, kept, torn>>
writer == <<todo, out, target>>
reader == <<pos, open>>
last == <<named, found, game, ended>>
vars == <<phase, back, mem, config, files, writer, reader, fault, last>>

Stores == [s \in Store |-> <<<<s, 0>> \in exists, disk[s]>>]

Init ==
  /\ phase = "off" /\ back = "off"
  /\ mem = NoTree
  /\ itemstore = "none" /\ input = DefaultInput
  /\ bootonly = FALSE /\ safe_shutdown = TRUE /\ stopping = FALSE
  /\ disk = [s \in Store |-> <<>>] /\ exists = {}
  /\ kept = [s \in Store |-> NoTree] /\ torn = {}
  /\ todo = <<>> /\ out = <<>> /\ target = NoFile
  /\ pos = 0 /\ open = <<>>
  /\ fault = "none"
  /\ named = DefaultStore /\ found = Stores /\ game = NoTree /\ ended = "no"

Rooted(t) == <<>> \in DOMAIN t

\* make_root_item: what the root holds is never looked at.
RootOnly(i) == [p \in {<<>>} |-> i]

Placed(t, p, i) == [q \in DOMAIN t \cup {p} |-> IF q = p THEN i ELSE t[q]]

Above(p) == {SubSeq(p, 1, n) : n \in 1 .. Len(p)}

\* The item of a name is made with those it lies below.
Created(t, p, i) ==
  [q \in DOMAIN t \cup Above(p) |->
     IF q = p THEN i
     ELSE IF q \in DOMAIN t THEN t[q] ELSE [type |-> "value", holds |-> Default]]

\* q is p or lies below it.
Under(q, p) == Len(p) <= Len(q) /\ SubSeq(q, 1, Len(p)) = p

Children(t, p) == {q \in DOMAIN t : q # <<>> /\ Parent(q) = p}

\* The orders in which a hash table may hand out its entries.
Orders(S) ==
  {s \in [1 .. Cardinality(S) -> S] :
     \A i, j \in 1 .. Cardinality(S) : s[i] = s[j] => i = j}

Gone(how) == phase' = "off" /\ mem' = NoTree /\ ended' = how

-----------------------------------------------------------------------------
(* Starting: the options are processed in the order they are given.        *)

Start ==
  /\ fault = "none" /\ phase = "off"
  /\ phase' = "options"
  /\ itemstore' = "none" /\ input' = DefaultInput
  /\ bootonly' = FALSE /\ safe_shutdown' = TRUE /\ stopping' = FALSE
  /\ named' = DefaultStore /\ found' = Stores /\ game' = NoTree /\ ended' = "no"
  /\ UNCHANGED <<back, mem, files, writer, reader, fault>>

\* stat, then load_itemstore or make_root_item.  load_itemstore returns NULL
\* if the file cannot be opened.
OpenStore(s, then) ==
  /\ itemstore' = s
  /\ IF <<s, 0>> \in exists
     THEN \/ /\ phase' = "reading" /\ back' = then
             /\ pos' = 0 /\ open' = <<>> /\ mem' = NoTree
          \/ /\ "unreadable" \in Rough
             /\ phase' = then /\ mem' = NoTree
             /\ UNCHANGED <<back, reader>>
     ELSE /\ phase' = then
          /\ \E v \in Value : mem' = RootOnly([type |-> "value", holds |-> v])
          /\ UNCHANGED <<back, reader>>

\* -i, given once
GiveStore(s) ==
  /\ fault = "none" /\ phase = "options" /\ itemstore = "none"
  /\ OpenStore(s, "options")
  /\ named' = s
  /\ UNCHANGED <<input, bootonly, safe_shutdown, stopping, files, writer,
                 fault, found, game, ended>>

\* -n: the item must be there already, as code.
GiveInput(p) ==
  /\ fault = "none" /\ phase = "options"
  /\ IF p \in DOMAIN mem /\ mem[p].type = "code"
     THEN input' = p /\ UNCHANGED <<phase, mem, ended>>
     ELSE Gone("refused") /\ UNCHANGED input
  /\ UNCHANGED <<back, itemstore, bootonly, safe_shutdown, stopping, files,
                 writer, reader, fault, named, found, game>>

\* -b
GiveBootOnly ==
  /\ fault = "none" /\ phase = "options" /\ ~bootonly
  /\ bootonly' = TRUE
  /\ UNCHANGED <<phase, back, mem, itemstore, input, safe_shutdown, stopping, files, writer, reader, fault, last>>

\* -h, a source root that cannot be used, no bytecode, a wrong option.
Refuse ==
  /\ fault = "none" /\ phase = "options"
  /\ Gone("refused")
  /\ UNCHANGED <<back, config, files, writer, reader, fault, named, found, game>>

\* All options were given.  Without a tree the default store is used, also
\* when -i named one that could not be read.
Boot ==
  /\ fault = "none" /\ phase = "options"
  /\ IF Rooted(mem)
     THEN phase' = "boot" /\ UNCHANGED <<back, mem, itemstore, reader>>
     ELSE OpenStore(DefaultStore, "boot")
  /\ UNCHANGED <<input, bootonly, safe_shutdown, stopping, files, writer,
                 fault, last>>

-----------------------------------------------------------------------------
(* load_itemstore                                                          *)

Reading == fault = "none" /\ phase = "reading"
Top == open[Len(open)]

\* Mutant: the loop over the children does not count.
OneCameSame == open

\* One child fewer of the item at the top is to come.
OneCame ==
  IF open = <<>> THEN <<>> ELSE [open EXCEPT ![Len(open)].left = @ - 1]

\* read_item of the root, or of a child of the item at the top: its record,
\* and make_item.  A child that is there already is made a second time and
\* shadows the first.
ReadItem ==
  /\ Reading
  /\ pos < Len(disk[itemstore])
  /\ open # <<>> => Top.left > 0
  /\ LET r == disk[itemstore][pos + 1]
         p == IF open = <<>> THEN <<>> ELSE Append(Top.at, r.name)
     IN  /\ mem' = Placed(mem, p, r.item)
         /\ open' = Append(OneCame, [at |-> p, left |-> r.children])
  /\ pos' = pos + 1
  /\ UNCHANGED <<phase, back, config, files, writer, fault, last>>

\* All children of the item at the top are there; of the root: fclose.
ReadReturn ==
  /\ Reading
  /\ open # <<>> /\ Top.left = 0
  /\ open' = SubSeq(open, 1, Len(open) - 1)
  /\ phase' = IF Len(open) = 1 THEN back ELSE phase
  /\ UNCHANGED <<back, mem, config, files, writer, pos, fault, last>>

\* Nothing looks at what fread returns: name, type and number of children
\* are whatever was in the variables.
ReadPastEnd ==
  /\ Reading
  /\ pos = Len(disk[itemstore])
  /\ open # <<>> => Top.left > 0
  /\ fault' = "read_past_end"
  /\ UNCHANGED <<phase, back, mem, config, files, writer, reader, last>>

-----------------------------------------------------------------------------
(* The boot item, tasks and the input item: game code.                     *)

Coding == fault = "none" /\ phase \in {"boot", "running"}

\* itemroot is NULL when the default store cannot be read either.  Names are
\* then not found and assignments do nothing; rootname reads through it.
NoRoot ==
  /\ Coding /\ ~Rooted(mem)
  /\ fault' = "no_root"
  /\ UNCHANGED <<phase, back, mem, config, files, writer, reader, last>>

\* insert_item: over a code item the type stays, and the bytecode is freed;
\* write_item would write what is no longer there.
Assign(p, v) ==
  /\ Coding /\ Rooted(mem)
  /\ IF p \in DOMAIN mem /\ mem[p].type = "code"
     THEN /\ "overwrite" \in Rough
          /\ fault' = "bytecode_freed"
          /\ UNCHANGED mem
     ELSE /\ mem' = Created(mem, p, [type |-> "value", holds |-> v])
          /\ UNCHANGED fault
  /\ UNCHANGED <<phase, back, config, files, writer, reader, last>>

\* insert_code_item
AssignCode(p, c) ==
  /\ Coding /\ Rooted(mem)
  /\ mem' = Created(mem, p, [type |-> "code", holds |-> c])
  /\ UNCHANGED <<phase, back, config, files, writer, reader, fault, last>>

\* delete_item takes the items below as well.
Delete(p) ==
  /\ Coding
  /\ p \in DOMAIN mem
  /\ mem' = [q \in {q \in DOMAIN mem : ~Under(q, p)} |-> mem[q]]
  /\ UNCHANGED <<phase, back, config, files, writer, reader, fault, last>>

Shutdown ==
  /\ Coding
  /\ safe_shutdown' = TRUE /\ stopping' = TRUE
  /\ UNCHANGED <<phase, back, mem, itemstore, input, bootonly, files, writer,
                 reader, fault, last>>

Abort ==
  /\ Coding
  /\ safe_shutdown' = FALSE /\ stopping' = TRUE
  /\ UNCHANGED <<phase, back, mem, itemstore, input, bootonly, files, writer,
                 reader, fault, last>>

\* The boot item returns.  The loop is not run at all with -b.
EndBoot ==
  /\ Coding /\ phase = "boot"
  /\ phase' = IF bootonly THEN "down" ELSE "running"
  /\ UNCHANGED <<back, mem, config, files, writer, reader, fault, last>>

\* input_processor exits when the input item is not there.
NoInput ==
  /\ Coding /\ phase = "running"
  /\ input \notin DOMAIN mem
  /\ Gone("exited")
  /\ game' = mem
  /\ UNCHANGED <<back, config, files, writer, reader, fault, named, found>>

\* uv_run returns after uv_stop; everything is closed.
EndLoop ==
  /\ Coding /\ phase = "running" /\ stopping
  /\ phase' = "down"
  /\ UNCHANGED <<back, mem, config, files, writer, reader, fault, last>>

-----------------------------------------------------------------------------
(* save_itemstore                                                          *)

Writing == fault = "none" /\ phase \in {"saving", "backup"}

\* Mutant: the name of a back-up is that of the store.
BackupFileSame(t) == <<itemstore, 0>>

BackupFile(t) == <<itemstore, t>>

\* The item files when r has been written to f.
Holding(f, r) == IF f[2] = 0 THEN [disk EXCEPT ![f[1]] = r] ELSE disk
Keeping(f, t) == IF f[2] = 0 THEN [kept EXCEPT ![f[1]] = t] ELSE kept

\* fopen for writing empties the file; then write_item reads the root.
Emptied(f) ==
  /\ disk' = Holding(f, <<>>)
  /\ exists' = exists \cup {f}
  /\ torn' = torn \cup {f}
  /\ todo' = (IF Rooted(mem) THEN <<<<>>>> ELSE <<>>) /\ out' = <<>> /\ target' = f
  /\ fault' = (IF Rooted(mem) THEN fault ELSE "no_root")
  /\ kept' = Keeping(f, NoTree)

Backup(t) ==
  /\ Coding
  /\ phase' = "backup" /\ back' = phase
  /\ Emptied(BackupFile(t))
  /\ UNCHANGED <<mem, config, reader, last>>

Save ==
  /\ fault = "none" /\ phase = "down" /\ safe_shutdown
  /\ phase' = "saving"
  /\ Emptied(<<itemstore, 0>>)
  /\ game' = mem
  /\ UNCHANGED <<back, mem, config, reader, named, found, ended>>

\* fopen fails: the store, or the back-up, stays as it is.
CannotWrite ==
  /\ "unwritable" \in Rough
  /\ fault = "none" /\ phase = "down" /\ safe_shutdown
  /\ Gone("unsaved")
  /\ game' = mem
  /\ UNCHANGED <<back, config, files, writer, reader, fault, named, found>>

\* After sys.abort.
Discard ==
  /\ fault = "none" /\ phase = "down" /\ ~safe_shutdown
  /\ Gone("aborted")
  /\ game' = mem
  /\ UNCHANGED <<back, config, files, writer, reader, fault, named, found>>

NameOf(p) == IF p = <<>> THEN "root" ELSE p[Len(p)]

\* Mutant: the children are put behind what waits, level by level.
ThenBehind(kids) == Tail(todo) \o kids

\* write_item calls itself for each child before it returns.
Then(kids) == kids \o Tail(todo)

WriteItem ==
  /\ Writing
  /\ todo # <<>>
  /\ \E kids \in Orders(Children(mem, Head(todo))) :
       /\ out' = Append(out, [name |-> NameOf(Head(todo)), item |-> mem[Head(todo)],
                              children |-> Len(kids)])
       /\ todo' = Then(kids)
  /\ UNCHANGED <<target, phase, back, mem, config, files, reader, fault, last>>

\* main ends, or game code goes on.
Finished(how) ==
  /\ out' = <<>> /\ target' = NoFile
  /\ IF phase = "saving"
     THEN Gone(how)
     ELSE phase' = back /\ UNCHANGED <<mem, ended>>
  /\ UNCHANGED <<back, config, exists, todo, reader, fault, named, found, game>>

\* fclose: everything is on disk.
Close ==
  /\ Writing
  /\ todo = <<>>
  /\ disk' = Holding(target, out)
  /\ kept' = Keeping(target, mem)
  /\ torn' = torn \ {target}
  /\ Finished("saved")

\* Nothing looks at what fwrite and fclose return: when the disk was full a
\* beginning is there, and the engine goes on as if all were.
CloseShort ==
  /\ "full" \in Rough
  /\ Writing
  /\ todo = <<>>
  /\ \E n \in 0 .. Len(out) - 1 : disk' = Holding(target, SubSeq(out, 1, n))
  /\ Finished("short")
  /\ UNCHANGED <<kept, torn>>

\* The process dies.  Of a file that is being written, what stdio had passed
\* on is on disk.
Crash ==
  /\ "crash" \in Rough
  /\ fault = "none" /\ phase # "off"
  /\ IF Writing
     THEN \E n \in 0 .. Len(out) : disk' = Holding(target, SubSeq(out, 1, n))
     ELSE UNCHANGED disk
  /\ Gone("crashed")
  /\ todo' = <<>> /\ out' = <<>> /\ target' = NoFile /\ pos' = 0 /\ open' = <<>>
  /\ UNCHANGED <<back, config, exists, kept, torn, fault, named, found,
                 game>>

-----------------------------------------------------------------------------

Next ==
  \/ Start \/ GiveBootOnly \/ Refuse \/ Boot
  \/ \E s \in Store : GiveStore(s)
  \/ \E p \in Path : GiveInput(p)
  \/ ReadItem \/ ReadReturn \/ ReadPastEnd
  \/ NoRoot
  \/ \E p \in Path : Delete(p) \/ (\E v \in Value : Assign(p, v))
                               \/ (\E c \in Code : AssignCode(p, c))
  \/ Shutdown \/ Abort \/ EndBoot \/ NoInput \/ EndLoop
  \/ \E t \in 1 .. MaxSecond : Backup(t)
  \/ Save \/ CannotWrite \/ Discard \/ WriteItem \/ Close
  \/ CloseShort \/ Crash

Spec == Init /\ [][Next]_vars

\* The boot item returns, and a loop that was stopped goes round for the last
\* time, whatever the game did meanwhile; main goes on by itself.
Fairness ==
  /\ SF_vars(EndBoot) /\ SF_vars(EndLoop)
  /\ WF_vars(Save \/ Discard) /\ WF_vars(WriteItem \/ Close)

FairSpec == Spec /\ Fairness

-----------------------------------------------------------------------------
(* Properties                                                              *)

\* A tree holds, with an item, the one it lies below.
IsTree(t) ==
  /\ IsFiniteSet(DOMAIN t)
  /\ \A p \in DOMAIN t :
       /\ p \in Seq(Name) /\ t[p] \in Item
       /\ p # <<>> => Parent(p) \in DOMAIN t

\* mem is a tree at every step: what is loaded, assigned or deleted leaves no
\* item whose parent is gone (make_item, delete_item, read_item).
TypeOK ==
  /\ phase \in {"off", "options", "reading", "boot", "running", "backup", "down", "saving"}
  /\ back \in {"off", "options", "boot", "running"}
  /\ IsTree(mem)
  /\ itemstore \in Store \cup {"none"} /\ named \in Store
  /\ input \in Path
  /\ bootonly \in BOOLEAN /\ safe_shutdown \in BOOLEAN /\ stopping \in BOOLEAN
  /\ disk \in [Store -> Seq(Record)] /\ exists \subseteq File
  /\ todo \in Seq(DOMAIN mem) /\ out \in Seq(Record) /\ target \in File \cup {NoFile}
  /\ pos \in Nat /\ open \in Seq([at : DOMAIN mem, left : Nat])
  /\ DOMAIN kept = Store /\ \A s \in Store : IsTree(kept[s])
  /\ torn \subseteq exists

\* What is loaded is the tree that was saved last, item for item, in whatever
\* order the children were written: every record finds its parent again from
\* the numbers of children alone.  Only a file whose writing was cut short can
\* end before the last child (read_item, write_item).
LoadsWhatWasSaved ==
  [][ /\ phase = "reading" /\ phase' = back /\ phase' # "reading"
        => mem' = kept[itemstore] \/ <<itemstore, 0>> \in torn
      /\ fault' = "read_past_end" => <<itemstore, 0>> \in torn ]_vars

\* The records d are those of the tree t: one for each node, and the nodes
\* under one follow it without a gap.
HoldsTree(d, t) ==
  \E f \in Orders(DOMAIN t) :
    /\ DOMAIN f = DOMAIN d /\ f[1] = <<>>
    /\ \A i \in DOMAIN f :
         /\ d[i] = [name |-> NameOf(f[i]), item |-> t[f[i]],
                    children |-> Cardinality(Children(t, f[i]))]
         /\ LET below == {j \in DOMAIN f : Under(f[j], f[i])}
            IN  below = i .. i + Cardinality(below) - 1

\* An orderly end leaves the whole game in the item file, whatever was backed
\* up, assigned or taken back before (sin.c, main), unless the disk was full.
ShutdownSaves ==
  ended = "saved" =>
    HoldsTree(disk[itemstore], game) /\ <<itemstore, 0>> \notin torn

\* sys.abort, a wrong option and a missing input item leave every item file
\* as it was when the engine was started; only the back-ups are new.
AbortKeepsFiles ==
  ended \in {"aborted", "exited", "refused"} => Stores = found

\* A game that was told to stop comes to its end and, if it was not aborted,
\* to a file, unless something broke (lc_sys_shutdown, main).
StopEnds ==
  stopping /\ phase \in {"boot", "running", "backup"}
    ~> \/ phase = "off" /\ (ended = "aborted" => ~safe_shutdown)
       \/ fault # "none"

\* For the configurations beside the runs:

\* An engine that ended in order, and was not aborted, has saved the whole game.
EndIsSaved == ended # "short"

\* sin.c, -i: "if given use this filename for the itemstore".
NamedIsUsed == phase \in {"boot", "running", "down", "saving"} => itemstore = named

\* A back-up that was finished is not cut short by a later one.
BackupsStay == [][\A f \in exists \ torn : f[2] > 0 => f \notin torn']_vars

=============================================================================
