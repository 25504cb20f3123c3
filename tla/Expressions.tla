---------------------------- MODULE Expressions ----------------------------
(***************************************************************************)
(* How an expression is compiled (the item buffers of src/parser.y) and    *)
(* evaluated (src/interpret.c): operators, and the names of items.         *)
(*                                                                         *)
(* The name of an item is a row of layers.  A layer is written out, or it  *)
(* is put in brackets: a local, or an item, whose value is the layer.  The *)
(* compiler writes a name into a buffer of its own, since the arguments,   *)
(* which come after it, are evaluated before it; op_assembleitem puts the  *)
(* name together; and find_item looks it up.                               *)
(*                                                                         *)
(* Two sources are compiled and run on the same locals.  A law says that   *)
(* they leave the same value.                                              *)
(***************************************************************************)
EXTENDS Operators, SequencesExt

CONSTANTS
  Narrow,    \* bound: the bits of an int, 32 in the code
  NameSize,  \* bound: the first size of the buffer for a name, 128
  MaxLayer,  \* bound: the letters of a layer, 32
  MaxNested, \* bound: MAX_NESTED_CONTROLS, 32
  Letter,    \* the letters of a layer
  Layers,    \* the layers that sources are written with
  Items,     \* the items there are, oldest first: path, name and value
  Rough      \* what else happens, see below

(* "nils":     both sides of a comparison are nil                          *)
(* "empty":    a condition is an empty string                              *)
(* "mixed":    the operands of arithmetic are not all numbers              *)
(* "smallest": the smallest number is divided                              *)
(* "other":    a function of the str library gets a number or a truth value *)
(* "no_layer": a layer in brackets is an empty string                      *)
(* "wide":     a layer in brackets is a number of more than Narrow bits    *)
(* "midway":   a layer in brackets that is none is not the last            *)
(* "no_name":  exists, delete or nthname is given a name that is none      *)
(* "brackets": there is an item in brackets                                *)
(* "args":     an item that is not code is given arguments                 *)
(* and, as sources of which something is said that is not so:              *)
(* "stale":    a local that was never assigned is taken for 0 in a sum     *)
(* "sums":     nil is added, which Concepts.md says is nil                 *)
(* "filled":   a condition is a string, true if empty says Concepts.md     *)
Liberty == {"nils", "empty", "mixed", "smallest", "other", "no_layer", "wide",
            "midway", "no_name", "brackets", "args", "stale", "sums", "filled"}

ASSUME ExpressionsAssumption ==
  /\ Narrow \in 1 .. Width /\ NameSize \in Nat /\ MaxNested \in Nat
  /\ MaxLayer \in Nat /\ MaxLayer <= NameSize
  /\ Rough \subseteq Liberty

VARIABLES
  law,       \* the law, with the values of its locals
  source,    \* what the grammar has not acted on yet
  item_out,  \* the buffers of the items that are being read, innermost last
  code,      \* the bytecode
  pc,
  names,     \* the calls of assembleitem_helper, innermost last
  stack,     \* the values, the top one last
  strings,   \* strings in memory that were made for the stack and not freed
  tree,      \* the items
  first,     \* what the left source left, once it ended; before, none
  fault

vars == <<law, source, item_out, code, pc, names, stack, strings, tree, first,
          fault>>

None == [type |-> "none"]
Dot == <<".">>

\* A local by its name.  When it was never assigned it is what its slot held:
\* the number 0 of new memory, a nil with the bits of a value that was popped,
\* or a whole value that was left behind (a string that is left is in Stack).
Local(x) == law[x]

-----------------------------------------------------------------------------
(* Compiling.  A source is what the grammar's actions see, in their order. *)

Reads(kinds) ==
  /\ fault = "none" /\ source # <<>> /\ Head(source)[1] \in kinds
  /\ source' = Tail(source)
  /\ UNCHANGED <<law, pc, names, stack, strings, tree, first>>

\* prepare_item.  item_count starts at -1, so that the test lets one more
\* through than there are records.
BeginItem ==
  /\ Reads({"item", "lib"})
  /\ item_out' = Append(item_out,
       [code |-> IF Head(source) = <<"item">> THEN << <<"I">> >> ELSE <<>>,
        args |-> 0])
  /\ fault' = IF Len(item_out) >= MaxNested THEN "behind_records" ELSE "none"
  /\ UNCHANGED code

\* Layers and brackets; of an item in brackets what is emitted is the end.
EmitLayer ==
  /\ Reads({"L", "D", "V", "]"})
  /\ item_out' = [item_out EXCEPT ![Len(item_out)].code =
       Append(@, IF Head(source) = <<"]">> THEN <<"E">> ELSE Head(source))]
  /\ UNCHANGED <<code, fault>>

CountArg ==
  /\ Reads({"arg"})
  /\ item_out' = [item_out EXCEPT ![Len(item_out)].args = @ + 1]
  /\ UNCHANGED <<code, fault>>

\* Mutant: the number of arguments is that of the item around it.
ClosingOuter(token, item) ==
  CASE token[1] = "fetch" ->
         << <<"E">>, <<"F", IF Len(item_out) > 1
                            THEN item_out[Len(item_out) - 1].args
                            ELSE item.args>> >>
    [] token[1] = "name" -> << <<"E">> >>
    [] token[1] = "call" -> << <<"op", token[2]>> >>

\* What is emitted behind a buffer that is merged.
Closing(token, item) ==
  CASE token[1] = "fetch" -> << <<"E">>, <<"F", item.args>> >>
    [] token[1] = "name" -> << <<"E">> >>
    [] token[1] = "call" -> << <<"op", token[2]>> >>

\* finalise_item: merge_item_buffer, and the item around it goes on.
FinishItem ==
  /\ Reads({"fetch", "name", "call"})
  /\ LET item == Last(item_out) IN
       code' = code \o item.code \o Closing(Head(source), item)
  /\ item_out' = Front(item_out)
  /\ UNCHANGED fault

\* Everything else is emitted as it comes.
Emit ==
  /\ Reads({"e", "push", "op", "X", "W", "Y", "Z", "bytes"})
  /\ code' = code \o (IF Head(source)[1] = "bytes" THEN Head(source)[2]
                                                   ELSE <<Head(source)>>)
  /\ UNCHANGED <<item_out, fault>>

-----------------------------------------------------------------------------
(* Layers and names.                                                       *)

Narrowed(n) ==
  LET least == -(2 ^ (Narrow - 1)) IN ((n - least) % (2 ^ Narrow)) + least

\* However many there are, digits are one letter here.
Digits(n) == IF n < 0 THEN <<"-", ToString(-n)>> ELSE <<ToString(n)>>

\* A number becomes an int, and that its digits.
itoa(n) == Digits(Narrowed(n))

is_valid_layer(s) == Len(s) <= MaxLayer /\ \A i \in DOMAIN s : s[i] \in Letter

\* The value of what is in brackets is a layer.
IsLayer(v) == IF IsStr(v) THEN is_valid_layer(v.s) ELSE v.type = "int"

LayerOf(v) == IF IsStr(v) THEN v.s ELSE itoa(v.i)

\* find_item: an empty layer at the end is not looked for, so that "" is the
\* root.
Root == [path |-> <<>>, name |-> <<>>, value |-> Num(0)]

FindItem(s) ==
  LET path == IF s # <<>> /\ Last(s) = "." THEN Front(s) ELSE s IN
  IF s = <<>> THEN {Root}
  ELSE {item \in ToSet(tree) : item.path = path}

\* It copies a layer to where MaxLayer letters have room, once it has found what
\* the layers before it name.
Overruns(s) ==
  \E i \in 0 .. Len(s) - MaxLayer - 1 :
    /\ i > 0 => s[i] = "."
    /\ \A k \in 1 .. MaxLayer + 1 : s[i + k] # "."
    /\ FindItem(SubSeq(s, 1, i)) # {}

The(items) == CHOOSE item \in items : TRUE

Under(path, name) == IF path = <<>> THEN name ELSE path \o Dot \o name

Children(path) ==
  SelectSeq(tree, LAMBDA item : item.path = Under(path, item.name))

Runs(ops) ==
  /\ fault = "none" /\ source = <<>> /\ pc <= Len(code)
  /\ code[pc][1] \in ops
  /\ UNCHANGED <<law, source, item_out, code, first>>

Argument == code[pc][2]
Naming == names # <<>>
Inner == Last(names)

\* A buffer has two bytes more than its size until it grows.
NewName == [text |-> <<>>, size |-> NameSize, room |-> NameSize + 2, bad |-> FALSE]

\* Mutant: the buffer grows when the layer does not fit, the dot left aside.
TooSmallBare(name, layer) == Len(name.text) + Len(layer) > name.size + 1

TooSmall(name, layer) == Len(name.text) + Len(layer) + 2 >= name.size

\* A layer is added, and a dot behind it when another layer follows.
Added(name, layer, next) ==
  LET size == IF TooSmall(name, layer) THEN name.size * 2 + 2 ELSE name.size IN
  [text |-> name.text \o layer \o IF code[next][1] = "E" THEN <<>> ELSE Dot,
   size |-> size,
   room |-> IF TooSmall(name, layer) THEN size ELSE name.room,
   bad |-> FALSE]

\* assembleitem_helper goes on at next in the call above outer: with a layer,
\* or with a value that is none.
GoOn(outer, layer, ok, next) ==
  LET name == Last(outer) IN
  /\ pc' = next
  /\ names' = Append(Front(outer),
       IF ok THEN Added(name, layer, next) ELSE [name EXCEPT !.bad = TRUE])
  /\ fault' = IF ok /\ Len(Last(names').text) >= Last(names').room
              THEN "overrun" ELSE "none"

BeginName ==
  /\ Runs({"I"}) /\ ~Naming
  /\ names' = <<NewName>>
  /\ pc' = pc + 1
  /\ UNCHANGED <<stack, strings, tree, fault>>

AddLayer ==
  /\ Runs({"L"}) /\ Naming /\ ~Inner.bad
  /\ GoOn(names, Argument, TRUE, pc + 1)
  /\ UNCHANGED <<stack, strings, tree>>

\* A local in brackets.
AddLocal ==
  /\ Runs({"D"}) /\ Naming /\ ~Inner.bad
  /\ code[pc + 1][1] = "V"
  /\ LET v == Local(code[pc + 1][2]) IN
       GoOn(names, IF IsLayer(v) THEN LayerOf(v) ELSE <<>>, IsLayer(v), pc + 2)
  /\ UNCHANGED <<stack, strings, tree>>

\* An item in brackets.
BeginInner ==
  /\ Runs({"D"}) /\ Naming /\ ~Inner.bad
  /\ code[pc + 1][1] = "I"
  /\ names' = Append(names, NewName)
  /\ pc' = pc + 2
  /\ UNCHANGED <<stack, strings, tree, fault>>

\* The helper returns: to the call around it, which looks the item up and takes
\* its value for a layer, or to op_assembleitem.  After a layer that is none it
\* stops where it is, which is inside the name unless that was the last layer.
EndName ==
  /\ Runs({"E", "L", "D"}) /\ Naming
  /\ code[pc][1] = "E" \/ Inner.bad
  /\ IF code[pc][1] # "E"
     THEN fault' = "astray" /\ UNCHANGED <<pc, names, stack, strings>>
     ELSE IF Len(names) = 1
     THEN /\ pc' = pc + 1
          /\ names' = <<>>
          /\ stack' = Append(stack, IF Inner.bad THEN Nil ELSE Str(Inner.text))
          /\ strings' = IF Inner.bad THEN strings ELSE strings + 1
          /\ UNCHANGED fault
     ELSE IF ~Inner.bad /\ Overruns(Inner.text)
     THEN fault' = "overrun" /\ UNCHANGED <<pc, names, stack, strings>>
     ELSE LET found == IF Inner.bad THEN {} ELSE FindItem(Inner.text)
              ok == found # {} /\ IsLayer(The(found).value) IN
          /\ GoOn(Front(names), IF ok THEN LayerOf(The(found).value) ELSE <<>>,
                  ok, pc + 1)
          /\ UNCHANGED <<stack, strings>>
  /\ UNCHANGED tree

-----------------------------------------------------------------------------
(* Evaluating.                                                             *)

Top == stack[Len(stack)]
Below == stack[Len(stack) - 1]
Pop(n) == SubSeq(stack, 1, Len(stack) - n)

Count(s) == Cardinality({i \in DOMAIN s : IsStr(s[i])})

Steps(ops) == Runs(ops) /\ ~Naming /\ pc' = pc + 1 /\ UNCHANGED names

\* An opcode that takes n values where fewer are takes a local for one, or what
\* the caller of the item has pushed.
Lacks(n) == Len(stack) < n
Underflow == fault' = "underflow" /\ UNCHANGED <<stack, strings>>

\* A number of values is popped and another pushed.  The strings in memory
\* change by so many.
Leaves(n, v, change) ==
  /\ stack' = Append(Pop(n), v)
  /\ strings' = strings + change

\* A literal or a local is pushed, and a string is copied.  op_undefined does
\* nothing: not to the end of a name, which may be left to be run; when the rest
\* of a name is, the letters of its layers are run as code.
PushValue ==
  /\ Steps({"e", "push", "E", "L", "D"})
  /\ LET op == code[pc][1] IN
     /\ IF op \in {"e", "push"}
        THEN LET v == IF op = "e" THEN Local(Argument) ELSE Argument IN
             Leaves(0, v, Count(<<v>>))
        ELSE UNCHANGED <<stack, strings>>
     /\ fault' = IF op \in {"L", "D"} THEN "astray" ELSE "none"
  /\ UNCHANGED tree

Operate ==
  /\ Steps({"op"})
  /\ \/ /\ Argument \in UnaryOp
        /\ IF Lacks(1) THEN Underflow
           ELSE LET e == Unary(Argument, Top) IN
                Leaves(1, e.v, e.strings) /\ UNCHANGED fault
     \/ /\ Argument \in BinaryOp
        /\ IF Lacks(2) THEN Underflow
           ELSE /\ \E e \in Binary(Argument, Below, Top) : Leaves(2, e.v, e.strings)
                /\ fault' = IF Argument = "/" /\ Top = Num(-1) /\ Below = Num(Smallest)
                            THEN "no_quotient" ELSE "none"
  /\ UNCHANGED tree

\* op_fetchitem of a value item, of none, and of a name that is none.
\* Arguments are only taken from the stack for an item that does not exist.
FetchItem ==
  /\ Steps({"F"})
  /\ LET found == IF IsStr(Top) THEN FindItem(Top.s) ELSE {}
         args == IF IsStr(Top) /\ found = {} THEN Argument ELSE 0
         v == IF found = {} THEN Nil ELSE The(found).value IN
     IF Lacks(1) \/ Lacks(1 + args) THEN Underflow
     ELSE /\ Leaves(1 + args, v,
                    Count(<<v>>) - Count(SubSeq(stack, Len(stack) - args, Len(stack))))
          /\ fault' = IF IsStr(Top) /\ Overruns(Top.s) THEN "overrun" ELSE "none"
  /\ UNCHANGED tree

\* op_exists: what is popped must be a name.
Exists ==
  /\ Steps({"X"})
  /\ IF Lacks(1) THEN Underflow
     ELSE IF IsStr(Top)
     THEN /\ Leaves(1, Bool(FindItem(Top.s) # {}), -1)
          /\ fault' = IF Overruns(Top.s) THEN "overrun" ELSE "none"
     ELSE fault' = "no_name" /\ UNCHANGED <<stack, strings>>
  /\ UNCHANGED tree

\* op_delete and delete_item, of an item that is not executed.  The root has
\* no parent to be taken from.
Delete ==
  /\ Steps({"W"})
  /\ fault' = CASE Lacks(1) -> "underflow"
                [] ~Lacks(1) /\ ~IsStr(Top) -> "no_name"
                [] ~Lacks(1) /\ IsStr(Top) /\ Top.s = <<>> -> "root"
                [] ~Lacks(1) /\ IsStr(Top) /\ Overruns(Top.s) -> "overrun"
                [] OTHER -> "none"
  /\ IF fault' = "none"
     THEN /\ stack' = Pop(1) /\ strings' = strings - 1
          /\ tree' = IF FindItem(Top.s) = {} THEN tree
                     ELSE LET path == The(FindItem(Top.s)).path IN
                          SelectSeq(tree, LAMBDA item :
                            item.path # path /\ ~IsPrefix(path \o Dot, item.path))
     ELSE UNCHANGED <<stack, strings, tree>>

\* find_item_by_index, whose name is copied.
Child(items, index) ==
  IF items # {} /\ index.type = "int" /\ index.i >= 0
     /\ index.i < Len(Children(The(items).path))
  THEN Str(Children(The(items).path)[index.i + 1].name) ELSE Nil

\* op_nthname: the name is only looked at when the index is a number.
NthName ==
  /\ Steps({"Y"})
  /\ LET looked == Top.type = "int" /\ Top.i >= 0 IN
     IF Lacks(2) THEN Underflow
     ELSE IF looked /\ ~IsStr(Below)
     THEN fault' = "no_name" /\ UNCHANGED <<stack, strings>>
     ELSE LET v == Child(IF IsStr(Below) THEN FindItem(Below.s) ELSE {}, Top) IN
          /\ Leaves(2, v, Count(<<v>>) - Count(<<Top, Below>>))
          /\ fault' = IF looked /\ Overruns(Below.s) THEN "overrun" ELSE "none"
  /\ UNCHANGED tree

\* op_rootname
RootName ==
  /\ Steps({"Z"})
  /\ IF Lacks(1) THEN Underflow
     ELSE LET v == Child({Root}, Top) IN
          Leaves(1, v, Count(<<v>>) - Count(<<Top>>)) /\ UNCHANGED fault
  /\ UNCHANGED tree

\* The left source has been run; its value is kept, and the right one comes.
\* An item that leaves nothing gives nil.
Turn ==
  /\ fault = "none" /\ source = <<>> /\ pc > Len(code) /\ first = None
  /\ first' = IF Lacks(1) THEN Nil ELSE Top
  /\ stack' = Pop(1)
  /\ source' = law.right
  /\ code' = <<>> /\ pc' = 1
  /\ UNCHANGED <<law, item_out, names, strings, tree, fault>>

-----------------------------------------------------------------------------
(* Laws: two sources, and the values of their locals, which are to leave    *)
(* the same value.  What is pushed on a right side is a value that is known *)
(* without running anything.                                               *)

\* An operand or operator by its name.
Token(t) ==
  CASE t \in {"a", "b", "c"} -> << <<"e", t>> >>
    [] t = "nil" -> << <<"push", Nil>> >>
    [] t \in {"upper", "lower", "capitalise"} -> << <<"arg">>, <<"call", t>> >>
    [] t = "lib" -> << <<"lib">> >>
    [] OTHER -> << <<"op", t>> >>

Source(tokens) == FlattenSeq([i \in DOMAIN tokens |-> Token(tokens[i])])

\* A value that is known.
Leave(v) == << <<"push", v>> >>

NameLaw(left, right, v, w) ==
  [left |-> left, right |-> right, a |-> v, b |-> w, c |-> Nil]

Law(left, right, holds(_, _, _)) ==
  {[left |-> Source(left), right |-> Source(right), a |-> t[1], b |-> t[2], c |-> t[3]] :
     t \in {u \in Value \X Value \X {Nil, Num(1), Str(<<>>)} :
              holds(u[1], u[2], u[3])}}

\* A law of two operands leaves the third alone.
Two(v, w, x) == x = Nil
Numbers(v, w, x) == v \in Nums /\ w \in Nums /\ x = Nil
Strings(v, w, x) == IsStr(v) /\ IsStr(w)
Ordered(v, w, x) == Same(v, w, {"int", "bool"}) /\ x = Nil
NotNils(v, w, x) == x = Nil /\ (~IsNil(v) \/ ~IsNil(w) \/ "nils" \in Rough)
NotEmpty(v, w, x) == w = Nil /\ x = Nil /\ (v # Str(<<>>) \/ "empty" \in Rough)
Factors(v, w, x) == x = Nil /\ ((v \in Nums /\ w \in Nums) \/ "mixed" \in Rough)
Summands(v, w, x) == v \in Nums \cup Nils /\ w \in Nums \cup Nils /\ x # Str(<<>>)
AsZero(v, w, x) ==
  IsNil(v) /\ w \in Nums /\ x = Nil /\ (v = Nil \/ "stale" \in Rough)
AsNil(v, w, x) == IsNil(v) /\ w \in Nums /\ x = Nil /\ "sums" \in Rough
Divided(v, w, x) == Numbers(v, w, x) /\ (v # Num(Smallest) \/ "smallest" \in Rough)
NoNumber(v, w, x) ==
  x = Nil /\ w \notin Nums /\ (v \in Nums \/ "mixed" \in Rough)
One(v, w, x) == w = Nil /\ x = Nil
Other(v, w, x) == One(v, w, x) /\ ~IsStr(v) /\ (IsNil(v) \/ "other" \in Rough)

OperatorLaws == UNION {
  Law(<<"a", "b", "!=">>, <<"a", "b", "==", "not">>, NotNils),
  Law(<<"a", "b", "<">>, <<"b", "a", ">">>, Two),
  Law(<<"a", "b", "<=">>, <<"b", "a", ">=">>, Two),
  Law(<<"a", "b", "<">>, <<"a", "b", ">=", "not">>, Ordered),
  Law(<<"a", "b", "<=", "a", "b", ">=", "and">>, <<"a", "b", "==">>, Ordered),
  Law(<<"a", "b", "and", "not">>, <<"a", "not", "b", "not", "or">>, Two),
  Law(<<"a", "if">>, <<"a", "not", "not">>, NotEmpty),
  {NameLaw(Source(<<"a", "if">>), Leave(Bool(s = <<>>)), Str(s), Nil) :
     s \in IF "filled" \in Rough THEN Text ELSE {}},
  Law(<<"a", "b", "+", "b", "-">>, <<"a">>, Numbers),
  Law(<<"a", "b", "-">>, <<"b", "a", "-", "neg">>, Numbers),
  Law(<<"a", "b", "+", "c", "+">>, <<"b", "c", "+", "a", "+">>, Summands),
  Law(<<"a", "b", "+">>, <<"b">>, AsZero),
  Law(<<"a", "b", "+">>, <<"nil">>, AsNil),
  Law(<<"a", "b", "+", "c", "+">>, <<"a", "b", "c", "+", "+">>, Strings),
  Law(<<"a", "b", "*">>, <<"b", "a", "*">>, Factors),
  Law(<<"a", "neg", "b", "/">>, <<"a", "b", "/", "neg">>, Divided),
  Law(<<"a", "b", "-">>, <<"nil">>, NoNumber),
  Law(<<"lib", "lib", "a", "upper", "lower">>, <<"lib", "a", "lower">>, One),
  Law(<<"lib", "lib", "a", "lower", "upper">>,
      <<"lib", "lib", "a", "capitalise", "upper">>, One),
  Law(<<"lib", "a", "upper">>, <<"a">>, Other) }

-----------------------------------------------------------------------------
(* A name is terms: what they are written with, and the value of each.      *)

Written(layer) == [tokens |-> << <<"L", layer>> >>, value |-> Str(layer)]
InLocal(v) == [tokens |-> << <<"D">>, <<"V", "a">> >>, value |-> v]

Tokens(terms) == FlattenSeq([i \in DOMAIN terms |-> terms[i].tokens])

\* "Nil values and empty strings are prohibited."
LayerName == UNION {[1 .. n -> Letter] : n \in 1 .. MaxLayer}
Names(v) == v.type = "int" \/ (IsStr(v) /\ v.s \in LayerName)

Joined(terms) ==
  LET layer(i) == IF IsStr(terms[i].value) THEN terms[i].value.s
                                           ELSE Digits(terms[i].value.i) IN
  FlattenSeq([i \in DOMAIN terms |-> (IF i = 1 THEN <<>> ELSE Dot) \o layer(i)])

Named(terms) ==
  IF \A i \in DOMAIN terms : Names(terms[i].value)
  THEN {item \in ToSet(Items) : item.path = Joined(terms)} ELSE {}

ValueOf(terms) == IF Named(terms) = {} THEN Nil ELSE The(Named(terms)).value

\* The names that the liberties leave.
Allowed(terms) ==
  \A i \in DOMAIN terms :
    LET v == terms[i].value IN
    /\ v = Str(<<>>) => "no_layer" \in Rough
    /\ v.type = "int" =>
         "wide" \in Rough \/ (v.i = Narrowed(v.i) /\ v.i # -(2 ^ (Narrow - 1)))
    /\ i < Len(terms) /\ v # Str(<<>>) /\ ~Names(v) => "midway" \in Rough

\* Names of up to n terms: layers, the local, and what else is given.
NamesOf(n, v, more) ==
  {terms \in BoundedSeq({Written(layer) : layer \in Layers} \cup {InLocal(v)} \cup more, n) :
     terms # <<>> /\ Allowed(terms)}

\* exists, delete and nthname take it to be a name.
Given(terms) ==
  "no_name" \in Rough \/
  \A i \in DOMAIN terms : terms[i].value = Str(<<>>) \/ Names(terms[i].value)

Fetched(terms) == << <<"item">> >> \o Tokens(terms) \o << <<"fetch">> >>
AName(terms) == << <<"item">> >> \o Tokens(terms) \o << <<"name">> >>
\* An item is fetched, or asked for.
FetchLaws == UNION {
  {NameLaw(Fetched(terms), Leave(ValueOf(terms)), v, Nil) :
     terms \in NamesOf(3, v, {})} \cup
  {NameLaw(AName(terms) \o << <<"X">> >>, Leave(Bool(Named(terms) # {})), v, Nil) :
     terms \in {n \in NamesOf(3, v, {}) : Given(n)}} : v \in Value}

\* It is there when another was deleted.
Stays(others, terms) ==
  /\ Named(others) # {}
  /\ \/ Named(terms) = {}
     \/ /\ Joined(others) # Joined(terms)
        /\ ~IsPrefix(Joined(terms) \o Dot, Joined(others))

\* An item is deleted, and it or another is asked for.
DeleteLaws == UNION {
  {NameLaw(AName(terms) \o << <<"W">> >> \o AName(others) \o << <<"X">> >>,
           Leave(Bool(Stays(others, terms))), v, Nil) :
     terms \in {n \in NamesOf(2, v, {}) : Given(n)},
     others \in {n \in NamesOf(2, Str(<<>>), {}) : Given(n) /\ Joined(n) # <<>>}}
  : v \in Value}

NthUnder(path, index) ==
  LET items == SelectSeq(Items, LAMBDA item : item.path = Under(path, item.name)) IN
  IF index.type = "int" /\ index.i \in 0 .. Len(items) - 1
  THEN Str(items[index.i + 1].name) ELSE Nil

\* The items of the root, and those under another.
NthLaws ==
  {NameLaw(<< <<"e", "a">>, <<"Z">> >>, Leave(NthUnder(<<>>, v)), v, Nil) :
     v \in Value} \cup
  UNION {{NameLaw(AName(terms) \o << <<"e", "b">>, <<"Y">> >>,
                  Leave(IF Named(terms) = {} THEN Nil ELSE NthUnder(Joined(terms), w)),
                  v, w) :
            terms \in {n \in NamesOf(1, v, {}) : Given(n) \/ w.type # "int"}}
         : v \in Value, w \in Value}

\* Arguments of an item that does not exist, and of those among them.
Missing == Written(<<"z">>).tokens

Passed(args) ==
  << <<"item">> >> \o Missing \o
  FlattenSeq([i \in DOMAIN args |-> args[i] \o << <<"arg">> >>]) \o << <<"fetch">> >>

\* Locals, a call, and items with arguments of their own.
Argued ==
  LET x == << <<"e", "a">> >>
      y == << <<"e", "b">> >>
      small == << <<"lib">>, <<"e", "a">>, <<"arg">>, <<"call", "lower">> >> IN
  {x, small, Passed(<<x>>), Passed(<<x, y>>), Passed(<<Passed(<<y>>)>>)}

ArgumentLaws ==
  {NameLaw(Passed(s), Leave(Nil), v, w) :
     s \in {<<p>> : p \in Argued} \cup (Argued \X Argued),
     v \in Strs \cup {Nil}, w \in Strs} \cup
  IF "args" \in Rough
  THEN {NameLaw(<< <<"item">> >> \o Written(item.name).tokens \o << <<"e", "a">> >> \o
                << <<"arg">>, <<"fetch">> >>, Leave(item.value), Nil, Nil) :
          item \in {i \in ToSet(Items) : i.path = i.name}}
  ELSE {}

\* An item in brackets, as the compiler writes it, and as doc/opcodes.txt says.
InItem(terms) ==
  [tokens |-> << <<"D">>, <<"item">> >> \o Tokens(terms) \o << <<"]">> >>,
   value |-> ValueOf(terms)]

InBytes(terms) ==
  [tokens |-> << <<"D">>, <<"I">> >> \o Tokens(terms) \o << <<"E">> >>,
   value |-> ValueOf(terms)]

\* The bytecode that fetches an item.
InCode(terms) == << <<"I">> >> \o Tokens(terms) \o << <<"E">>, <<"F", 0>> >>

BracketLaws ==
  (IF "brackets" \in Rough
   THEN UNION {{NameLaw(Fetched(terms), Leave(ValueOf(terms)), v, Nil) :
                  terms \in NamesOf(2, v, {InItem(n) : n \in NamesOf(2, v, {})})} :
               v \in Value}
   ELSE {}) \cup
  UNION {{NameLaw(<< <<"bytes", InCode(terms)>> >>, Leave(ValueOf(terms)), v, Nil) :
            terms \in NamesOf(2, v, {InBytes(n) : n \in NamesOf(2, v, {})})} :
         v \in Value}

Laws == OperatorLaws \cup FetchLaws \cup DeleteLaws \cup NthLaws \cup
        ArgumentLaws \cup BracketLaws

Init ==
  /\ law \in Laws
  /\ source = law.left
  /\ item_out = <<>> /\ code = <<>> /\ pc = 1
  /\ names = <<>> /\ stack = <<>> /\ strings = 0
  /\ tree = Items
  /\ first = None /\ fault = "none"

Compile == BeginItem \/ EmitLayer \/ CountArg \/ FinishItem \/ Emit

Assemble == BeginName \/ AddLayer \/ AddLocal \/ BeginInner \/ EndName

Evaluate ==
  PushValue \/ Operate \/ FetchItem \/ Exists \/ Delete \/ NthName \/ RootName

Next == Compile \/ Assemble \/ Evaluate \/ Turn

Spec == Init /\ [][Next]_vars

-----------------------------------------------------------------------------
(* Properties.                                                             *)

Ended == fault = "none" /\ source = <<>> /\ pc > Len(code) /\ first # None

\* Two sources that are to mean the same leave the same value, the bits of a nil
\* left aside, and nothing below it: a comparison and its reverse, the two orders
\* of operands, the laws of arithmetic in 64 bits, of "and", "or" and "not", a
\* condition and its double negation (interpret.c:174-513, whose branches look at
\* the types one by one); a name with brackets and the item it stands for,
\* whatever is deleted before (parser.y:334-392, interpret.c:775-928); and
\* arguments that are evaluated while the name they are passed to waits in its
\* buffer are dropped, each with its own call, when there is no such item
\* (interpret.c:695-773).
LawsHold == Ended => Len(stack) = 1 /\ Plain(stack[1]) = Plain(first)

\* A string on the stack is in memory: no operator frees a string that is still
\* a value, or frees one twice (op_add, op_logicalnot, convert_to_bool,
\* op_fetchitem, op_nthname).
HeldIsThere == Count(Append(stack, first)) <= strings

\* Evaluating stays inside what it was given: a name inside its buffer, which
\* grows by the layer (interpret.c:791) and is copied layer by layer to a buffer
\* of MaxLayer letters (item.c:496), the bytecode behind a name is the next
\* opcode (interpret.c:927), arguments are counted in a record that exists
\* (parser.y:363), and what is looked up is a name.
NoFault == fault = "none"

\* Every string in memory is on the stack: none is lost.
NothingLost == strings = Count(Append(stack, first))

=============================================================================
