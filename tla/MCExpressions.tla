---------------------------- MODULE MCExpressions ----------------------------
(* Instances of Expressions. *)
EXTENDS Expressions

\* Nothing, a small letter, a small and a capital one, a row that is too long
\* for a layer, and what is not a letter.
Words == {<<>>, <<"x">>, <<"x", "X">>, <<"x", "x", "x">>, <<"!">>}
ToUpper == [l \in {"x", "!"} |-> IF l = "x" THEN "X" ELSE l] @@ [l \in {"X"} |-> l]
ToLower == [l \in {"x", "X", "!"} |-> IF l = "X" THEN "x" ELSE l]

LayerLetters == {"x", "X", "y", "z", "1", "3"}
ShortLayers == {<<"x">>, <<"y">>, <<"x", "x">>}
LongLayers == {<<"x">>, <<"x", "x", "x">>}

Item(path, value) ==
  [path |-> path, value |-> value,
   name |-> LET dots == {i \in DOMAIN path : path[i] = "."} IN
            IF dots = {} THEN path
            ELSE SubSeq(path, 1 + CHOOSE d \in dots : \A e \in dots : e <= d, Len(path))]

\* Numbers and strings that are layers, and values that are none.
SomeItems == <<
  Item(<<"x">>, Num(1)),
  Item(<<"x", ".", "y">>, Str(<<"x">>)),
  Item(<<"x", ".", "1">>, Str(<<"x", "x">>)),
  Item(<<"y">>, Str(<<"!">>)),
  Item(<<"x", ".", "y", ".", "x", "x">>, Bool(TRUE)),
  Item(<<"y", ".", "x">>, Num(3)),
  Item(<<"x", "x">>, Str(<<"y">>)),
  Item(<<"x", "x", ".", "x", "X">>, Num(-2)) >>

=============================================================================
