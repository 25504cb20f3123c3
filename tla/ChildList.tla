----------------------------- MODULE ChildList -----------------------------
(***************************************************************************)
(* What an item promises about its children (src/item.h): game code finds  *)
(* them by name and by number, and they are numbered in the order they     *)
(* were made.                                                              *)
(***************************************************************************)
EXTENDS Naturals, Sequences

CONSTANT Name

VARIABLE list

Init == list = <<>>

Member(n) == \E i \in 1 .. Len(list) : list[i] = n

Make(n) == ~Member(n) /\ list' = Append(list, n)

\* Those behind the one that is deleted move up.
Delete(n) ==
  \E i \in 1 .. Len(list) :
    /\ list[i] = n
    /\ list' = [k \in 1 .. Len(list) - 1 |-> IF k < i THEN list[k] ELSE list[k + 1]]

Next == \E n \in Name : Make(n) \/ Delete(n)

Spec == Init /\ [][Next]_list

\* No two children have one name.
Distinct == \A i, j \in 1 .. Len(list) : list[i] = list[j] => i = j
=============================================================================
