---------------------------- MODULE MCExecution ----------------------------
(* Execution on small instances: the items and who may be exchanged.       *)
EXTENDS Execution, TLC

MCTwo == {<<"input">>, <<"a">>}
MCNested == {<<"input">>, <<"input", "a">>}
MCFour == {<<"input">>, <<"a">>, <<"a", "b">>, <<"c">>}
MCThree == {<<"input">>, <<"a">>, <<"a", "b">>}
MCInput == <<"input">>
MCAll == Liberty
MCSymmetry == Permutations(Code)
=============================================================================
