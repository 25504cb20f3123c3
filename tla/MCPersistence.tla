---------------------------- MODULE MCPersistence ----------------------------
(* Instances of Persistence. *)
EXTENDS Persistence

\* A tree of two levels.
Small == {<<"input">>, <<"a">>, <<"a", "b">>}
Flat == {<<"input">>}

\* The default store only, or one that -i may name as well.
One == {"items.dat"}
Two == {"items.dat", "game.dat"}

Input == <<"input">>

=============================================================================
