------------------------------ MODULE MCTasks ------------------------------
(* Tasks on small instances: the intervals game code asks for.             *)
EXTENDS Tasks

MCSoon == {0, 1} \X {0, 1}

\* Once, again and again, and a start or a repeat that does not come.
MCAny == {<<0, 0>>, <<1, 0>>, <<0, 1>>, <<-1, 1>>, <<1, -1>>}
=============================================================================
