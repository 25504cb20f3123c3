---------------------------- MODULE TasksProofs ----------------------------
(***************************************************************************)
(* What holds of Tasks for every number of tasks and every interval.       *)
(***************************************************************************)
EXTENDS Tasks, SequenceTheorems, TLAPS

-----------------------------------------------------------------------------
(* Types.                                                                  *)

LEMMA InitTypeOK == Init => TypeOK
<1>1. <<>> \in Seq(Task)
  OBVIOUS
<1>2. Init => task_list \in Seq(Task)
  BY <1>1, Zenon DEF Init
<1>3. Init => phase = "input" /\ next_taskid = 0 /\ stopping = FALSE
              /\ fault = "none"
  BY Zenon DEF Init
<1>4. ASSUME phase = "input", next_taskid = 0, stopping = FALSE, fault = "none",
             task_list \in Seq(Task)
      PROVE  TypeOK
  BY <1>4 DEF TypeOK
<1> QED BY <1>2, <1>3, <1>4

LEMMA FireKeepsType ==
  ASSUME NEW t \in Task
  PROVE  [Rearmed(t) EXCEPT !.runs = IF @ = 2 THEN 2 ELSE @ + 1] \in Task
<1> DEFINE r == Rearmed(t)
<1>1. r \in Task
  <2>1. CASE t.repeat = 0
    <3>1. r = [t EXCEPT !.timer = "idle", !.left = Never]
      BY <2>1 DEF Rearmed
    <3>2. Never \in Int
      BY DEF Never
    <3> HIDE DEF r
    <3> QED BY <3>1, <3>2 DEF Task
  <2>2. CASE t.repeat # 0
    <3>1. r = [t EXCEPT !.timer = "active", !.left = t.repeat]
      BY <2>2 DEF Rearmed
    <3>2. t.repeat \in Int
      BY DEF Task
    <3> HIDE DEF r
    <3> QED BY <3>1, <3>2 DEF Task
  <2> QED BY <2>1, <2>2
<1>2. (IF r.runs = 2 THEN 2 ELSE r.runs + 1) \in 0 .. 2
  BY <1>1 DEF Task
<1> HIDE DEF r
<1>3. [r EXCEPT !.runs = IF r.runs = 2 THEN 2 ELSE r.runs + 1] \in Task
  BY <1>1, <1>2 DEF Task
<1> QED BY <1>3 DEF r

\* What the actions that neither make nor destroy a task do to the list.
SameIds ==
  /\ Len(task_list') = Len(task_list)
  /\ \A p \in Positions : task_list'[p].id = task_list[p].id
  /\ next_taskid' = next_taskid
  /\ fault' = "null_stack" => fault = "null_stack"

LEMMA KillStep ==
  ASSUME TypeOK, NEW p \in Positions, KillTask(p)
  PROVE  TypeOK' /\ SameIds
<1>1. CASE task_list[p].timer \in {"closing", "closed"}
  BY <1>1 DEF TypeOK, KillTask, Coding, SameIds
<1>2. CASE task_list[p].timer \notin {"closing", "closed"}
  <2>1. task_list' = [task_list EXCEPT ![p] =
                        [task_list[p] EXCEPT !.timer = "closing"]]
    BY <1>2 DEF KillTask
  <2>2. task_list[p] \in Task /\ task_list \in Seq(Task)
    BY DEF TypeOK, Positions
  <2>3. [task_list[p] EXCEPT !.timer = "closing"] \in Task
    BY <2>2 DEF Task
  <2>4. task_list' \in Seq(Task) /\ Len(task_list') = Len(task_list)
    BY <2>1, <2>2, <2>3 DEF Positions
  <2>5. \A q \in Positions : task_list'[q].id = task_list[q].id
    BY <2>1, <2>2 DEF Positions, Task
  <2> QED BY <1>2, <2>4, <2>5 DEF TypeOK, KillTask, Coding, SameIds
<1> QED BY <1>1, <1>2

LEMMA FireStep ==
  ASSUME TypeOK, NEW p \in Positions, FireTask(p)
  PROVE  TypeOK' /\ SameIds
<1> DEFINE t == task_list[p]
           u == [Rearmed(t) EXCEPT !.runs = IF @ = 2 THEN 2 ELSE @ + 1]
<1>1. t \in Task /\ task_list \in Seq(Task)
  BY DEF TypeOK, Positions
<1>2. u \in Task /\ u.id = t.id
  <2>1. u \in Task
    BY <1>1, FireKeepsType
  <2>2. u.id = t.id
    BY <1>1 DEF Rearmed, Task
  <2> QED BY <2>1, <2>2
<1>3. task_list' = [task_list EXCEPT ![p] = u]
  BY DEF FireTask
<1> HIDE DEF u
<1>4. task_list' \in Seq(Task) /\ Len(task_list') = Len(task_list)
  BY <1>1, <1>2, <1>3 DEF Positions
<1>5. \A q \in Positions : task_list'[q].id = task_list[q].id
  BY <1>1, <1>2, <1>3 DEF Positions
<1> QED BY <1>4, <1>5 DEF TypeOK, FireTask, SameIds

LEMMA TurnStep ==
  ASSUME TypeOK, EndTurn
  PROVE  TypeOK' /\ SameIds
<1> DEFINE After(t) == [t EXCEPT !.timer = IF @ = "closing" THEN "closed" ELSE @,
                                 !.left = IF @ > 0 THEN @ - 1 ELSE @]
<1>1. task_list \in Seq(Task) /\ \A p \in Positions : task_list[p] \in Task
  BY DEF TypeOK, Positions
<1>2. ASSUME NEW t \in Task PROVE After(t) \in Task /\ After(t).id = t.id
  <2> DEFINE timer == IF t.timer = "closing" THEN "closed" ELSE t.timer
             left == IF t.left > 0 THEN t.left - 1 ELSE t.left
  <2>1. timer \in {"active", "idle", "closing", "closed"} /\ left \in Int
    BY DEF Task
  <2>2. After(t) = [t EXCEPT !.timer = timer, !.left = left]
    OBVIOUS
  <2> HIDE DEF timer, left, After
  <2> QED BY <2>1, <2>2 DEF Task
<1>3. task_list' = [p \in Positions |-> After(task_list[p])]
  BY DEF EndTurn
<1> HIDE DEF After
<1>4. task_list' \in Seq(Task) /\ Len(task_list') = Len(task_list)
  BY <1>1, <1>2, <1>3 DEF Positions
<1>5. \A q \in Positions : task_list'[q].id = task_list[q].id
  BY <1>1, <1>2, <1>3 DEF Positions
<1> QED BY <1>4, <1>5 DEF TypeOK, EndTurn, SameIds

LEMMA NewStep ==
  ASSUME TypeOK, NEW startin \in Int, NEW repeatin \in Int,
         NewGameTask(startin, repeatin)
  PROVE  /\ TypeOK'
         /\ NewId \in Nat
         /\ Len(task_list') = Len(task_list) + 1
         /\ task_list'[1].id = NewId
         /\ next_taskid' = next_taskid + 1
         /\ fault' = fault
         /\ \A p \in Positions : task_list'[p + 1].id = task_list[p].id
<1> DEFINE t == [id |-> NewId, timer |-> "active", left |-> Turns(startin),
                 repeat |-> Turns(repeatin), runs |-> 0]
<1>1. NewId \in Nat
  BY DEF NewId, TypeOK
<1>2. Turns(startin) \in Int /\ Turns(repeatin) \in Int
  BY DEF Turns, Never
<1>3. t \in Task /\ t.id = NewId
  BY <1>1, <1>2 DEF Task
<1>4. task_list' = <<t>> \o task_list /\ task_list \in Seq(Task)
  BY DEF NewGameTask, TypeOK
<1> HIDE DEF t
<1>5. /\ task_list' \in Seq(Task)
      /\ Len(task_list') = Len(task_list) + 1
      /\ task_list'[1] = t
      /\ \A p \in Positions : task_list'[p + 1] = task_list[p]
  BY <1>3, <1>4 DEF Positions
<1>6. next_taskid' \in Nat
  BY DEF NewGameTask, TypeOK
<1> QED BY <1>1, <1>3, <1>5, <1>6 DEF TypeOK, NewGameTask, Coding

LEMMA ShutdownStep ==
  ASSUME TypeOK, Shutdown
  PROVE  TypeOK' /\ SameIds
<1> DEFINE Closed(t) == [t EXCEPT !.timer = "closed"]
<1>1. task_list \in Seq(Task) /\ \A p \in Positions : task_list[p] \in Task
  BY DEF TypeOK, Positions
<1>2. ASSUME NEW t \in Task PROVE Closed(t) \in Task /\ Closed(t).id = t.id
  BY DEF Task
<1>3. task_list' = [p \in Positions |-> Closed(task_list[p])]
  BY DEF Shutdown
<1> HIDE DEF Closed
<1>4. task_list' \in Seq(Task) /\ Len(task_list') = Len(task_list)
  BY <1>1, <1>2, <1>3 DEF Positions
<1>5. \A q \in Positions : task_list'[q].id = task_list[q].id
  BY <1>1, <1>2, <1>3 DEF Positions
<1> QED BY <1>4, <1>5 DEF TypeOK, Shutdown, SameIds

LEMMA FinaliseStep ==
  ASSUME TypeOK, FinaliseTask
  PROVE  /\ TypeOK'
         /\ Len(task_list') = Len(task_list) - 1
         /\ \A q \in 1 .. Len(task_list) - 1 :
              task_list'[q] = task_list[q + 1]
<1>1. /\ task_list' \in Seq(Task)
      /\ Len(task_list') = Len(task_list) - 1
      /\ \A q \in 1 .. Len(task_list) - 1 : task_list'[q] = task_list[q + 1]
  BY DEF FinaliseTask, TypeOK
<1>2. task_list[1].id \in Nat
  <2>1. task_list[1] \in Task
    BY DEF FinaliseTask, TypeOK
  <2> QED BY <2>1 DEF Task
<1>3. next_taskid' \in Nat /\ fault' \in {"none", "null_stack"}
  BY <1>2 DEF FinaliseTask, RetireId, TypeOK
<1> QED BY <1>1, <1>3 DEF FinaliseTask, TypeOK

\* What the actions do to the list and the ids, in one place.
LEMMA StepCases ==
  ASSUME TypeOK, [Next]_vars
  PROVE  /\ TypeOK'
         /\ \/ SameIds
            \/ \E startin, repeatin \in Int : NewGameTask(startin, repeatin)
            \/ FinaliseTask
<1>1. ASSUME NEW startin \in Int, NEW repeatin \in Int,
             NewGameTask(startin, repeatin)
      PROVE  TypeOK'
  BY <1>1, NewStep
<1>2. ASSUME NEW s \in Schedule, NewGameTask(s[1], s[2])
      PROVE  \E startin, repeatin \in Int : NewGameTask(startin, repeatin)
  <2>1. s[1] \in Int /\ s[2] \in Int
    BY ScheduleAssumption
  <2> QED BY <1>2, <2>1
<1>3. ASSUME Stop \/ TaskReturns \/ RunInput \/ InputReturns \/ UNCHANGED vars
      PROVE  TypeOK' /\ SameIds
  BY <1>3 DEF Stop, TaskReturns, RunInput, InputReturns, vars, TypeOK, SameIds
<1> QED
  BY <1>1, <1>2, <1>3, KillStep, FireStep, TurnStep, ShutdownStep, FinaliseStep
     DEF Next

\* The task list, the id counter and the rest keep their types.
THEOREM TypeCorrect == Spec => []TypeOK
<1>1. Init => TypeOK
  BY InitTypeOK
<1>2. TypeOK /\ [Next]_vars => TypeOK'
  BY StepCases
<1> QED BY <1>1, <1>2, PTL DEF Spec

-----------------------------------------------------------------------------
(* Ids.                                                                    *)

IdInv == TypeOK /\ IdsNumbered /\ ShutdownClean

LEMMA InitIdInv == Init => IdInv
<1>1. Init => IdsNumbered /\ ShutdownClean
  BY DEF Init, IdsNumbered, ShutdownClean, Positions
<1> QED BY <1>1, InitTypeOK DEF IdInv

LEMMA NewNumbered ==
  ASSUME IdInv, NEW startin \in Int, NEW repeatin \in Int,
         NewGameTask(startin, repeatin)
  PROVE  IdsNumbered' /\ ShutdownClean'
<1>1. /\ Len(task_list') = Len(task_list) + 1
      /\ task_list'[1].id = NewId
      /\ next_taskid' = next_taskid + 1
      /\ fault' = fault
      /\ \A p \in Positions : task_list'[p + 1].id = task_list[p].id
  BY NewStep DEF IdInv
<1>2. /\ Len(task_list) \in Nat /\ next_taskid = Len(task_list)
      /\ \A p \in Positions : task_list[p].id = Len(task_list) - p
  BY DEF IdInv, TypeOK, IdsNumbered
<1>3. ASSUME NEW p \in 1 .. Len(task_list')
      PROVE  task_list'[p].id = Len(task_list') - p
  <2>1. CASE p = 1
    BY <1>1, <1>2, <2>1 DEF NewId
  <2>2. CASE p # 1
    <3>1. p - 1 \in Positions /\ p - 1 + 1 = p
      BY <1>1, <1>2, <2>2 DEF Positions
    <3>2. task_list'[p].id = task_list[p - 1].id
      BY <1>1, <3>1
    <3> QED BY <1>1, <1>2, <3>1, <3>2
  <2> QED BY <2>1, <2>2
<1> QED
  BY <1>1, <1>2, <1>3 DEF IdsNumbered, ShutdownClean, IdInv, Positions

LEMMA FinaliseNumbered ==
  ASSUME IdInv, FinaliseTask
  PROVE  IdsNumbered' /\ ShutdownClean'
<1>1. /\ Len(task_list') = Len(task_list) - 1
      /\ \A q \in 1 .. Len(task_list) - 1 : task_list'[q] = task_list[q + 1]
  BY FinaliseStep DEF IdInv
<1>2. /\ Len(task_list) \in Nat /\ next_taskid = Len(task_list)
      /\ \A p \in Positions : task_list[p].id = Len(task_list) - p
  BY DEF IdInv, TypeOK, IdsNumbered
<1>3. 1 \in Positions
  BY DEF FinaliseTask, IdInv, TypeOK, Positions
<1>4. task_list[1].id = next_taskid - 1
  BY <1>2, <1>3
<1>5. next_taskid' = next_taskid - 1 /\ fault' = fault
  BY <1>4 DEF FinaliseTask, RetireId
<1>6. ASSUME NEW q \in 1 .. Len(task_list')
      PROVE  task_list'[q].id = Len(task_list') - q
  <2>1. q + 1 \in Positions /\ task_list'[q] = task_list[q + 1]
    BY <1>1, <1>2 DEF Positions
  <2> QED BY <1>1, <1>2, <2>1
<1> QED
  BY <1>1, <1>2, <1>5, <1>6 DEF IdsNumbered, ShutdownClean, IdInv, Positions

LEMMA StepIdInv == ASSUME IdInv, [Next]_vars PROVE IdInv'
<1>1. TypeOK
  BY DEF IdInv
<1>2. CASE SameIds
  <2>1. IdsNumbered' /\ ShutdownClean'
    BY <1>2 DEF SameIds, IdInv, IdsNumbered, ShutdownClean, Positions
  <2> QED BY <1>1, <2>1, StepCases DEF IdInv
<1> QED BY <1>1, <1>2, StepCases, NewNumbered, FinaliseNumbered DEF IdInv

\* Also while tasks are made and until the last is destroyed: the ids in the
\* list are those below the counter, each the id of one task.
THEOREM IdsUnique == Spec => []IdsNumbered
<1>1. IdInv => IdsNumbered
  BY DEF IdInv
<1> QED BY <1>1, InitIdInv, StepIdInv, PTL DEF Spec

\* However many tasks there were and however they ended, finalise_tasks
\* retires each id by counting down and never writes through the null stack.
THEOREM ShutdownIsClean == Spec => []ShutdownClean
<1>1. IdInv => ShutdownClean
  BY DEF IdInv
<1> QED BY <1>1, InitIdInv, StepIdInv, PTL DEF Spec

-----------------------------------------------------------------------------
(* Killed tasks.                                                           *)

LEMMA Distinct ==
  ASSUME IdInv
  PROVE  \A p, q \in Positions : task_list[p].id = task_list[q].id => p = q
<1>1. Len(task_list) \in Nat
  BY DEF IdInv, TypeOK
<1> QED BY <1>1 DEF IdInv, IdsNumbered, Positions

\* What KilledStaysDead says of a task that is t before a step and u after it.
StaysDead(t, u) ==
  t.timer \in {"closing", "closed"} =>
    u.runs = t.runs /\ u.timer \in {"closing", "closed"}

LEMMA PlaceByPlace ==
  ASSUME IdInv, [Next]_vars, SameIds,
         \A p \in Positions : StaysDead(task_list[p], task_list'[p])
  PROVE  \A p \in Positions, q \in 1 .. Len(task_list') :
           task_list[p].id = task_list'[q].id =>
             StaysDead(task_list[p], task_list'[q])
<1> SUFFICES ASSUME NEW p \in Positions, NEW q \in 1 .. Len(task_list'),
                    task_list[p].id = task_list'[q].id
             PROVE  StaysDead(task_list[p], task_list'[q])
  OBVIOUS
<1>1. q \in Positions /\ task_list'[q].id = task_list[q].id
  BY DEF SameIds, Positions
<1>2. p = q
  BY <1>1, Distinct
<1> QED BY <1>2

LEMMA StepStaysDead ==
  ASSUME IdInv, [Next]_vars
  PROVE  \A p \in Positions, q \in 1 .. Len(task_list') :
           task_list[p].id = task_list'[q].id =>
             StaysDead(task_list[p], task_list'[q])
<1> DEFINE Stay == \A p \in Positions, q \in 1 .. Len(task_list') :
                     task_list[p].id = task_list'[q].id =>
                       StaysDead(task_list[p], task_list'[q])
           Same == \A p \in Positions : StaysDead(task_list[p], task_list'[p])
<1>0. /\ task_list \in Seq(Task) /\ Len(task_list) \in Nat
      /\ \A p \in Positions : task_list[p] \in Task
  BY DEF IdInv, TypeOK, Positions
<1>1. SameIds /\ Same => Stay
  BY PlaceByPlace
<1>2. task_list' = task_list => Stay
  BY <1>0, Distinct DEF StaysDead, Positions
<1> HIDE DEF Same
<1>3. ASSUME NEW s \in Schedule, NewGameTask(s[1], s[2]) PROVE Stay
  <2> DEFINE t == [id |-> NewId, timer |-> "active", left |-> Turns(s[1]),
                   repeat |-> Turns(s[2]), runs |-> 0]
  <2>1. s[1] \in Int /\ s[2] \in Int
    BY ScheduleAssumption
  <2>2. task_list' = <<t>> \o task_list
    BY <1>3 DEF NewGameTask
  <2>3. t \in Task
    <3>1. NewId \in Nat
      BY <1>3, <2>1, NewStep DEF IdInv
    <3>2. Turns(s[1]) \in Int /\ Turns(s[2]) \in Int
      BY <2>1 DEF Turns, Never
    <3> QED BY <3>1, <3>2 DEF Task
  <2>4. task_list'[1].id = NewId
    BY <1>3, <2>1, NewStep DEF IdInv
  <2> HIDE DEF t
  <2>5. /\ Len(task_list') = Len(task_list) + 1
        /\ \A p \in Positions : task_list'[p + 1] = task_list[p]
    BY <1>0, <2>2, <2>3 DEF Positions
  <2>6. \A p \in Positions : task_list[p].id # NewId
    BY <1>0 DEF IdInv, IdsNumbered, NewId, Positions
  <2> SUFFICES ASSUME NEW p \in Positions, NEW q \in 1 .. Len(task_list'),
                      task_list[p].id = task_list'[q].id
               PROVE  StaysDead(task_list[p], task_list'[q])
    OBVIOUS
  <2>7. q # 1
    BY <2>4, <2>6
  <2>8. q - 1 \in Positions /\ task_list'[q] = task_list[q - 1]
    BY <1>0, <2>5, <2>7 DEF Positions
  <2>9. p = q - 1
    BY <2>8, Distinct
  <2> QED BY <2>8, <2>9 DEF StaysDead
<1>4. ASSUME NEW p \in Positions, KillTask(p) PROVE Stay
  <2>1. CASE task_list[p].timer \in {"closing", "closed"}
    BY <1>2, <1>4, <2>1 DEF KillTask
  <2>2. CASE task_list[p].timer \notin {"closing", "closed"}
    <3>1. task_list' = [task_list EXCEPT ![p] =
                          [task_list[p] EXCEPT !.timer = "closing"]]
      BY <1>4, <2>2 DEF KillTask
    <3>2. Same
      BY <1>0, <2>2, <3>1 DEF Same, StaysDead, Positions
    <3> QED BY <1>1, <1>4, <3>2, KillStep DEF IdInv
  <2> QED BY <2>1, <2>2
<1>6. ASSUME NEW p \in Positions, FireTask(p) PROVE Stay
  <2>1. task_list[p].timer = "active"
    BY <1>6 DEF FireTask, Due
  <2>2. \A q \in Positions : q # p => task_list'[q] = task_list[q]
    BY <1>0, <1>6 DEF FireTask, Positions
  <2>3. Same
    BY <2>1, <2>2 DEF Same, StaysDead
  <2> QED BY <1>1, <1>6, <2>3, FireStep DEF IdInv
<1>7. ASSUME EndTurn PROVE Stay
  <2> DEFINE After(t) == [t EXCEPT !.timer = IF @ = "closing" THEN "closed" ELSE @,
                                   !.left = IF @ > 0 THEN @ - 1 ELSE @]
  <2>1. task_list' = [p \in Positions |-> After(task_list[p])]
    BY <1>7 DEF EndTurn
  <2>2. ASSUME NEW t \in Task PROVE StaysDead(t, After(t))
    <3> DEFINE timer == IF t.timer = "closing" THEN "closed" ELSE t.timer
               left == IF t.left > 0 THEN t.left - 1 ELSE t.left
    <3>1. After(t) = [t EXCEPT !.timer = timer, !.left = left]
      OBVIOUS
    <3>2. t.timer \in {"closing", "closed"} => timer \in {"closing", "closed"}
      OBVIOUS
    <3> HIDE DEF After, timer, left
    <3>3. After(t).timer = timer /\ After(t).runs = t.runs
      BY <3>1 DEF Task
    <3> QED BY <3>2, <3>3 DEF StaysDead
  <2> HIDE DEF After
  <2>3. Same
    BY <1>0, <2>1, <2>2 DEF Same
  <2> QED BY <1>1, <1>7, <2>3, TurnStep DEF IdInv
<1>8. CASE Shutdown
  <2>1. \A p \in Positions : task_list'[p] = [task_list[p] EXCEPT !.timer = "closed"]
    BY <1>8 DEF Shutdown
  <2>2. Same
    BY <1>0, <2>1 DEF Same, StaysDead, Task
  <2> QED BY <1>1, <1>8, <2>2, ShutdownStep DEF IdInv
<1>9. CASE FinaliseTask
  <2>1. /\ Len(task_list') = Len(task_list) - 1
        /\ \A q \in 1 .. Len(task_list) - 1 : task_list'[q] = task_list[q + 1]
    BY <1>9, FinaliseStep DEF IdInv
  <2> SUFFICES ASSUME NEW p \in Positions, NEW q \in 1 .. Len(task_list'),
                      task_list[p].id = task_list'[q].id
               PROVE  StaysDead(task_list[p], task_list'[q])
    OBVIOUS
  <2>2. q + 1 \in Positions /\ task_list'[q] = task_list[q + 1]
    BY <1>0, <2>1 DEF Positions
  <2>3. p = q + 1
    BY <2>2, Distinct
  <2> QED BY <2>2, <2>3 DEF StaysDead
<1>10. CASE Stop \/ TaskReturns \/ RunInput \/ InputReturns \/ UNCHANGED vars
  BY <1>2, <1>10 DEF Stop, TaskReturns, RunInput, InputReturns, vars
<1> QED
  BY <1>3, <1>4, <1>6, <1>7, <1>8, <1>9, <1>10 DEF Next

\* A task that was killed is never run again, whoever killed it and whatever is
\* made, destroyed or freed meanwhile: its id leads to no other task.
THEOREM DeadStaysDead == Spec => KilledStaysDead
<1>1. Init => IdInv
  BY InitIdInv
<1>2. IdInv /\ [Next]_vars => IdInv'
  BY StepIdInv
<1> DEFINE Stay == \A p \in Positions, q \in 1 .. Len(task_list') :
                     /\ task_list[p].id = task_list'[q].id
                     /\ task_list[p].timer \in {"closing", "closed"}
                     => /\ task_list'[q].runs = task_list[p].runs
                        /\ task_list'[q].timer \in {"closing", "closed"}
<1>3. IdInv /\ [Next]_vars => [Stay]_vars
  BY StepStaysDead DEF StaysDead
<1>4. Spec => [][Stay]_vars
  <2> HIDE DEF Stay
  <2> QED BY <1>1, <1>2, <1>3, PTL DEF Spec
<1> QED BY <1>4 DEF KilledStaysDead

=============================================================================
