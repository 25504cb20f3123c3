------------------------------- MODULE Tasks -------------------------------
(***************************************************************************)
(* Game tasks (src/task.c and the task library of src/libcall.c): the list *)
(* of tasks, the ids they are given, and their libuv timers.               *)
(*                                                                         *)
(* A turn of the loop fires the timers that are due, each of which runs    *)
(* game code ("task"), then runs the input item ("input"), then lets time  *)
(* pass and completes the closing of timers ("turn").  After uv_stop the   *)
(* turn is finished, everything is closed ("down") and memory is freed.    *)
(* Time is counted in turns of the loop.                                   *)
(*                                                                         *)
(* Nothing calls init_tasks, so ids begin with 0 and the stack of retired  *)
(* ids is what the loader made it: a null pointer of capacity 0, which     *)
(* doubling does not change.  An id pushed on it is written through null.  *)
(* Nor does anything but finalise_tasks destroy a task.                    *)
(***************************************************************************)
EXTENDS Integers, Sequences

CONSTANTS
  Schedule,     \* the pairs of intervals, until the start and between repeats,
                \* that game code asks for; they may be negative
  MaxTasks,     \* bound: tasks in the list
  Careless      \* what else game code does, see below

(* "kill_again": it kills a task that was killed before                    *)
Liberty == {"kill_again"}

ASSUME ScheduleAssumption == Schedule \subseteq Int \X Int
ASSUME TasksAssumption == MaxTasks \in Nat /\ Careless \subseteq Liberty

Never == -1     \* a timer whose time does not come
IdRange == 0 .. MaxTasks - 1

VARIABLES
  phase,        \* where the event loop is
  task_list,    \* the list, newest first
  next_taskid,
  stopping,     \* uv_stop was called
  fault         \* "none", or what was done to a closed timer or through null

vars == <<phase, task_list, next_taskid, stopping, fault>>

(* A task: its id; the state of its uv_timer_t ("active" until it has      *)
(* fired, "closing" after uv_close, "closed" after the closing callbacks); *)
(* the turns left before it fires; the repeat interval; and, as history,   *)
(* how often it was run, counted up to 2.                                  *)
Task == [id : Nat, timer : {"active", "idle", "closing", "closed"},
         left : Int, repeat : Int, runs : 0 .. 2]

Init ==
  /\ phase = "input"      \* the boot item may create tasks
  /\ task_list = <<>>
  /\ next_taskid = 0
  /\ stopping = FALSE
  /\ fault = "none"

-----------------------------------------------------------------------------

Positions == 1 .. Len(task_list)

\* find_task_by_id stops at position p of the list.
Finds(p, id) ==
  /\ task_list[p].id = id
  /\ \A q \in 1 .. p - 1 : task_list[q].id # id

\* Mutant: the id is what the counter becomes.
NewIdAfter == next_taskid + 1

\* new_task_id: no id waits on the stack.
NewId == next_taskid

\* retire_task_id: the shortcut, or a push on the stack there is not.
RetireId(id) ==
  IF id = next_taskid - 1
  THEN next_taskid' = next_taskid - 1 /\ UNCHANGED fault
  ELSE fault' = "null_stack" /\ UNCHANGED next_taskid

\* uv_timer_start is given the interval as a uint64_t: a negative one is
\* further in the future than the loop's clock goes.
Turns(interval) == IF interval < 0 THEN Never ELSE interval

Coding == fault = "none" /\ phase \in {"task", "input"}

-----------------------------------------------------------------------------
(* What game code does.                                                    *)

\* lc_task_newgametask, make_task.  The arguments are valid and the item
\* exists; otherwise nothing is changed here.
NewGameTask(startin, repeatin) ==
  /\ Coding
  /\ Len(task_list) < MaxTasks
  /\ next_taskid' = next_taskid + 1
  /\ task_list' = <<[id |-> NewId, timer |-> "active", left |-> Turns(startin),
                     repeat |-> Turns(repeatin), runs |-> 0]>> \o task_list
  /\ UNCHANGED <<phase, stopping, fault>>

\* lc_task_killtask of an id that find_task_by_id finds.  The task stays in
\* the list and keeps its id.  uv_close must not be called twice.
KillTask(p) ==
  /\ Coding
  /\ Finds(p, task_list[p].id)
  /\ IF task_list[p].timer \in {"closing", "closed"}
     THEN /\ "kill_again" \in Careless
          /\ fault' = "closed_twice"
          /\ UNCHANGED task_list
     ELSE /\ task_list' = [task_list EXCEPT ![p].timer = "closing"]
          /\ UNCHANGED fault
  /\ UNCHANGED <<phase, next_taskid, stopping>>

\* sys.shutdown and sys.abort: uv_stop.
Stop ==
  /\ Coding
  /\ ~stopping
  /\ stopping' = TRUE
  /\ UNCHANGED <<phase, task_list, next_taskid, fault>>

-----------------------------------------------------------------------------
(* The event loop.                                                         *)

\* Mutants: closing a timer does not stop it; timers that do not repeat are
\* not started; a timer whose time never comes is always due.
DueClosed(t) == t.timer # "idle" /\ t.left = 0
DueRepeating(t) == t.timer = "active" /\ t.left = 0 /\ t.repeat # 0
DueNever(t) == t.timer = "active" /\ t.left <= 0

Due(t) == t.timer = "active" /\ t.left = 0

\* uv_timer_again: a repeating timer is armed again before its callback runs.
Rearmed(t) == [t EXCEPT !.timer = IF t.repeat = 0 THEN "idle" ELSE "active",
                        !.left = IF t.repeat = 0 THEN Never ELSE t.repeat]

\* uv__run_timers calls execute_task_cb.
FireTask(p) ==
  /\ fault = "none"
  /\ phase = "timers"
  /\ Due(task_list[p])
  /\ task_list' = [task_list EXCEPT ![p] =
       [Rearmed(task_list[p]) EXCEPT !.runs = IF @ = 2 THEN 2 ELSE @ + 1]]
  /\ phase' = "task"
  /\ UNCHANGED <<next_taskid, stopping, fault>>

\* The task's code returns; other timers may be due.
TaskReturns ==
  /\ fault = "none"
  /\ phase = "task"
  /\ phase' = "timers"
  /\ UNCHANGED <<task_list, next_taskid, stopping, fault>>

RunInput ==
  /\ fault = "none"
  /\ phase = "timers"
  /\ \A p \in Positions : ~Due(task_list[p])
  /\ phase' = "input"
  /\ UNCHANGED <<task_list, next_taskid, stopping, fault>>

InputReturns ==
  /\ fault = "none"
  /\ phase = "input"
  /\ phase' = "turn"
  /\ UNCHANGED <<task_list, next_taskid, stopping, fault>>

\* Time passes, and the closing of timers is completed.
EndTurn ==
  /\ fault = "none"
  /\ phase = "turn"
  /\ task_list' = [p \in Positions |->
       LET t == task_list[p]
       IN  [t EXCEPT !.timer = IF @ = "closing" THEN "closed" ELSE @,
                     !.left = IF @ > 0 THEN @ - 1 ELSE @]]
  /\ phase' = IF stopping THEN "down" ELSE "timers"
  /\ UNCHANGED <<next_taskid, stopping, fault>>

\* main: uv_walk with close_all_tasks closes what is not closing, and uv_run
\* completes that.
Shutdown ==
  /\ fault = "none"
  /\ phase = "down"
  /\ task_list' = [p \in Positions |-> [task_list[p] EXCEPT !.timer = "closed"]]
  /\ phase' = "finalise"
  /\ UNCHANGED <<next_taskid, stopping, fault>>

\* The loop of finalise_tasks.
FinaliseTask ==
  /\ fault = "none"
  /\ phase = "finalise"
  /\ task_list # <<>>
  /\ RetireId(task_list[1].id)
  /\ task_list' = Tail(task_list)
  /\ UNCHANGED <<phase, stopping>>

Next ==
  \/ \E s \in Schedule : NewGameTask(s[1], s[2])
  \/ \E p \in Positions : KillTask(p) \/ FireTask(p)
  \/ Stop
  \/ TaskReturns
  \/ RunInput
  \/ InputReturns
  \/ EndTurn
  \/ Shutdown
  \/ FinaliseTask

Spec == Init /\ [][Next]_vars

\* uv_run goes on: code returns, due timers fire, turns end; and so does main.
Fairness ==
  /\ WF_vars(\E p \in Positions : FireTask(p))
  /\ WF_vars(TaskReturns)
  /\ WF_vars(RunInput)
  /\ WF_vars(InputReturns)
  /\ WF_vars(EndTurn)
  /\ WF_vars(Shutdown)
  /\ WF_vars(FinaliseTask)

FairSpec == Spec /\ Fairness

-----------------------------------------------------------------------------
(* Properties.                                                             *)

TypeOK ==
  /\ phase \in {"timers", "task", "input", "turn", "down", "finalise"}
  /\ task_list \in Seq(Task)
  /\ next_taskid \in Nat
  /\ stopping \in BOOLEAN
  /\ fault \in {"none", "closed_twice", "null_stack"}

\* An id leads find_task_by_id to the one task it was given to: the listed ids
\* are those below next_taskid, each once, the newest first (make_task,
\* new_task_id).
IdsNumbered ==
  /\ next_taskid = Len(task_list)
  /\ \A p \in Positions : task_list[p].id = Len(task_list) - p

\* finalise_tasks destroys the tasks in an order in which each id is the last
\* one given, so retire_task_id never comes to write through the stack of ids
\* that was never allocated (and that finalise_tasks frees before its loop).
ShutdownClean == fault # "null_stack"

\* A task that does not repeat is run at most once.
OneShotOnce ==
  \A p \in Positions : task_list[p].repeat = 0 => task_list[p].runs <= 1

\* A task that was killed is not run any more, also when it is killed by its
\* own code or by that of a task that was due at the same time.
KilledStaysDead ==
  [][\A p \in Positions, q \in 1 .. Len(task_list') :
       /\ task_list[p].id = task_list'[q].id
       /\ task_list[p].timer \in {"closing", "closed"}
       => /\ task_list'[q].runs = task_list[p].runs
          /\ task_list'[q].timer \in {"closing", "closed"}]_vars

\* A task with a start time is run, or killed, or the engine stops first.
TasksRun ==
  \A i \in IdRange :
    (\E p \in Positions : task_list[p].id = i /\ task_list[p].left >= 0)
      ~> \/ stopping
         \/ \E p \in Positions : task_list[p].id = i /\ task_list[p].runs > 0
         \/ \A p \in Positions : task_list[p].id = i =>
                                   task_list[p].timer # "active"

\* Once the engine stops, every task is freed and main ends.
ShutdownEnds ==
  stopping ~> phase = "finalise" /\ task_list = <<>>

(* What the documentation says, checked by runs that find it violated.     *)

\* "If the task does not exist, the libcall fails silently.  Otherwise, the
\* task is removed from the list of scheduled tasks", Concepts.md:103: a
\* second kill is harmless.
KillTwiceIsSilent == fault # "closed_twice"

\* "If both the second and third arguments evaluate to 0, the item will not
\* be executed, and no task will be created", Concepts.md:102.
NoTaskForZeroes ==
  [][Len(task_list') > Len(task_list) =>
       task_list'[1].left # 0 \/ task_list'[1].repeat # 0]_vars

=============================================================================
