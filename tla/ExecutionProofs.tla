-------------------------- MODULE ExecutionProofs --------------------------
(***************************************************************************)
(* What holds of Execution for every tree, depth and number of blocks.     *)
(***************************************************************************)
EXTENDS Execution, SequenceTheorems, TLAPS

Frame == [item : Path, code : Code] \cup {Boot}

-----------------------------------------------------------------------------
(* Paths.                                                                  *)

LEMMA AboveSelf == \A p \in Path : p \in Above(p) /\ p \in Below(p)
<1> SUFFICES ASSUME NEW p \in Path PROVE p \in Above(p)
  BY DEF Below
<1>1. p \in Seq(STRING) /\ p # <<>>
  BY PathAssumption
<1>2. Len(p) \in 1 .. Len(p) /\ SubSeq(p, 1, Len(p)) = p
  BY <1>1, SubSeqFull, EmptySeq
<1> QED BY <1>2 DEF Above

LEMMA AboveTransitive ==
  ASSUME NEW p \in Path, NEW q \in Above(p), NEW r \in Above(q)
  PROVE  r \in Above(p)
<1>1. p \in Seq(STRING)
  BY PathAssumption
<1>2. PICK n \in 1 .. Len(p) : q = SubSeq(p, 1, n)
  BY DEF Above
<1>3. Len(q) = n
  BY <1>1, <1>2
<1>4. PICK m \in 1 .. n : r = SubSeq(q, 1, m)
  BY <1>3 DEF Above
<1>5. r = SubSeq(p, 1, m)
  BY <1>1, <1>2, <1>4
<1>6. m \in 1 .. Len(p)
  BY <1>1, <1>2, <1>4
<1> QED BY <1>5, <1>6 DEF Above

-----------------------------------------------------------------------------
(* Types.                                                                  *)

LEMMA LayersType ==
  ASSUME TypeOK, NEW p \in Path
  PROVE  /\ WithLayers(p) \in [Path -> Item]
         /\ \A q \in Path : WithLayers(p)[q] = tree[q] \/ WithLayers(p)[q] = Value
<1>1. Value \in Item
  BY DEF Value, Item
<1> QED BY <1>1 DEF WithLayers, TypeOK

LEMMA EnterType ==
  ASSUME TypeOK, NEW p \in Path, NEW b \in BOOLEAN
  PROVE  [tree EXCEPT ![p].inuse = b] \in [Path -> Item]
<1>1. [tree[p] EXCEPT !.inuse = b] \in Item
  BY DEF TypeOK, Item
<1> QED BY <1>1 DEF TypeOK

LEMMA PushType ==
  ASSUME TypeOK, NEW p \in Path, tree[p].code \in heap
  PROVE  /\ [item |-> p, code |-> tree[p].code] \in Frame
         /\ Append(frames, [item |-> p, code |-> tree[p].code]) \in Seq(Frame)
         /\ <<[item |-> p, code |-> tree[p].code]>> \in Seq(Frame)
<1>1. [item |-> p, code |-> tree[p].code] \in Frame
  BY DEF TypeOK, Frame
<1>2. frames \in Seq(Frame)
  BY DEF TypeOK, Frame
<1> HIDE DEF Frame
<1> QED BY <1>1, <1>2

LEMMA PopFrame ==
  ASSUME TypeOK, Return
  PROVE  /\ frames' \in Seq(Frame)
         /\ Len(frames) \in Nat \ {0}
         /\ Len(frames') = Len(frames) - 1
         /\ \A i \in 1 .. Len(frames) - 1 : frames'[i] = frames[i]
         /\ Top.item \in Path
<1>1. frames \in Seq(Frame) /\ frames # <<>>
  BY DEF TypeOK, Frame, Return, Coding
<1>2. Len(frames) \in Nat \ {0} /\ Top \in Frame
  BY <1>1, EmptySeq DEF Top
<1>3. Top.item \in Path
  BY <1>2 DEF Frame, Return
<1>4. Len(frames) - 1 \in 0 .. Len(frames)
  BY <1>2
<1>5. ASSUME NEW k \in 0 .. Len(frames)
      PROVE  /\ SubSeq(frames, 1, k) \in Seq(Frame)
             /\ Len(SubSeq(frames, 1, k)) = k
             /\ \A i \in 1 .. k : SubSeq(frames, 1, k)[i] = frames[i]
  <2> HIDE DEF Frame
  <2> QED BY <1>1
<1>6. frames' = SubSeq(frames, 1, Len(frames) - 1)
  BY DEF Return
<1> QED BY <1>2, <1>3, <1>4, <1>5, <1>6

LEMMA StepTypeOK == ASSUME TypeOK, [Next]_vars PROVE TypeOK'
<1>0. frames \in Seq(Frame) /\ <<Boot>> \in Seq(Frame) /\ <<>> \in Seq(Frame)
  BY DEF TypeOK, Frame
<1>1. ASSUME NEW p \in Path, Delete(p) PROVE TypeOK'
  <2>1. Absent \in Item
    BY DEF Absent, Item
  <2> QED BY <1>1, <2>1 DEF Delete, Coding, TypeOK
<1>2. ASSUME NEW p \in Path, AssignValue(p) PROVE TypeOK'
  BY <1>2, LayersType DEF AssignValue, Coding, TypeOK, Freed
<1>3. ASSUME NEW p \in Path, AssignCodeInUse(p) \/ AssignCodeFails(p)
      PROVE  TypeOK'
  BY <1>3 DEF AssignCodeInUse, AssignCodeFails, TypeOK
<1>4. ASSUME NEW p \in Path, NEW c \in Code, AssignCode(p, c) PROVE TypeOK'
  <2> DEFINE t == WithLayers(p)
  <2>1. t \in [Path -> Item]
    BY LayersType
  <2>2. tree' = [t EXCEPT ![p].type = "code", ![p].code = c]
    BY <1>4 DEF AssignCode
  <2> HIDE DEF t
  <2>3. [t[p] EXCEPT !.type = "code", !.code = c] \in Item
    BY <2>1 DEF Item
  <2>4. tree' \in [Path -> Item]
    BY <2>1, <2>2, <2>3
  <2> QED BY <1>4, <2>4 DEF AssignCode, Replaced, Freed, TypeOK
<1>5. ASSUME NEW p \in Path, Fetch(p) PROVE TypeOK'
  <2>1. tree' \in [Path -> Item]
    BY <1>5, EnterType DEF Fetch, Enter
  <2>2. frames' \in Seq(Frame)
    BY <1>5, PushType DEF Fetch
  <2> QED BY <1>5, <2>1, <2>2 DEF Fetch, TypeOK, Frame
<1>6. ASSUME NEW p \in Path, FetchFreed(p) \/ FetchTooDeep(p) PROVE TypeOK'
  BY <1>6, <1>0 DEF FetchFreed, FetchTooDeep, Raise, Coding, TypeOK, Frame
<1>7. ASSUME NEW p \in Path, RunTask(p) \/ (RunInput /\ p = Input)
      PROVE  TypeOK'
  <2>0. Start(p) /\ Idle
    BY <1>7 DEF RunTask, RunInput
  <2>1. CASE tree[p].code \in heap
    <3>1. tree' \in [Path -> Item]
      BY <2>0, <2>1, EnterType DEF Start, Enter
    <3>2. frames' \in Seq(Frame)
      BY <2>0, <2>1, PushType DEF Start
    <3> QED BY <2>0, <2>1, <3>1, <3>2 DEF Start, TypeOK, Frame
  <2>2. CASE tree[p].code \notin heap
    BY <2>0, <2>2 DEF Start, TypeOK
  <2> QED BY <2>1, <2>2
<1>8. ASSUME Return PROVE TypeOK'
  <2>1. tree' \in [Path -> Item]
    BY <1>8, PopFrame, EnterType DEF Return, Leave
  <2> QED BY <1>8, <2>1, PopFrame DEF Return, TypeOK, Frame
<1>9. ASSUME BootReturns \/ NoInput PROVE TypeOK'
  BY <1>9, <1>0 DEF BootReturns, NoInput, TypeOK, Frame
<1>10. ASSUME UNCHANGED vars PROVE TypeOK'
  BY <1>10 DEF vars, TypeOK
<1>11. Input \in Path
  BY PathAssumption
<1> QED BY <1>1, <1>2, <1>3, <1>4, <1>5, <1>6, <1>7, <1>8, <1>9, <1>10, <1>11
        DEF Next

LEMMA InitTypeOK == Init => TypeOK
<1> SUFFICES ASSUME Init PROVE TypeOK
  OBVIOUS
<1>1. Absent \in Item
  BY DEF Absent, Item
<1>2. <<Boot>> \in Seq([item : Path, code : Code] \cup {Boot})
  OBVIOUS
<1> QED BY <1>1, <1>2 DEF Init, TypeOK

\* The tree, the blocks and the calls keep their types.
THEOREM TypeCorrect == Spec => []TypeOK
<1>1. TypeOK /\ [Next]_vars => TypeOK'
  BY StepTypeOK
<1> QED BY InitTypeOK, <1>1, PTL DEF Spec

-----------------------------------------------------------------------------
(* The shape of the tree.                                                  *)

LEMMA LayersStep ==
  ASSUME TypeOK, LayersAbove, [Next]_vars
  PROVE  LayersAbove'
<1>0. \A p \in Path : Above(p) \subseteq Path
  BY PathAssumption
<1>1. ASSUME NEW p \in Path, Delete(p) PROVE LayersAbove'
  <2> SUFFICES ASSUME NEW q \in Path, Present(q)', NEW r \in Above(q)
               PROVE  Present(r)'
    BY DEF LayersAbove
  <2>1. q \notin Below(p) /\ Present(q) /\ r \in Path
    BY <1>0, <1>1 DEF Delete, Present, Absent
  <2>2. Present(r)
    BY <2>1 DEF LayersAbove
  <2>3. r \notin Below(p)
    BY <2>1, AboveTransitive DEF Below
  <2> QED BY <1>1, <2>1, <2>2, <2>3 DEF Delete, Present
<1>2. ASSUME NEW p \in Path,
             \A q \in Path : Present(q)' <=> Present(q) \/ q \in Above(p)
      PROVE  LayersAbove'
  <2> SUFFICES ASSUME NEW q \in Path, Present(q) \/ q \in Above(p),
                      NEW r \in Above(q)
               PROVE  Present(r)'
    BY <1>2 DEF LayersAbove
  <2>1. r \in Path
    BY <1>0
  <2>2. Present(r) \/ r \in Above(p)
    BY AboveTransitive DEF LayersAbove
  <2> QED BY <1>2, <2>1, <2>2
<1>3. ASSUME NEW p \in Path
      PROVE  \A q \in Path : WithLayers(p)[q].type # "absent" <=>
                               Present(q) \/ q \in Above(p)
  BY DEF WithLayers, Present, Value
<1>4. ASSUME NEW p \in Path, AssignValue(p) PROVE LayersAbove'
  <2>1. tree' = WithLayers(p)
    BY <1>4 DEF AssignValue
  <2> QED BY <1>2, <1>3, <2>1 DEF Present
<1>5. ASSUME NEW p \in Path, NEW c \in Code, AssignCode(p, c)
      PROVE  LayersAbove'
  <2>1. tree' = [WithLayers(p) EXCEPT ![p].type = "code", ![p].code = c]
    BY <1>5 DEF AssignCode
  <2>2. WithLayers(p) \in [Path -> Item]
    BY LayersType
  <2>3. \A q \in Path : tree'[q].type = IF q = p THEN "code"
                                                 ELSE WithLayers(p)[q].type
    BY <2>1, <2>2 DEF Item
  <2>4. p \in Above(p)
    BY AboveSelf
  <2> QED BY <1>2, <1>3, <2>3, <2>4 DEF Present
<1>6. ASSUME \A q \in Path : tree'[q].type = tree[q].type PROVE LayersAbove'
  BY <1>0, <1>6 DEF LayersAbove, Present
<1>7. ASSUME NEW p \in Path, NEW b \in BOOLEAN,
             tree' = [tree EXCEPT ![p].inuse = b]
      PROVE  \A q \in Path : tree'[q].type = tree[q].type
  BY <1>7 DEF TypeOK, Item
<1>8. ASSUME NEW p \in Path, Fetch(p) \/ RunTask(p) \/ (RunInput /\ p = Input)
      PROVE  LayersAbove'
  <2>1. tree' = tree \/ Enter(p)
    BY <1>8 DEF Fetch, RunTask, RunInput, Start
  <2> QED BY <1>6, <1>7, <2>1 DEF Enter
<1>9. ASSUME Return PROVE LayersAbove'
  <2>1. tree' = [tree EXCEPT ![Top.item].inuse = FALSE] /\ Top.item \in Path
    BY <1>9, PopFrame DEF Return, Leave
  <2> QED BY <1>6, <1>7, <2>1
<1>10. ASSUME UNCHANGED tree PROVE LayersAbove'
  BY <1>6, <1>10
<1>11. Input \in Path
  BY PathAssumption
<1> QED BY <1>1, <1>4, <1>5, <1>8, <1>9, <1>10, <1>11
        DEF Next, vars, AssignCodeInUse, AssignCodeFails, FetchFreed,
            FetchTooDeep,
            BootReturns, NoInput

\* An item never loses a layer above it, whatever game code does.
THEOREM TreeIsClosed == Spec => []LayersAbove
<1>1. Init => LayersAbove
  BY DEF Init, LayersAbove, Present, Absent
<1>2. TypeOK /\ LayersAbove /\ [Next]_vars => LayersAbove'
  BY LayersStep
<1> QED BY TypeCorrect, <1>1, <1>2, PTL DEF Spec

-----------------------------------------------------------------------------
(* Ordinary play.                                                          *)

\* No item is executed twice at a time.
Distinct ==
  \A i, j \in 1 .. Len(frames) : frames[i].item = frames[j].item => i = j

\* The boot item is called by main only.
BootFirst == \A i \in 1 .. Len(frames) : frames[i] = Boot => i = 1

Safe == /\ Distinct /\ BootFirst /\ RunningCodeIsLive /\ RunningIsInUse /\ InUseIsRunning
        /\ CodeOwned

\* What the discipline excludes; an input item that holds a value is no harm
\* to the others.
Ordinary == Careless \subseteq {"input"}

LEMMA RunningHasCode ==
  ASSUME TypeOK, Safe, NEW i \in 1 .. Len(frames), frames[i] # Boot
  PROVE  /\ frames[i].item \in Path
         /\ frames[i].code \in heap
         /\ tree[frames[i].item].code = frames[i].code
         /\ IsCode(frames[i].item)
         /\ tree[frames[i].item].inuse
<1>1. frames[i] \in Frame
  BY DEF TypeOK, Frame
<1>2. frames[i].item \in Path /\ frames[i].code \in Code
  BY <1>1 DEF Frame
<1>3. Running(frames[i].item)
  BY DEF Running
<1>4. frames[i].code # NoCode
  BY <1>2, ExecutionAssumption DEF NoCode
<1> QED BY <1>2, <1>3, <1>4
        DEF Safe, RunningCodeIsLive, RunningIsInUse, CodeOwned

LEMMA BootNotInPath == Boot.item \notin Path
  BY PathAssumption DEF Boot

\* A step that leaves the calls alone is safe if it keeps the code and the
\* marks of the items that are executed.
LEMMA SameFrames ==
  ASSUME TypeOK, Safe, UNCHANGED frames, CodeOwned',
         \A p \in Path : Running(p) =>
           /\ tree'[p].code = tree[p].code
           /\ tree'[p].inuse
           /\ tree[p].code \in heap => tree[p].code \in heap',
         \A p \in Path : tree'[p].inuse => tree[p].inuse
  PROVE  Safe'
<1>1. ASSUME NEW i \in 1 .. Len(frames), frames[i] # Boot
      PROVE  /\ frames[i].code \in heap'
             /\ tree'[frames[i].item].code = frames[i].code
  <2>1. /\ frames[i].item \in Path
        /\ frames[i].code \in heap
        /\ tree[frames[i].item].code = frames[i].code
    BY <1>1, RunningHasCode
  <2>2. Running(frames[i].item)
    BY DEF Running
  <2> QED BY <2>1, <2>2
<1>2. Distinct' /\ BootFirst' /\ RunningCodeIsLive'
  BY <1>1 DEF Safe, Distinct, BootFirst, RunningCodeIsLive
<1>3. RunningIsInUse' /\ InUseIsRunning'
  BY DEF Safe, RunningIsInUse, InUseIsRunning, Running
<1> QED BY <1>2, <1>3 DEF Safe

LEMMA DeleteSafe ==
  ASSUME Ordinary, TypeOK, Safe, NEW p \in Path, Delete(p)
  PROVE  Safe'
<1>1. /\ heap' = heap \ {tree[q].code : q \in Below(p)}
      /\ tree' = [q \in Path |-> IF q \in Below(p) THEN Absent ELSE tree[q]]
      /\ UNCHANGED frames
  BY DEF Delete
<1>2. \A q \in Path : Running(q) => q \notin Below(p)
  <2>1. ~Running(p)
    BY DEF Delete, Deletable, Safe, RunningIsInUse
  <2>2. \A q \in Below(p) \ {p} : ~Running(q)
    BY DEF Ordinary, Delete
  <2> QED BY <2>1, <2>2
<1>3. \A q \in Path : IsCode(q)' <=> IsCode(q) /\ q \notin Below(p)
  BY <1>1 DEF IsCode, Absent
<1>4. \A q \in Path : q \notin Below(p) => tree'[q] = tree[q]
  BY <1>1
<1>5. \A q \in Path : q \in Below(p) => tree'[q].code = NoCode
  BY <1>1 DEF Absent
<1>6. CodeOwned'
  <2>1. \A q \in Path : IsCode(q)' <=> tree'[q].code # NoCode
    BY <1>3, <1>4, <1>5 DEF Safe, CodeOwned
  <2>2. \A q, r \in Path : IsCode(q)' /\ tree'[q].code = tree'[r].code => q = r
    BY <1>3, <1>4, <1>5, <2>1 DEF Safe, CodeOwned
  <2>3. heap' = {tree'[q].code : q \in {r \in Path : IsCode(r)'}}
    <3>1. ASSUME NEW c \in heap'
          PROVE  \E q \in Path : IsCode(q)' /\ tree'[q].code = c
      <4>1. PICK q \in Path : IsCode(q) /\ tree[q].code = c
        BY <1>1 DEF Safe, CodeOwned
      <4>2. q \notin Below(p)
        BY <1>1, <4>1
      <4> QED BY <1>3, <1>4, <4>1, <4>2
    <3>2. ASSUME NEW q \in Path, IsCode(q)' PROVE tree'[q].code \in heap'
      <4>1. IsCode(q) /\ q \notin Below(p) /\ tree'[q].code = tree[q].code
        BY <1>3, <1>4, <3>2
      <4>2. tree[q].code \in heap
        BY <4>1 DEF Safe, CodeOwned
      <4>3. \A r \in Below(p) : tree[r].code # tree[q].code
        BY <4>1 DEF Safe, CodeOwned, Below
      <4> QED BY <1>1, <4>1, <4>2, <4>3
    <3> QED BY <3>1, <3>2
  <2> QED BY <2>1, <2>2, <2>3 DEF CodeOwned, IsCode
<1>7. \A q \in Path : Running(q) =>
        /\ tree'[q].code = tree[q].code
        /\ tree'[q].inuse
        /\ tree[q].code \in heap => tree[q].code \in heap'
  <2> SUFFICES ASSUME NEW q \in Path, Running(q)
               PROVE  /\ tree'[q] = tree[q]
                      /\ tree[q].inuse
                      /\ tree[q].code \in heap'
    OBVIOUS
  <2>1. PICK i \in 1 .. Len(frames) : frames[i].item = q
    BY DEF Running
  <2>2. frames[i] # Boot
    BY <2>1, BootNotInPath
  <2>3. IsCode(q) /\ tree[q].inuse
    BY <2>1, <2>2, RunningHasCode
  <2>4. q \notin Below(p) /\ tree'[q] = tree[q]
    BY <1>2, <1>4
  <2>5. tree[q].code \in heap
    BY <2>3 DEF Safe, CodeOwned
  <2>6. \A r \in Below(p) : tree[r].code # tree[q].code
    BY <2>3, <2>4 DEF Safe, CodeOwned, Below
  <2> QED BY <1>1, <2>3, <2>4, <2>5, <2>6
<1>8. \A q \in Path : tree'[q].inuse => tree[q].inuse
  BY <1>1 DEF Absent
<1> QED BY <1>1, <1>6, <1>7, <1>8, SameFrames

LEMMA LayersOwned ==
  ASSUME TypeOK, Safe, NEW p \in Path
  PROVE  \A q \in Path :
           /\ WithLayers(p)[q].code = tree[q].code
           /\ (WithLayers(p)[q].type = "code") <=> IsCode(q)
           /\ WithLayers(p)[q].inuse <=> tree[q].inuse
<1> SUFFICES ASSUME NEW q \in Path, ~Present(q)
             PROVE  tree[q].code = NoCode /\ ~IsCode(q) /\ ~tree[q].inuse
  BY DEF WithLayers, Value, IsCode, Present
<1>1. ~IsCode(q) /\ tree[q].code = NoCode
  BY DEF Safe, CodeOwned, IsCode, Present
<1>2. ASSUME tree[q].inuse PROVE FALSE
  <2>1. PICK i \in 1 .. Len(frames) : frames[i].item = q
    BY <1>2 DEF Safe, InUseIsRunning, Running
  <2> QED BY <1>1, <2>1, BootNotInPath, RunningHasCode
<1> QED BY <1>1, <1>2

LEMMA AssignValueSafe ==
  ASSUME Ordinary, TypeOK, Safe, NEW p \in Path, AssignValue(p)
  PROVE  Safe'
<1>1. tree' = WithLayers(p) /\ UNCHANGED <<heap, frames>>
  BY DEF AssignValue, Ordinary
<1>2. \A q \in Path : /\ tree'[q].code = tree[q].code
                      /\ IsCode(q)' <=> IsCode(q)
                      /\ tree'[q].inuse <=> tree[q].inuse
  BY <1>1, LayersOwned DEF IsCode
<1>3. CodeOwned'
  <2>1. heap' = {tree[q].code : q \in {r \in Path : IsCode(r)}}
    BY <1>1 DEF Safe, CodeOwned
  <2>2. heap' = {tree'[q].code : q \in {r \in Path : IsCode(r)'}}
    BY <1>2, <2>1
  <2> QED BY <1>2, <2>2 DEF Safe, CodeOwned
<1> QED BY <1>1, <1>2, <1>3, SameFrames DEF Safe, RunningIsInUse

LEMMA AssignCodeSafe ==
  ASSUME TypeOK, Safe, NEW p \in Path, NEW c \in Code, AssignCode(p, c)
  PROVE  Safe'
<1>1. /\ tree' = [WithLayers(p) EXCEPT ![p].type = "code", ![p].code = c]
      /\ heap' = (heap \ {tree[p].code}) \cup {c}
      /\ UNCHANGED frames
      /\ ~tree[p].inuse
      /\ c \in Unused
  BY DEF AssignCode, Replaced, InUse
<1>2. WithLayers(p) \in [Path -> Item]
  BY LayersType
<1>3. /\ tree'[p].code = c
      /\ IsCode(p)'
      /\ tree'[p].inuse <=> tree[p].inuse
  BY <1>1, <1>2, LayersOwned DEF IsCode, Item
<1>4. \A q \in Path \ {p} : /\ tree'[q].code = tree[q].code
                            /\ IsCode(q)' <=> IsCode(q)
                            /\ tree'[q].inuse <=> tree[q].inuse
  BY <1>1, <1>2, LayersOwned DEF IsCode
<1>5. c \notin heap /\ c # NoCode /\ \A q \in Path : tree[q].code # c
  BY <1>1, ExecutionAssumption DEF Unused, NoCode
<1>6. CodeOwned'
  <2>1. \A q \in Path : IsCode(q)' <=> tree'[q].code # NoCode
    BY <1>3, <1>4, <1>5 DEF Safe, CodeOwned
  <2>2. \A q, r \in Path : IsCode(q)' /\ tree'[q].code = tree'[r].code => q = r
    BY <1>3, <1>4, <1>5 DEF Safe, CodeOwned
  <2>3. heap' = {tree'[q].code : q \in {r \in Path : IsCode(r)'}}
    <3>1. ASSUME NEW d \in heap'
          PROVE  \E q \in Path : IsCode(q)' /\ tree'[q].code = d
      <4>1. CASE d = c
        BY <1>3, <4>1
      <4>2. CASE d # c
        <5>1. d \in heap /\ d # tree[p].code
          BY <1>1, <4>2
        <5>2. PICK q \in Path : IsCode(q) /\ tree[q].code = d
          BY <5>1 DEF Safe, CodeOwned
        <5> QED BY <1>4, <5>1, <5>2
      <4> QED BY <4>1, <4>2
    <3>2. ASSUME NEW q \in Path, IsCode(q)' PROVE tree'[q].code \in heap'
      <4>1. CASE q = p
        BY <1>1, <1>3, <4>1
      <4>2. CASE q # p
        <5>1. IsCode(q) /\ tree'[q].code = tree[q].code
          BY <1>4, <3>2, <4>2
        <5>2. tree[q].code \in heap /\ tree[q].code # tree[p].code
          BY <4>2, <5>1 DEF Safe, CodeOwned
        <5> QED BY <1>1, <5>1, <5>2
      <4> QED BY <4>1, <4>2
    <3> QED BY <3>1, <3>2
  <2> QED BY <2>1, <2>2, <2>3 DEF CodeOwned, IsCode
<1>7. \A q \in Path : Running(q) =>
        /\ tree'[q].code = tree[q].code
        /\ tree'[q].inuse
        /\ tree[q].code \in heap => tree[q].code \in heap'
  <2> SUFFICES ASSUME NEW q \in Path, Running(q)
               PROVE  /\ tree'[q].code = tree[q].code
                      /\ tree'[q].inuse
                      /\ tree[q].code \in heap => tree[q].code \in heap'
    OBVIOUS
  <2>1. PICK i \in 1 .. Len(frames) : frames[i].item = q
    BY DEF Running
  <2>2. IsCode(q) /\ tree[q].inuse
    BY <2>1, BootNotInPath, RunningHasCode
  <2>3. q # p
    BY <1>1, <2>2
  <2>4. tree[q].code # tree[p].code
    BY <2>2, <2>3 DEF Safe, CodeOwned
  <2> QED BY <1>1, <1>4, <2>2, <2>3, <2>4
<1>8. \A q \in Path : tree'[q].inuse => tree[q].inuse
  BY <1>3, <1>4
<1> QED BY <1>1, <1>6, <1>7, <1>8, SameFrames

LEMMA EnterOwned ==
  ASSUME TypeOK, Safe, NEW p \in Path, NEW b \in BOOLEAN, UNCHANGED heap,
         tree' = [tree EXCEPT ![p].inuse = b]
  PROVE  /\ CodeOwned'
         /\ tree'[p].inuse = b
         /\ \A q \in Path : tree'[q].code = tree[q].code
         /\ \A q \in Path \ {p} : tree'[q] = tree[q]
<1>1. \A q \in Path : /\ tree'[q].code = tree[q].code
                      /\ IsCode(q)' <=> IsCode(q)
  BY DEF TypeOK, Item, IsCode
<1>2. tree'[p].inuse = b /\ \A q \in Path \ {p} : tree'[q] = tree[q]
  BY DEF TypeOK, Item
<1>3. CodeOwned'
  <2>1. heap' = {tree[q].code : q \in {r \in Path : IsCode(r)}}
    BY DEF Safe, CodeOwned
  <2>2. heap' = {tree'[q].code : q \in {r \in Path : IsCode(r)'}}
    BY <1>1, <2>1
  <2> QED BY <1>1, <2>2 DEF Safe, CodeOwned
<1> QED BY <1>1, <1>2, <1>3

\* Calling an item that is not executed.
LEMMA PushSafe ==
  ASSUME TypeOK, Safe, NEW p \in Path, ~Running(p), tree[p].code \in heap,
         Enter(p), UNCHANGED heap,
         frames' = Append(frames, [item |-> p, code |-> tree[p].code])
  PROVE  Safe'
<1> DEFINE n == Len(frames)
           f == [item |-> p, code |-> tree[p].code]
<1>1. /\ CodeOwned'
      /\ tree'[p].inuse
      /\ \A q \in Path : tree'[q].code = tree[q].code
      /\ \A q \in Path \ {p} : tree'[q] = tree[q]
  BY EnterOwned DEF Enter
<1>2. /\ n \in Nat
      /\ Len(frames') = n + 1
      /\ frames'[n + 1] = f
      /\ \A i \in 1 .. n : frames'[i] = frames[i]
  <2>1. frames \in Seq(Frame)
    BY DEF TypeOK, Frame
  <2> HIDE DEF f, Frame
  <2> QED BY <2>1 DEF f
<1>3. \A i \in 1 .. n + 1 : i = n + 1 \/ i \in 1 .. n
  BY <1>2
<1>4. \A i \in 1 .. n : frames[i].item # p
  BY DEF Running
<1>5. \A i \in 1 .. n + 1 : frames'[i].item = p <=> i = n + 1
  BY <1>2, <1>3, <1>4
<1>6. Distinct'
  <2>1. \A i, j \in 1 .. n : frames[i].item = frames[j].item => i = j
    BY DEF Safe, Distinct
  <2>2. \A i, j \in 1 .. n + 1 : frames'[i].item = frames'[j].item => i = j
    BY <1>2, <1>3, <1>5, <2>1
  <2> QED BY <1>2, <2>2 DEF Distinct
<1>7. RunningCodeIsLive'
  <2> SUFFICES ASSUME NEW i \in 1 .. n + 1, frames'[i] # Boot
               PROVE  /\ frames'[i].code \in heap
                      /\ tree'[frames'[i].item].code = frames'[i].code
    BY <1>2 DEF RunningCodeIsLive
  <2>1. CASE i = n + 1
    BY <1>1, <1>2, <2>1
  <2>2. CASE i \in 1 .. n
    BY <1>1, <1>2, <2>2, RunningHasCode
  <2> QED BY <1>3, <2>1, <2>2
<1>8. \A q \in Path : Running(q)' <=> Running(q) \/ q = p
  <2>1. n + 1 \in 1 .. n + 1 /\ \A i \in 1 .. n : i \in 1 .. n + 1
    BY <1>2
  <2> QED BY <1>2, <1>3, <1>5, <2>1 DEF Running
<1>9. RunningIsInUse' /\ InUseIsRunning'
  BY <1>1, <1>8 DEF Safe, RunningIsInUse, InUseIsRunning
<1>10. BootFirst'
  <2>1. frames'[n + 1] # Boot
    BY <1>2, BootNotInPath
  <2> QED BY <1>2, <1>3, <2>1 DEF Safe, BootFirst
<1> QED BY <1>1, <1>6, <1>7, <1>9, <1>10 DEF Safe

LEMMA ReturnSafe == ASSUME TypeOK, Safe, Return PROVE Safe'
<1> DEFINE n == Len(frames)
           p == Top.item
<1>1. /\ n \in Nat \ {0}
      /\ Len(frames') = n - 1
      /\ \A i \in 1 .. n - 1 : frames'[i] = frames[i]
      /\ p \in Path
      /\ p = frames[n].item
  BY PopFrame DEF Top
<1>2. /\ CodeOwned'
      /\ ~tree'[p].inuse
      /\ \A q \in Path : tree'[q].code = tree[q].code
      /\ \A q \in Path \ {p} : tree'[q] = tree[q]
  BY <1>1, EnterOwned DEF Return, Leave
<1>3. heap' = heap
  BY DEF Return
<1> HIDE DEF p
<1>4. \A i \in 1 .. n - 1 : i \in 1 .. n /\ frames[i].item # p
  BY <1>1 DEF Safe, Distinct
<1>5. Distinct' /\ BootFirst'
  BY <1>1, <1>4 DEF Safe, Distinct, BootFirst
<1>6. RunningCodeIsLive'
  <2> SUFFICES ASSUME NEW i \in 1 .. n - 1, frames[i] # Boot
               PROVE  /\ frames[i].code \in heap
                      /\ tree'[frames[i].item].code = frames[i].code
    BY <1>1, <1>3 DEF RunningCodeIsLive
  <2> QED BY <1>2, <1>4, RunningHasCode
<1>7. \A q \in Path : Running(q)' <=> Running(q) /\ q # p
  <2>1. \A i \in 1 .. n : i = n \/ i \in 1 .. n - 1
    BY <1>1
  <2> QED BY <1>1, <1>4, <2>1 DEF Running
<1>8. RunningIsInUse' /\ InUseIsRunning'
  BY <1>1, <1>2, <1>7 DEF Safe, RunningIsInUse, InUseIsRunning
<1> QED BY <1>2, <1>5, <1>6, <1>8 DEF Safe

\* Calls from outside the interpreter.
LEMMA StartSafe ==
  ASSUME TypeOK, Safe, NEW p \in Path, Idle, Start(p)
  PROVE  Safe'
<1>1. CASE tree[p].code \in heap
  <2>1. frames = <<>> /\ Len(frames) = 0
    BY DEF Idle
  <2>2. ~Running(p)
    BY <2>1 DEF Running
  <2>3. frames' = Append(frames, [item |-> p, code |-> tree[p].code])
    BY <1>1, <2>1 DEF Start
  <2> QED BY <1>1, <2>2, <2>3, PushSafe DEF Start
<1>2. CASE tree[p].code \notin heap
  BY <1>2, SameFrames DEF Start, Safe, CodeOwned, IsCode, RunningIsInUse
<1> QED BY <1>1, <1>2

LEMMA BootReturnsSafe == ASSUME TypeOK, Safe, BootReturns PROVE Safe'
<1>1. frames' = <<>> /\ UNCHANGED <<tree, heap>>
  BY DEF BootReturns
<1>2. \A p \in Path : ~Running(p)
  <2> DEFINE n == Len(frames)
  <2>1. n \in Nat \ {0} /\ frames[n] = Boot
    BY EmptySeq DEF BootReturns, Coding, Top, TypeOK
  <2>2. n = 1
    <3>1. n \in 1 .. Len(frames)
      BY <2>1
    <3> QED BY <2>1, <3>1 DEF Safe, BootFirst
  <2>3. \A i \in 1 .. n : frames[i] = Boot
    BY <2>1, <2>2
  <2> QED BY <2>3, BootNotInPath DEF Running
<1>3. CodeOwned' /\ RunningIsInUse' /\ InUseIsRunning'
  <2>1. \A p \in Path : ~Running(p)' /\ ~tree[p].inuse
    BY <1>1, <1>2 DEF Safe, InUseIsRunning, Running
  <2> QED BY <1>1, <2>1
          DEF Safe, RunningIsInUse, InUseIsRunning, CodeOwned, IsCode
<1> QED BY <1>1, <1>3 DEF Safe, Distinct, BootFirst, RunningCodeIsLive

LEMMA InitSafe == Init => Safe
<1> SUFFICES ASSUME Init PROVE Safe
  OBVIOUS
<1>1. /\ frames = <<Boot>> /\ Len(frames) = 1
      /\ \A p \in Path : tree[p] = Absent
      /\ heap = {}
  BY DEF Init
<1>2. \A p \in Path : ~IsCode(p) /\ tree[p].code = NoCode /\ ~tree[p].inuse
  BY <1>1 DEF IsCode, Absent
<1>3. \A p \in Path : ~Running(p)
  BY <1>1, BootNotInPath DEF Running
<1> QED BY <1>1, <1>2, <1>3
        DEF Safe, Distinct, BootFirst, RunningCodeIsLive, RunningIsInUse,
            InUseIsRunning, CodeOwned

LEMMA StepSafe ==
  ASSUME Ordinary, TypeOK, Safe, [Next]_vars
  PROVE  Safe'
<1>1. ASSUME UNCHANGED <<tree, heap, frames>> PROVE Safe'
  BY <1>1 DEF Safe, Distinct, BootFirst, RunningCodeIsLive, RunningIsInUse,
              InUseIsRunning, CodeOwned, IsCode, Running
<1>2. ASSUME NEW p \in Path, Fetch(p) PROVE Safe'
  <2>1. IsCode(p) /\ tree[p].code \in heap
    BY <1>2 DEF Fetch, Safe, CodeOwned
  <2>2. ~Running(p)
    BY <1>2 DEF Fetch, Ordinary
  <2> QED BY <1>2, <2>1, <2>2, PushSafe DEF Fetch
<1>3. ASSUME NEW p \in Path, FetchTooDeep(p) PROVE FALSE
  BY <1>3 DEF FetchTooDeep, Ordinary
<1>4. Input \in Path
  BY PathAssumption
<1> QED BY <1>1, <1>2, <1>3, <1>4, DeleteSafe, AssignValueSafe, AssignCodeSafe,
           StartSafe, ReturnSafe, BootReturnsSafe
        DEF Next, vars, AssignCodeInUse, AssignCodeFails, FetchFreed, RunTask, RunInput,
            NoInput

\* In ordinary play the code that is executed is never freed or replaced,
\* whatever is deleted, assigned and compiled meanwhile.
THEOREM PlayIsSafe ==
  ASSUME Ordinary
  PROVE  Spec => []RunningCodeIsLive
<1>1. TypeOK /\ Safe /\ [Next]_vars => Safe'
  BY StepSafe
<1>2. Safe => RunningCodeIsLive
  BY DEF Safe
<1> QED BY TypeCorrect, InitSafe, <1>1, <1>2, PTL DEF Spec

\* In ordinary play every block of bytecode has one owner: nothing is freed
\* twice and nothing is lost.
THEOREM BlocksAreOwned ==
  ASSUME Ordinary
  PROVE  Spec => []CodeOwned
<1>1. TypeOK /\ Safe /\ [Next]_vars => Safe'
  BY StepSafe
<1>2. Safe => CodeOwned
  BY DEF Safe
<1> QED BY TypeCorrect, InitSafe, <1>1, <1>2, PTL DEF Spec

\* In ordinary play inuse says exactly which items are executed.
THEOREM MarksAreExact ==
  ASSUME Ordinary
  PROVE  Spec => []InUseExact
<1>1. TypeOK /\ Safe /\ [Next]_vars => Safe'
  BY StepSafe
<1>2. Safe => InUseExact
  BY DEF Safe, InUseExact
<1> QED BY TypeCorrect, InitSafe, <1>1, <1>2, PTL DEF Spec

=============================================================================
