---------------------------- MODULE StackProofs ----------------------------
(***************************************************************************)
(* What holds of Stack for every size of the stack and every depth of      *)
(* calls: the frames, whatever compiled code does within the range of an   *)
(* index, and the ownership of strings in ordinary play.                   *)
(***************************************************************************)
EXTENDS Stack, SequenceTheorems, TLAPS

Shallow == Careless \cap {"deep", "params"} = {}

Frame == [current : -1 .. StackSize - 1, base : 0 .. StackSize,
          locals : 0 .. MaxLocals]

(* Frames start at the bottom, end below the range of an index, and are    *)
(* gone when no item runs.                                                 *)
Bounded ==
  /\ ~running => calls = <<>> /\ current = -1
  /\ calls = <<>> => base = 0
  /\ calls # <<>> => calls[1].base = 0
  /\ base + locals <= IndexRange
  /\ \A k \in 1 .. Len(calls) : calls[k].base + calls[k].locals <= IndexRange

FInv == TypeOK /\ FramesStack /\ Bounded

-----------------------------------------------------------------------------
(* Helpers.                                                                *)

LEMMA ConstantsAreNumbers ==
  /\ StackSize \in Nat \ {0} /\ IndexRange \in Nat \ {0}
  /\ MaxCalls \in Nat /\ MaxLocals \in Nat /\ MaxArgs \in Nat
  /\ MaxLocals < IndexRange /\ IndexRange <= StackSize
BY StackAssumption

LEMMA RemainderOfSmaller ==
  ASSUME NEW a \in Nat, NEW n \in Nat \ {0}, a < n PROVE a % n = a
BY Z3

LEMMA IndexInFrame ==
  ASSUME FInv, running, NEW i \in Nat, i < locals
  PROVE  Index(i) = i + base /\ Index(i) \in Slot
<1>1. base \in Nat /\ locals \in Nat
  BY ConstantsAreNumbers DEF FInv, TypeOK
<1>2. i + base \in Nat /\ i + base < IndexRange
  BY <1>1, ConstantsAreNumbers DEF FInv, Bounded
<1>3. (i + base) % IndexRange = i + base
  BY <1>2, RemainderOfSmaller, ConstantsAreNumbers
<1> QED BY <1>2, <1>3, ConstantsAreNumbers DEF Index, Slot

LEMMA ClearedType ==
  ASSUME TypeOK, NEW S
  PROVE  /\ Cleared(S) \in [Slot -> Content]
         /\ \A s \in Slot : Cleared(S)[s] = IF s \in S THEN "nil" ELSE slot[s]
BY DEF TypeOK, Cleared, Content

LEMMA PushOnType ==
  ASSUME NEW a \in [Slot -> Content], NEW c \in -1 .. StackSize - 1,
         NEW v \in Content, PushOn(a, c, v)
  PROVE  /\ slot' \in [Slot -> Content]
         /\ current' \in -1 .. StackSize - 1
         /\ current' \in {c, c + 1}
         /\ \A s \in Slot : s # c + 1 => slot'[s] = a[s]
         /\ c < StackSize - 1 => c + 1 \in Slot /\ slot'[c + 1] = v
                                 /\ current' = c + 1
BY ConstantsAreNumbers DEF PushOn, Slot

LEMMA PushFrame ==
  ASSUME TypeOK, NEW f \in Frame, calls' = Append(calls, f)
  PROVE  /\ calls' \in Seq(Frame)
         /\ Len(calls) \in Nat
         /\ Len(calls') = Len(calls) + 1
         /\ calls'[Len(calls) + 1] = f
         /\ \A k \in 1 .. Len(calls) : calls'[k] = calls[k]
<1>1. calls \in Seq(Frame)
  BY DEF TypeOK, Frame
<1> HIDE DEF Frame
<1> QED BY <1>1

LEMMA PopFrame ==
  ASSUME TypeOK, calls # <<>>, calls' = SubSeq(calls, 1, Len(calls) - 1)
  PROVE  /\ calls' \in Seq(Frame)
         /\ Len(calls) \in Nat \ {0}
         /\ Len(calls') = Len(calls) - 1
         /\ calls[Len(calls)] \in Frame
         /\ \A k \in 1 .. Len(calls) - 1 : calls'[k] = calls[k]
<1>1. calls \in Seq(Frame)
  BY DEF TypeOK, Frame
<1>2. Len(calls) \in Nat \ {0} /\ calls[Len(calls)] \in Frame
  BY <1>1, EmptySeq
<1>3. ASSUME NEW k \in 0 .. Len(calls)
      PROVE  /\ SubSeq(calls, 1, k) \in Seq(Frame)
             /\ Len(SubSeq(calls, 1, k)) = k
             /\ \A i \in 1 .. k : SubSeq(calls, 1, k)[i] = calls[i]
  <2> HIDE DEF Frame
  <2> QED BY <1>1
<1>4. Len(calls) - 1 \in 0 .. Len(calls)
  BY <1>2
<1> QED BY <1>2, <1>3, <1>4

-----------------------------------------------------------------------------
(* The frames, while calls stay within the range of an index.              *)

Mine == \A s \in Slot : s < base => slot'[s] = slot[s]

Faults == {"none", "overflow", "overrun", "double_free", "freed_string"}

LEMMA SameFrame ==
  ASSUME FInv, running, UNCHANGED <<base, locals, calls, running>>,
         slot' \in [Slot -> Content], current' \in -1 .. StackSize - 1,
         base + locals <= current' + 1, heap' \subseteq Str,
         forgotten' \subseteq Str, fault' \in Faults
  PROVE  FInv'
<1>1. TypeOK'
  BY DEF FInv, TypeOK, Faults
<1>2. FramesStack'
  BY DEF FInv, FramesStack
<1>3. Bounded'
  BY DEF FInv, Bounded
<1> QED BY <1>1, <1>2, <1>3 DEF FInv

LEMMA FreeType ==
  ASSUME TypeOK, NEW S, Free(S)
  PROVE  heap' \subseteq Str /\ forgotten' \subseteq Str /\ fault' \in Faults
BY DEF TypeOK, Free, Faults

LEMMA Numbers ==
  ASSUME FInv
  PROVE  /\ current \in -1 .. StackSize - 1 /\ base \in 0 .. StackSize
         /\ locals \in 0 .. MaxLocals
         /\ base \in Int /\ locals \in Int /\ current \in Int
         /\ running => base + locals <= current + 1
BY ConstantsAreNumbers DEF FInv, TypeOK, FramesStack

LEMMA PushKeeps ==
  ASSUME FInv, running, NEW v \in Content, PushOn(slot, current, v),
         UNCHANGED <<base, locals, calls, running>>,
         heap' \subseteq Str, forgotten' \subseteq Str, fault' \in Faults
  PROVE  FInv' /\ Mine
<1>1. slot \in [Slot -> Content]
  BY DEF FInv, TypeOK
<1>2. /\ slot' \in [Slot -> Content]
      /\ current' \in -1 .. StackSize - 1
      /\ current' \in {current, current + 1}
      /\ \A s \in Slot : s # current + 1 => slot'[s] = slot[s]
  BY <1>1, Numbers, PushOnType
<1>3. base + locals <= current' + 1
  BY <1>2, Numbers, ConstantsAreNumbers
<1>4. Mine
  BY <1>2, Numbers, ConstantsAreNumbers DEF Mine, Slot
<1> QED BY <1>2, <1>3, <1>4, SameFrame

LEMMA ConsumeKeeps == ASSUME FInv, Consume PROVE FInv' /\ Mine
<1>1. /\ running /\ Own > 0 /\ slot' = Cleared({current})
      /\ current' = current - 1 /\ Free({current})
      /\ UNCHANGED <<base, locals, calls, running>>
  BY DEF Consume, Ready
<1>2. current' \in -1 .. StackSize - 1 /\ base + locals <= current' + 1 /\ base <= current
  BY <1>1, Numbers, ConstantsAreNumbers DEF Own
<1>3. slot' \in [Slot -> Content] /\ heap' \subseteq Str /\ forgotten' \subseteq Str /\ fault' \in Faults
  BY <1>1, ClearedType, FreeType DEF FInv
<1>4. Mine
  BY <1>1, <1>2, Numbers, ConstantsAreNumbers, ClearedType, SMTT(30) DEF Mine, FInv, Slot
<1> QED BY <1>1, <1>2, <1>3, <1>4, SameFrame

LEMMA ForgetKeeps == ASSUME FInv, Forget PROVE FInv' /\ Mine
<1>1. /\ running /\ Own > 0 /\ slot' = Cleared({current})
      /\ current' = current - 1
      /\ UNCHANGED <<base, locals, calls, running>>
  BY DEF Forget, Ready
<1>2. current' \in -1 .. StackSize - 1 /\ base + locals <= current' + 1 /\ base <= current
  BY <1>1, Numbers, ConstantsAreNumbers DEF Own
<1>3. slot' \in [Slot -> Content]
  BY <1>1, ClearedType DEF FInv
<1>4. heap' \subseteq Str /\ forgotten' \subseteq Str /\ fault' \in Faults
  BY DEF Forget, FInv, TypeOK, Faults
<1>5. Mine
  BY <1>1, <1>2, Numbers, ConstantsAreNumbers, ClearedType, SMTT(30) DEF Mine, FInv, Slot
<1> QED BY <1>1, <1>2, <1>3, <1>4, <1>5, SameFrame

LEMMA SaveKeeps ==
  ASSUME FInv, NEW i \in 0 .. MaxLocals - 1, SaveLocal(i)
  PROVE  FInv' /\ Mine
<1>1. /\ running /\ Own > 0 /\ i < locals
      /\ slot' = [slot EXCEPT ![Index(i)] = slot[current]]
      /\ current' = current - 1 /\ Free({Index(i)})
      /\ UNCHANGED <<base, locals, calls, running>>
  BY DEF SaveLocal, Ready
<1>2. i \in Nat
  BY ConstantsAreNumbers
<1>3. Index(i) = i + base /\ Index(i) \in Slot
  BY <1>1, <1>2, IndexInFrame
<1>4. current \in Slot /\ current' \in -1 .. StackSize - 1 /\ base + locals <= current' + 1
  BY <1>1, Numbers, ConstantsAreNumbers DEF Own, Slot
<1>5. slot' \in [Slot -> Content]
  BY <1>1, <1>3, <1>4 DEF FInv, TypeOK
<1>6. heap' \subseteq Str /\ forgotten' \subseteq Str /\ fault' \in Faults
  BY <1>1, FreeType DEF FInv
<1>7. Mine
  <2> SUFFICES ASSUME NEW s \in Slot, s < base PROVE slot'[s] = slot[s]
    BY DEF Mine
  <2>1. s # Index(i)
    BY <1>2, <1>3, Numbers, ConstantsAreNumbers DEF Slot
  <2> QED BY <1>1, <2>1 DEF FInv, TypeOK
<1> QED BY <1>1, <1>4, <1>5, <1>6, <1>7, SameFrame

LEMMA GetKeeps ==
  ASSUME FInv, NEW i \in 0 .. MaxLocals - 1, GetLocal(i)
  PROVE  FInv' /\ Mine
<1>1. running /\ i < locals
      /\ UNCHANGED <<base, locals, calls, running, forgotten>>
  BY DEF GetLocal, Ready
<1>2. i \in Nat
  BY ConstantsAreNumbers
<1>3. Index(i) \in Slot
  BY <1>1, <1>2, IndexInFrame
<1>4. slot[Index(i)] \in Content /\ heap \subseteq Str /\ fault \in Faults
      /\ forgotten \subseteq Str /\ forgotten' \subseteq Str
      /\ slot \in [Slot -> Content]
  BY <1>1, <1>3 DEF FInv, TypeOK, Faults
<1>5. CASE current + 1 >= StackSize
  <2>1. fault' = "overrun" /\ UNCHANGED <<slot, current, heap>>
    BY <1>5 DEF GetLocal
  <2>2. fault' \in Faults
    BY <2>1 DEF Faults
  <2> QED BY <1>1, <1>4, <2>1, <2>2, Numbers, SameFrame DEF Mine
<1>6. CASE ~(current + 1 >= StackSize)
  <2>1. current' = current + 1 /\ current + 1 \in Slot
    BY <1>6, Numbers, ConstantsAreNumbers DEF GetLocal, Slot
  <2>2. /\ slot' = slot \/ \E v \in Content : slot' = [slot EXCEPT ![current + 1] = v]
        /\ heap' \subseteq Str
        /\ fault' \in Faults
    BY <1>4, <1>6 DEF GetLocal, Content, Faults, Allocated
  <2>3. slot' \in [Slot -> Content]
    BY <1>4, <2>1, <2>2
  <2>4. Mine
    <3> SUFFICES ASSUME NEW s \in Slot, s < base PROVE slot'[s] = slot[s]
      BY DEF Mine
    <3>1. s # current + 1
      BY <1>1, Numbers, ConstantsAreNumbers DEF Slot
    <3> QED BY <1>4, <2>2, <3>1
  <2>5. current' \in -1 .. StackSize - 1 /\ base + locals <= current' + 1
    BY <1>1, <1>6, <2>1, Numbers, ConstantsAreNumbers
  <2> QED BY <1>1, <1>4, <2>2, <2>3, <2>4, <2>5, SameFrame
<1> QED BY <1>5, <1>6

LEMMA MissingKeeps ==
  ASSUME FInv, NEW argc \in 0 .. MaxArgs, FetchMissing(argc)
  PROVE  FInv' /\ Mine
<1> DEFINE S == Topmost(current, argc)
<1>1. /\ running /\ argc <= Own /\ current - argc + 1 < StackSize
      /\ Free(S) /\ PushOn(Cleared(S), current - argc, "nil")
      /\ UNCHANGED <<base, locals, calls, running>>
  BY DEF FetchMissing, Ready
<1>2. argc \in Nat /\ current - argc \in -1 .. StackSize - 1 /\ base + locals <= current - argc + 1
  BY <1>1, Numbers, ConstantsAreNumbers DEF Own
<1>3. Cleared(S) \in [Slot -> Content] /\ heap' \subseteq Str /\ forgotten' \subseteq Str /\ fault' \in Faults
  BY <1>1, ClearedType, FreeType DEF FInv
<1>4. \A s \in Slot : s < base => Cleared(S)[s] = slot[s]
  <2>1. \A s \in Slot : s < base => s \notin S
    BY <1>2, Numbers, ConstantsAreNumbers DEF Topmost, Slot
  <2> QED BY <2>1, ClearedType DEF FInv
<1>5. "nil" \in Content
  BY DEF Content
<1> HIDE DEF S
<1>6. /\ slot' \in [Slot -> Content] /\ current' \in -1 .. StackSize - 1
      /\ current' \in {current - argc, current - argc + 1}
      /\ \A s \in Slot : s # current - argc + 1 => slot'[s] = Cleared(S)[s]
  BY <1>1, <1>2, <1>3, <1>5, PushOnType
<1>7. base + locals <= current' + 1
  BY <1>2, <1>6, Numbers, ConstantsAreNumbers
<1>8. Mine
  <2> SUFFICES ASSUME NEW s \in Slot, s < base PROVE slot'[s] = slot[s]
    BY DEF Mine
  <2>1. s # current - argc + 1
    BY <1>2, Numbers, ConstantsAreNumbers DEF Slot
  <2> QED BY <1>4, <1>6, <2>1
<1> QED BY <1>1, <1>3, <1>6, <1>7, <1>8, SameFrame

(* A call: the top of the caller's values without the arguments, and the   *)
(* slots of arguments that are thrown away or missing.                     *)
Floor(argc, np) == current - argc
Lost(argc, np) == Topmost(current, argc - np)
Missing(argc, np) == (current + 1) .. (current + np - argc)
CallersFrame(argc, np) ==
  [current |-> Floor(argc, np), base |-> base, locals |-> locals]

LEMMA CallArithmetic ==
  ASSUME FInv, Shallow, NEW argc \in 0 .. MaxArgs, NEW np \in 0 .. MaxLocals,
         NEW nl \in 0 .. MaxLocals, Call(argc, np, nl)
  PROVE  /\ running /\ fault = "none" /\ argc <= Own /\ np <= nl
         /\ Floor(argc, np) + nl < IndexRange
         /\ Free(Lost(argc, np))
         /\ slot' = Cleared(Lost(argc, np) \cup Missing(argc, np))
         /\ calls' = Append(calls, CallersFrame(argc, np))
         /\ current' = Floor(argc, np) + nl
         /\ base' = Floor(argc, np) + 1
         /\ locals' = nl
         /\ running' = running
         /\ base + locals <= Floor(argc, np) + 1
         /\ Floor(argc, np) \in -1 .. StackSize - 1
         /\ Floor(argc, np) + nl \in -1 .. StackSize - 1
         /\ Floor(argc, np) + 1 \in 0 .. StackSize
         /\ \A s \in Lost(argc, np) \cup Missing(argc, np) : s > Floor(argc, np)
<1>1. argc \in Nat /\ np \in Nat /\ nl \in Nat
  BY ConstantsAreNumbers
<1>2. /\ running /\ fault = "none" /\ argc <= Own /\ np <= nl
      /\ Floor(argc, np) + nl < StackSize /\ Floor(argc, np) + nl < IndexRange
  <2>1. running /\ fault = "none" /\ argc <= Own /\ np <= nl
    BY DEF Call, Ready
  <2>2. "deep" \notin Careless
    BY DEF Shallow
  <2>3. /\ current - argc + nl < StackSize
        /\ current - argc + nl < IndexRange
    BY <2>2 DEF Call
  <2> QED BY <2>1, <2>3 DEF Floor
<1>3. /\ Free(Lost(argc, np))
      /\ slot' = Cleared(Lost(argc, np) \cup Missing(argc, np))
      /\ calls' = Append(calls, CallersFrame(argc, np))
      /\ current' = Floor(argc, np) + nl /\ base' = Floor(argc, np) + 1
      /\ locals' = nl /\ running' = running
  <2>1. current - argc + nl < StackSize
    BY <1>2 DEF Floor
  <2>2. /\ Free(Topmost(current, argc - np))
        /\ slot' = Cleared(Topmost(current, argc - np)
                             \cup (current + 1) .. (current + np - argc))
        /\ calls' = Append(calls, [current |-> current - argc,
                                   base |-> base, locals |-> locals])
        /\ current' = current - argc + nl
        /\ base' = FrameBase(current - argc + np, np)
        /\ locals' = nl /\ running' = running
    BY <2>1 DEF Call
  <2>3. FrameBase(current - argc + np, np) = current - argc + 1
    BY <1>1, Numbers DEF FrameBase
  <2> QED BY <2>2, <2>3 DEF Floor, Lost, Missing, CallersFrame
<1>4. base + locals <= Floor(argc, np) + 1
  BY <1>1, <1>2, Numbers, ConstantsAreNumbers DEF Own, Floor
<1>5. /\ Floor(argc, np) \in -1 .. StackSize - 1
      /\ Floor(argc, np) + nl \in -1 .. StackSize - 1
      /\ Floor(argc, np) + 1 \in 0 .. StackSize
  BY <1>1, <1>2, <1>4, Numbers, ConstantsAreNumbers DEF Floor
<1>6. \A s \in Lost(argc, np) \cup Missing(argc, np) : s > Floor(argc, np)
  BY <1>1, <1>2, Numbers, ConstantsAreNumbers DEF Topmost, Lost, Missing, Floor
<1> QED BY <1>2, <1>3, <1>4, <1>5, <1>6

LEMMA CallKeeps ==
  ASSUME FInv, Shallow, NEW argc \in 0 .. MaxArgs, NEW np \in 0 .. MaxLocals,
         NEW nl \in 0 .. MaxLocals, Call(argc, np, nl)
  PROVE  FInv' /\ Mine
<1> DEFINE floor == Floor(argc, np)
           gone == Lost(argc, np) \cup Missing(argc, np)
           frame == CallersFrame(argc, np)
<1>1. /\ running /\ np <= nl /\ floor + nl < IndexRange
      /\ Free(Lost(argc, np)) /\ slot' = Cleared(gone)
      /\ calls' = Append(calls, frame)
      /\ current' = floor + nl /\ base' = floor + 1 /\ locals' = nl
      /\ running' = running
      /\ base + locals <= floor + 1
      /\ floor \in -1 .. StackSize - 1 /\ floor + nl \in -1 .. StackSize - 1
      /\ floor + 1 \in 0 .. StackSize
      /\ \A s \in gone : s > floor
  BY CallArithmetic
<1>1a. frame.current = floor /\ frame.base = base /\ frame.locals = locals
  BY DEF CallersFrame
<1>1b. frame = [current |-> floor, base |-> base, locals |-> locals]
  BY DEF CallersFrame
<1> HIDE DEF floor, gone, frame
<1>2. slot' \in [Slot -> Content] /\ heap' \subseteq Str /\ forgotten' \subseteq Str /\ fault' \in Faults
  BY <1>1, ClearedType, FreeType DEF FInv
<1>3. frame \in Frame
  BY <1>1, <1>1b, Numbers DEF Frame
<1>4. frame.current = floor /\ frame.base = base /\ frame.locals = locals
  BY <1>1a
<1>5. calls' = Append(calls, frame)
  BY <1>1
<1>6. /\ calls' \in Seq(Frame) /\ Len(calls) \in Nat
      /\ Len(calls') = Len(calls) + 1 /\ calls'[Len(calls) + 1] = frame
      /\ \A k \in 1 .. Len(calls) : calls'[k] = calls[k]
  BY <1>3, <1>5, PushFrame DEF FInv
<1>7. TypeOK'
  BY <1>1, <1>2, <1>6, ConstantsAreNumbers DEF TypeOK, FInv, Frame, Faults
<1>8. FramesStack'
  <2>1. base' + locals' <= current' + 1
    BY <1>1, ConstantsAreNumbers
  <2>2. ASSUME NEW k \in 1 .. Len(calls')
        PROVE  LET next == IF k < Len(calls') THEN calls'[k + 1].base ELSE base'
               IN  next = calls'[k].current + 1 /\ calls'[k].base + calls'[k].locals <= next
    <3>1. CASE k = Len(calls) + 1
      BY <1>1, <1>4, <1>6, <3>1
    <3>2. CASE k = Len(calls)
      <4>1. /\ base = calls[k].current + 1
            /\ calls[k].base + calls[k].locals <= base
        BY <1>6, <3>2 DEF FInv, FramesStack
      <4> QED BY <1>4, <1>6, <3>2, <4>1
    <3>3. CASE k < Len(calls)
      <4>1. /\ calls[k + 1].base = calls[k].current + 1
            /\ calls[k].base + calls[k].locals <= calls[k + 1].base
        BY <1>6, <3>3 DEF FInv, FramesStack
      <4>2. calls'[k] = calls[k] /\ calls'[k + 1] = calls[k + 1]
        BY <1>6, <3>3
      <4> QED BY <1>6, <3>3, <4>1, <4>2
    <3> QED BY <1>6, <3>1, <3>2, <3>3
  <2> QED BY <2>1, <2>2 DEF FramesStack
<1>9. Bounded'
  <2>1. running' /\ calls' # <<>>
    BY <1>1, <1>6
  <2>2. calls'[1].base = 0
    <3>1. CASE calls = <<>>
      BY <1>4, <1>6, <3>1 DEF FInv, Bounded
    <3>2. CASE calls # <<>>
      <4>1. 1 \in 1 .. Len(calls)
        BY <1>6, <3>2, EmptySeq DEF FInv, TypeOK
      <4> QED BY <1>6, <3>2, <4>1 DEF FInv, Bounded
    <3> QED BY <3>1, <3>2
  <2>3. base' + locals' <= IndexRange
    BY <1>1, ConstantsAreNumbers
  <2>4. ASSUME NEW k \in 1 .. Len(calls')
        PROVE  calls'[k].base + calls'[k].locals <= IndexRange
    BY <1>4, <1>6 DEF FInv, Bounded
  <2> QED BY <2>1, <2>2, <2>3, <2>4 DEF Bounded
<1>10. Mine
  BY <1>1, Numbers, ConstantsAreNumbers, ClearedType, SMTT(30) DEF Mine, FInv, Slot
<1> QED BY <1>7, <1>8, <1>9, <1>10 DEF FInv

(* What interpret returns, and the stack it leaves.                        *)
Left == IF HasValue THEN current - 1 ELSE current
Result == IF HasValue THEN slot[current] ELSE "nil"
Array == IF HasValue THEN Cleared({current}) ELSE slot

LEMMA ResultType ==
  ASSUME FInv, running
  PROVE  /\ Left \in -1 .. StackSize - 1 /\ Result \in Content
         /\ Array \in [Slot -> Content]
         /\ \A s \in Slot : s # current => Array[s] = slot[s]
         /\ HasValue => current \in Slot /\ Left = current - 1
                        /\ Result = slot[current]
         /\ ~HasValue => Left = current /\ Array = slot /\ base = 0
<1>1. HasValue => current \in Slot
  BY Numbers, ConstantsAreNumbers DEF HasValue, Slot
<1>2. ~HasValue => base = 0
  BY Numbers, ConstantsAreNumbers DEF HasValue
<1>3. Left \in -1 .. StackSize - 1
  BY <1>1, Numbers, ConstantsAreNumbers DEF Left, Slot
<1>4. Result \in Content
  BY <1>1 DEF Result, FInv, TypeOK, Content
<1>5. Array \in [Slot -> Content] /\ \A s \in Slot : s # current => Array[s] = slot[s]
  BY ClearedType DEF Array, FInv, TypeOK
<1> QED BY <1>1, <1>2, <1>3, <1>4, <1>5 DEF Left, Result, Array

LEMMA CallerFrame ==
  ASSUME FInv, calls # <<>>
  PROVE  LET f == calls[Len(calls)] IN
         /\ f.current = base - 1 /\ f.base + f.locals <= base
         /\ f.base + f.locals <= IndexRange
         /\ f.base \in 0 .. StackSize /\ f.locals \in 0 .. MaxLocals
         /\ f.current \in -1 .. StackSize - 1
<1>1. calls \in Seq(Frame)
  BY DEF FInv, TypeOK, Frame
<1>2. Len(calls) \in Nat \ {0} /\ calls[Len(calls)] \in Frame
  BY <1>1, EmptySeq
<1>3. /\ base = calls[Len(calls)].current + 1
      /\ calls[Len(calls)].base + calls[Len(calls)].locals <= base
  BY <1>2 DEF FInv, FramesStack
<1>4. calls[Len(calls)].base + calls[Len(calls)].locals <= IndexRange
  BY <1>2 DEF FInv, Bounded
<1>5. /\ calls[Len(calls)].base \in 0 .. StackSize
      /\ calls[Len(calls)].locals \in 0 .. MaxLocals
      /\ calls[Len(calls)].current \in -1 .. StackSize - 1
  BY <1>2 DEF Frame
<1> QED BY <1>3, <1>4, <1>5, Numbers

LEMMA ReturnStack ==
  ASSUME FInv, Return
  PROVE  /\ running /\ calls # <<>>
         /\ slot' \in [Slot -> Content] /\ current' \in -1 .. StackSize - 1
         /\ base <= current' + 1
         /\ Mine
<1> DEFINE f == calls[Len(calls)]
           c == ResetTo(Left, f.current)
<1>1. running /\ calls # <<>> /\ PushOn(Array, c, Result)
  BY DEF Return, Ready, Left, Result, Array
<1>2. /\ f.current = base - 1 /\ f.current \in -1 .. StackSize - 1
  BY <1>1, CallerFrame
<1>3. base <= current + 1
  BY <1>1, Numbers, ConstantsAreNumbers
<1>4. /\ Left \in -1 .. StackSize - 1 /\ Result \in Content
      /\ Array \in [Slot -> Content]
      /\ \A s \in Slot : s # current => Array[s] = slot[s]
      /\ HasValue => current \in Slot /\ Left = current - 1
                     /\ Result = slot[current]
      /\ ~HasValue => Left = current /\ Array = slot /\ base = 0
  BY <1>1, ResultType
<1>5. /\ c \in -1 .. StackSize - 1 /\ c <= base - 1 /\ c >= base - 2
      /\ c = base - 2 => HasValue /\ current = base - 1
  BY <1>2, <1>3, <1>4, Numbers, ConstantsAreNumbers, SMTT(30) DEF ResetTo
<1> HIDE DEF c, f
<1>6. /\ slot' \in [Slot -> Content] /\ current' \in -1 .. StackSize - 1
      /\ current' \in {c, c + 1}
      /\ \A s \in Slot : s # c + 1 => slot'[s] = Array[s]
      /\ c < StackSize - 1 => c + 1 \in Slot /\ slot'[c + 1] = Result
                              /\ current' = c + 1
  BY <1>1, <1>4, <1>5, PushOnType
<1>7. base <= current' + 1
  BY <1>5, <1>6, Numbers, ConstantsAreNumbers
<1>8. Mine
  <2> SUFFICES ASSUME NEW s \in Slot, s < base PROVE slot'[s] = slot[s]
    BY DEF Mine
  <2>1. CASE s = current
    <3>1. current = base - 1 /\ s = base - 1
      BY <1>3, <2>1, Numbers
    <3>2. HasValue
      BY <1>4, <3>1, Numbers DEF Slot
    <3>3. c = base - 2 /\ c + 1 = s /\ c < StackSize - 1
      BY <1>2, <1>4, <3>1, <3>2, Numbers, ConstantsAreNumbers, SMTT(30) DEF c, ResetTo, f
    <3> QED BY <1>4, <1>6, <2>1, <3>2, <3>3
  <2>2. CASE s # current
    <3>1. c # base - 2 => s # c + 1
      BY <1>5, Numbers DEF Slot
    <3>2. c = base - 2 => s # c + 1
      BY <1>5, <2>2, Numbers DEF Slot
    <3> QED BY <1>4, <1>6, <2>2, <3>1, <3>2
  <2> QED BY <2>1, <2>2
<1> QED BY <1>1, <1>6, <1>7, <1>8

LEMMA ReturnKeeps == ASSUME FInv, Return PROVE FInv' /\ Mine
<1> DEFINE f == calls[Len(calls)]
<1>1. /\ running /\ calls # <<>>
      /\ slot' \in [Slot -> Content] /\ current' \in -1 .. StackSize - 1
      /\ base <= current' + 1 /\ Mine
  BY ReturnStack
<1>2. /\ base' = f.base /\ locals' = f.locals /\ running' = running
      /\ heap' = heap /\ forgotten' = forgotten /\ fault' = fault
      /\ calls' = SubSeq(calls, 1, Len(calls) - 1)
  BY DEF Return
<1>3. /\ f.current = base - 1 /\ f.base + f.locals <= base
      /\ f.base + f.locals <= IndexRange
      /\ f.base \in 0 .. StackSize /\ f.locals \in 0 .. MaxLocals
  BY <1>1, CallerFrame
<1>4. /\ calls' \in Seq(Frame) /\ Len(calls) \in Nat \ {0}
      /\ Len(calls') = Len(calls) - 1
      /\ \A k \in 1 .. Len(calls) - 1 : calls'[k] = calls[k]
  BY <1>1, <1>2, PopFrame DEF FInv
<1>5. TypeOK'
  BY <1>1, <1>2, <1>3, <1>4 DEF FInv, TypeOK, Frame
<1>6. base' + locals' <= current' + 1
  <2>1. f.base \in Int /\ f.locals \in Int /\ current' \in Int
    BY <1>1, <1>3, ConstantsAreNumbers
  <2> HIDE DEF f
  <2> QED BY <1>1, <1>2, <1>3, <2>1, Numbers
<1>7. FramesStack'
  <2>1. ASSUME NEW k \in 1 .. Len(calls')
        PROVE  LET next == IF k < Len(calls') THEN calls'[k + 1].base ELSE base'
               IN  next = calls'[k].current + 1 /\ calls'[k].base + calls'[k].locals <= next
    <3>1. k \in 1 .. Len(calls) - 1 /\ k < Len(calls) /\ k \in 1 .. Len(calls)
      BY <1>4
    <3>2. /\ calls[k + 1].base = calls[k].current + 1
          /\ calls[k].base + calls[k].locals <= calls[k + 1].base
      BY <3>1 DEF FInv, FramesStack
    <3>3. CASE k < Len(calls')
      <4>1. calls'[k] = calls[k] /\ calls'[k + 1] = calls[k + 1]
        BY <1>4, <3>3
      <4> QED BY <3>2, <3>3, <4>1
    <3>4. CASE k = Len(calls')
      <4>1. calls'[k] = calls[k] /\ k + 1 = Len(calls)
        BY <1>4, <3>4
      <4> QED BY <1>2, <3>2, <3>4, <4>1
    <3> QED BY <1>4, <3>3, <3>4
  <2> QED BY <1>6, <2>1 DEF FramesStack
<1>8. Bounded'
  <2>1. base' + locals' <= IndexRange /\ running'
    BY <1>1, <1>2, <1>3
  <2>2. ASSUME NEW k \in 1 .. Len(calls')
        PROVE  calls'[k].base + calls'[k].locals <= IndexRange
    BY <1>4 DEF FInv, Bounded
  <2>3. calls' = <<>> => base' = 0
    <3> SUFFICES ASSUME calls' = <<>> PROVE base' = 0
      OBVIOUS
    <3>1. Len(calls) = 1
      BY <1>4
    <3> QED BY <1>1, <1>2, <3>1 DEF FInv, Bounded
  <2>4. calls' # <<>> => calls'[1].base = 0
    <3> SUFFICES ASSUME calls' # <<>> PROVE calls'[1].base = 0
      OBVIOUS
    <3>1. 1 \in 1 .. Len(calls) - 1
      BY <1>4, EmptySeq
    <3> QED BY <1>1, <1>4, <3>1 DEF FInv, Bounded
  <2> QED BY <2>1, <2>2, <2>3, <2>4 DEF Bounded
<1> QED BY <1>1, <1>5, <1>7, <1>8 DEF FInv

LEMMA StartKeeps ==
  ASSUME FInv, Shallow, NEW np \in 0 .. MaxLocals, NEW nl \in 0 .. MaxLocals,
         Start(np, nl)
  PROVE  FInv' /\ Mine
<1>1. /\ ~running /\ running' = TRUE /\ current' = current + nl - np
      /\ locals' = nl /\ UNCHANGED <<slot, base, calls, heap, forgotten, fault>>
  BY DEF Start
<1>2. np = 0
  BY ConstantsAreNumbers DEF Start, Shallow
<1>3. calls = <<>> /\ current = -1 /\ base = 0
  BY <1>1 DEF FInv, Bounded
<1>4. current' = nl - 1 /\ nl \in Nat /\ nl < IndexRange
  BY <1>1, <1>2, <1>3, ConstantsAreNumbers
<1>5. TypeOK'
  BY <1>1, <1>4, ConstantsAreNumbers DEF FInv, TypeOK
<1>6. FramesStack'
  BY <1>1, <1>3, <1>4 DEF FramesStack
<1>7. Bounded'
  BY <1>1, <1>3, <1>4, ConstantsAreNumbers DEF Bounded
<1>8. Mine
  BY <1>1 DEF Mine
<1> QED BY <1>5, <1>6, <1>7, <1>8 DEF FInv

LEMMA EndsKeeps ==
  ASSUME FInv, NEW b \in BOOLEAN, Ends(b) PROVE FInv' /\ Mine
<1>1. /\ running /\ calls = <<>> /\ running' = FALSE /\ slot' = Array
      /\ current' = -1 /\ UNCHANGED <<base, locals, calls>>
      /\ heap' \subseteq heap /\ forgotten' \subseteq forgotten /\ fault' \in Faults
  BY DEF Ends, Ready, Array, Faults
<1>2. base = 0
  BY <1>1 DEF FInv, Bounded
<1>3. TypeOK'
  <2>1. Array \in [Slot -> Content] /\ -1 \in -1 .. StackSize - 1
    BY <1>1, ResultType, ConstantsAreNumbers
  <2> QED BY <1>1, <2>1 DEF FInv, TypeOK, Faults
<1>4. FramesStack'
  BY <1>1 DEF FramesStack
<1>5. Bounded'
  BY <1>1, <1>2 DEF FInv, Bounded
<1>6. Mine
  BY <1>2 DEF Mine, Slot
<1> QED BY <1>3, <1>4, <1>5, <1>6 DEF FInv

LEMMA StepKeeps ==
  ASSUME FInv, Shallow, [Next]_vars PROVE FInv' /\ (UNCHANGED vars \/ Mine)
<1>1. CASE PushInt
  <2>1. running /\ PushOn(slot, current, "int") /\ "int" \in Content
        /\ UNCHANGED <<base, locals, calls, running>>
    BY <1>1 DEF PushInt, Ready, Content
  <2>2. heap' \subseteq Str /\ forgotten' \subseteq Str /\ fault' \in Faults
    BY <1>1 DEF PushInt, FInv, TypeOK, Faults
  <2> QED BY <2>1, <2>2, PushKeeps
<1>2. ASSUME NEW s \in Str, PushStr(s) PROVE FInv' /\ Mine
  <2>1. running /\ PushOn(slot, current, s) /\ s \in Content
        /\ UNCHANGED <<base, locals, calls, running>>
    BY <1>2 DEF PushStr, Ready, Content
  <2>2. heap' \subseteq Str /\ forgotten' \subseteq Str /\ fault' \in Faults
    BY <1>2 DEF PushStr, FInv, TypeOK, Faults
  <2> QED BY <2>1, <2>2, PushKeeps
<1>3. ASSUME NEW argc \in 0 .. MaxArgs, NEW v \in Content, FetchValue(argc, v)
      PROVE  FInv' /\ Mine
  <2>1. running /\ PushOn(slot, current, v)
        /\ UNCHANGED <<base, locals, calls, running>>
    BY <1>3 DEF FetchValue, Ready
  <2>2. heap' \subseteq Str /\ forgotten' \subseteq Str /\ fault' \in Faults
    BY <1>3 DEF FetchValue, FInv, TypeOK, Faults
  <2> QED BY <2>1, <2>2, PushKeeps
<1>4. CASE EndTask
  BY <1>4, EndsKeeps DEF EndTask
<1>5. CASE EndInput
  BY <1>5, EndsKeeps DEF EndInput
<1>6. CASE UNCHANGED vars
  BY <1>6 DEF vars, FInv, TypeOK, FramesStack, Bounded
<1> QED
  BY <1>1, <1>2, <1>3, <1>4, <1>5, <1>6, ConsumeKeeps, ForgetKeeps, SaveKeeps,
     GetKeeps, CallKeeps, MissingKeeps, ReturnKeeps, StartKeeps DEF Next

LEMMA InitFInv == Init => FInv
<1> SUFFICES ASSUME Init PROVE FInv
  OBVIOUS
<1>1. <<>> \in Seq([current : -1 .. StackSize - 1, base : 0 .. StackSize,
                    locals : 0 .. MaxLocals]) /\ Len(<<>>) = 0
  OBVIOUS
<1>2. TypeOK
  <2>1. slot \in [Slot -> Content]
    BY DEF Init, Content
  <2>2. current \in -1 .. StackSize - 1 /\ base \in 0 .. StackSize
        /\ locals \in 0 .. MaxLocals
    BY ConstantsAreNumbers DEF Init
  <2> QED BY <1>1, <2>1, <2>2 DEF Init, TypeOK
<1>3. FramesStack
  BY DEF Init, FramesStack
<1>4. Bounded
  BY ConstantsAreNumbers DEF Init, Bounded
<1> QED BY <1>2, <1>3, <1>4 DEF FInv

(* The stack and the call stack keep their types as long as calls stay     *)
(* within the stack and the range of an index and the items that the loop  *)
(* starts have no parameters, whatever else compiled code does.            *)
THEOREM TypeCorrect ==
  ASSUME Shallow
  PROVE  Spec => []TypeOK
<1>1. FInv /\ [Next]_vars => FInv'
  BY StepKeeps
<1>2. FInv => TypeOK
  BY DEF FInv
<1> QED BY <1>1, <1>2, InitFInv, PTL DEF Spec

(* Frames lie one upon another: push_callstack, interpret and pop_callstack *)
(* agree on where an item's slots begin and end at every depth.            *)
THEOREM FramesNest ==
  ASSUME Shallow
  PROVE  Spec => []FramesStack
<1>1. FInv /\ [Next]_vars => FInv'
  BY StepKeeps
<1>2. FInv => FramesStack
  BY DEF FInv
<1> QED BY <1>1, <1>2, InitFInv, PTL DEF Spec

(* No item ever changes a slot of the items that called it, not even when  *)
(* it returns without a value and its result is taken from the caller.     *)
THEOREM CallersAreKept ==
  ASSUME Shallow
  PROVE  Spec => FrameIsOwn
<1>1. FInv /\ [Next]_vars => FInv'
  BY StepKeeps
<1>2. FInv /\ [Next]_vars => [\A s \in Slot : s < base => slot'[s] = slot[s]]_vars
  BY StepKeeps DEF Mine
<1> QED BY <1>1, <1>2, InitFInv, PTL DEF Spec, FrameIsOwn

-----------------------------------------------------------------------------
(* Strings, in ordinary play.                                              *)

Ordinary == Careless = {}

(* The strings of an array are those of a set, each in one slot.           *)
OwnedBy(a, h) ==
  /\ h = {a[s] : s \in Slot} \cap Str
  /\ \A s, t \in Slot : a[s] \in Str /\ a[s] = a[t] => s = t

Plain(a, from, to) == \A s \in Slot : from <= s /\ s < to => a[s] \notin Str

(* No local of a frame and no slot above the top is a string; the frames   *)
(* below end where those above begin.                                      *)
OInv ==
  /\ OwnedBy(slot, heap)
  /\ fault = "none"
  /\ Plain(slot, current + 1, StackSize)
  /\ Plain(slot, base, base + locals)
  /\ \A k \in 1 .. Len(calls) :
       /\ Plain(slot, calls[k].base, calls[k].base + calls[k].locals)
       /\ calls[k].base + calls[k].locals <= base
       /\ \A j \in 1 .. k - 1 : calls[j].base + calls[j].locals <= calls[k].base

LEMMA FreeOnce ==
  ASSUME FInv, OInv, NEW S, S \subseteq Slot, Free(S)
  PROVE  fault' = "none" /\ heap' = heap \ Strings(S)
<1>1. Strings(S) \subseteq Allocated
  BY DEF Strings, OInv, OwnedBy, Allocated
<1>2. ~ \E s, t \in S : s # t /\ slot[s] \in Str /\ slot[s] = slot[t]
  BY DEF OInv, OwnedBy
<1> QED BY <1>1, <1>2 DEF Free

LEMMA ClearedOwned ==
  ASSUME FInv, OInv, NEW S, S \subseteq Slot
  PROVE  /\ OwnedBy(Cleared(S), heap \ Strings(S))
         /\ \A s \in Slot : Cleared(S)[s] \in Str => s \notin S /\ Cleared(S)[s] = slot[s]
<1>1. "nil" \notin Str
  BY StackAssumption
<1>2. \A s \in Slot : Cleared(S)[s] = IF s \in S THEN "nil" ELSE slot[s]
  BY ClearedType DEF FInv
<1>3. \A s \in Slot : Cleared(S)[s] \in Str => s \notin S /\ Cleared(S)[s] = slot[s]
  BY <1>1, <1>2
<1>4. \A s, t \in Slot : slot[s] \in Str /\ slot[s] = slot[t] => s = t
  BY DEF OInv, OwnedBy
<1>5. heap \ Strings(S) = {Cleared(S)[s] : s \in Slot} \cap Str
  <2>1. ASSUME NEW x \in heap \ Strings(S) PROVE x \in {Cleared(S)[s] : s \in Slot} \cap Str
    <3>1. PICK s \in Slot : x = slot[s] /\ x \in Str
      BY <2>1 DEF OInv, OwnedBy
    <3>2. s \notin S
      BY <2>1, <3>1 DEF Strings
    <3> QED BY <1>2, <3>1, <3>2
  <2>2. ASSUME NEW s \in Slot, Cleared(S)[s] \in Str PROVE Cleared(S)[s] \in heap \ Strings(S)
    <3>1. s \notin S /\ Cleared(S)[s] = slot[s]
      BY <1>3, <2>2
    <3>2. slot[s] \in heap
      BY <2>2, <3>1 DEF OInv, OwnedBy
    <3>3. slot[s] \notin Strings(S)
      BY <1>4, <2>2, <3>1 DEF Strings
    <3> QED BY <3>1, <3>2, <3>3
  <2> QED BY <2>1, <2>2
<1>6. ASSUME NEW s \in Slot, NEW t \in Slot,
             Cleared(S)[s] \in Str, Cleared(S)[s] = Cleared(S)[t]
      PROVE  s = t
  BY <1>3, <1>4, <1>6
<1> QED BY <1>3, <1>5, <1>6 DEF OwnedBy

LEMMA PutOwned ==
  ASSUME NEW a \in [Slot -> Content], NEW h, OwnedBy(a, h), NEW p \in Slot,
         a[p] \notin Str, NEW v \in Content, v \notin h
  PROVE  /\ OwnedBy([a EXCEPT ![p] = v], h \cup ({v} \cap Str))
         /\ \A s \in Slot : s # p => [a EXCEPT ![p] = v][s] = a[s]
<1> DEFINE b == [a EXCEPT ![p] = v]
<1>1. b[p] = v /\ \A s \in Slot : s # p => b[s] = a[s]
  OBVIOUS
<1> HIDE DEF b
<1>2. \A s \in Slot : a[s] \in Str => a[s] # v /\ a[s] \in h
  BY DEF OwnedBy
<1>3. h \cup ({v} \cap Str) = {b[s] : s \in Slot} \cap Str
  <2>1. ASSUME NEW x \in h PROVE x \in {b[s] : s \in Slot} \cap Str
    <3>1. PICK s \in Slot : x = a[s] /\ x \in Str
      BY <2>1 DEF OwnedBy
    <3> QED BY <1>1, <3>1
  <2>2. v \in {b[s] : s \in Slot}
    BY <1>1
  <2>3. \A s \in Slot : b[s] \in Str => b[s] \in h \cup ({v} \cap Str)
    BY <1>1, <1>2
  <2> QED BY <2>1, <2>2, <2>3
<1>4. \A s, t \in Slot : b[s] \in Str /\ b[s] = b[t] => s = t
  BY <1>1, <1>2 DEF OwnedBy
<1> QED BY <1>1, <1>3, <1>4 DEF OwnedBy, b

LEMMA FrameType ==
  ASSUME FInv PROVE \A k \in 1 .. Len(calls) : calls[k] \in Frame
<1>1. calls \in Seq(Frame)
  BY DEF FInv, TypeOK, Frame
<1> HIDE DEF Frame
<1> QED BY <1>1

\* No string above the top.
LEMMA StringsBelow ==
  ASSUME FInv, OInv PROVE \A s \in Slot : slot[s] \in Str => s <= current
<1> SUFFICES ASSUME NEW s \in Slot, s > current PROVE slot[s] \notin Str
  BY Numbers, ConstantsAreNumbers DEF Slot
<1>1. current + 1 <= s /\ s < StackSize
  BY Numbers, ConstantsAreNumbers DEF Slot
<1> QED BY <1>1 DEF OInv, Plain

(* An operation on the running item's own values.                          *)
LEMMA SameFrameOwned ==
  ASSUME FInv, OInv, running, UNCHANGED <<base, locals, calls>>,
         OwnedBy(slot', heap'), fault' = "none",
         \A s \in Slot : slot'[s] \in Str => s <= current',
         \A s \in Slot : slot'[s] \in Str /\ s < base + locals => slot[s] \in Str,
         current' \in Int
  PROVE  OInv'
<1>1. Plain(slot', current' + 1, StackSize)
  <2> SUFFICES ASSUME NEW s \in Slot, slot'[s] \in Str, current' + 1 <= s PROVE FALSE
    BY DEF Plain
  <2>1. s \in Int /\ current' \in Int
    BY ConstantsAreNumbers DEF Slot
  <2>2. s <= current' /\ current' + 1 <= s
    OBVIOUS
  <2>3. \A c \in Int : ~(s <= c /\ c + 1 <= s)
    BY <2>1
  <2> QED BY <2>1, <2>2, <2>3
<1>2. Plain(slot', base, base + locals)
  BY DEF Plain, OInv
<1>3. ASSUME NEW k \in 1 .. Len(calls)
      PROVE  Plain(slot', calls[k].base, calls[k].base + calls[k].locals)
  <2>1. /\ Plain(slot, calls[k].base, calls[k].base + calls[k].locals)
        /\ calls[k].base + calls[k].locals <= base
    BY DEF OInv
  <2>2. calls[k] \in Frame
    BY FrameType
  <2>3. calls[k].base + calls[k].locals \in Int
    BY <2>2, ConstantsAreNumbers DEF Frame
  <2>4. \A s \in Slot : s < calls[k].base + calls[k].locals => s < base + locals
    BY <2>1, <2>3, Numbers, ConstantsAreNumbers, SMTT(30) DEF Slot
  <2> QED BY <2>1, <2>4 DEF Plain
<1> QED BY <1>1, <1>2, <1>3 DEF OInv

LEMMA PushOwned ==
  ASSUME FInv, OInv, Ordinary, running, NEW v \in Content, v \notin heap,
         current + 1 < StackSize, PushOn(slot, current, v),
         heap' = heap \cup ({v} \cap Str), fault' = "none",
         UNCHANGED <<base, locals, calls>>
  PROVE  OInv'
<1>1. slot' = [slot EXCEPT ![current + 1] = v] /\ current' = current + 1
      /\ current + 1 \in Slot /\ current' \in Int
  BY Numbers, ConstantsAreNumbers DEF PushOn, Slot
<1>2. slot[current + 1] \notin Str /\ slot \in [Slot -> Content]
  BY <1>1, Numbers, ConstantsAreNumbers DEF OInv, Plain, FInv, TypeOK, Slot
<1>3. /\ OwnedBy(slot', heap')
      /\ \A s \in Slot : s # current + 1 => slot'[s] = slot[s]
  BY <1>1, <1>2, PutOwned DEF OInv
<1>4. \A s \in Slot : slot'[s] \in Str => s <= current'
  BY <1>1, <1>3, Numbers, ConstantsAreNumbers DEF OInv, Plain, Slot
<1>5. \A s \in Slot : s < base + locals => s # current + 1
  BY Numbers, ConstantsAreNumbers DEF Slot
<1> QED BY <1>1, <1>3, <1>4, <1>5, SameFrameOwned

LEMMA ConsumeOwned == ASSUME FInv, OInv, Consume PROVE OInv'
<1>1. /\ running /\ Own > 0 /\ slot' = Cleared({current})
      /\ current' = current - 1 /\ Free({current})
      /\ UNCHANGED <<base, locals, calls>>
  BY DEF Consume, Ready
<1>2. {current} \subseteq Slot /\ current' \in Int
  BY <1>1, Numbers, ConstantsAreNumbers DEF Own, Slot
<1>3. fault' = "none" /\ heap' = heap \ Strings({current})
  BY <1>1, <1>2, FreeOnce
<1>4. /\ OwnedBy(slot', heap')
      /\ \A s \in Slot : slot'[s] \in Str => s # current /\ slot'[s] = slot[s]
  BY <1>1, <1>2, <1>3, ClearedOwned
<1>5. \A s \in Slot : slot'[s] \in Str => s <= current'
  <2> SUFFICES ASSUME NEW s \in Slot, slot'[s] \in Str PROVE s <= current'
    OBVIOUS
  <2>1. s # current /\ s <= current
    BY <1>4, StringsBelow
  <2> QED BY <1>1, <2>1, Numbers, ConstantsAreNumbers DEF Slot
<1> QED BY <1>1, <1>2, <1>3, <1>4, <1>5, SameFrameOwned

LEMMA ForgetOwned == ASSUME FInv, OInv, Forget PROVE OInv'
<1>1. /\ running /\ Own > 0 /\ slot' = Cleared({current})
      /\ current' = current - 1 /\ slot[current] \in Str
      /\ heap' = heap \ {slot[current]}
      /\ UNCHANGED <<base, locals, calls>>
  BY DEF Forget, Ready
<1>2. {current} \subseteq Slot /\ current \in Slot /\ current' \in Int
  BY <1>1, Numbers, ConstantsAreNumbers DEF Own, Slot
<1>3. fault' = "none"
  BY <1>1, <1>2 DEF Forget, OInv, OwnedBy, Allocated
<1>4. Strings({current}) = {slot[current]}
  BY <1>1 DEF Strings
<1>5. /\ OwnedBy(slot', heap')
      /\ \A s \in Slot : slot'[s] \in Str => s # current /\ slot'[s] = slot[s]
  BY <1>1, <1>2, <1>4, ClearedOwned
<1>6. \A s \in Slot : slot'[s] \in Str => s <= current'
  <2> SUFFICES ASSUME NEW s \in Slot, slot'[s] \in Str PROVE s <= current'
    OBVIOUS
  <2>1. s # current /\ s <= current
    BY <1>5, StringsBelow
  <2> QED BY <1>1, <2>1, Numbers, ConstantsAreNumbers DEF Slot
<1> QED BY <1>1, <1>2, <1>3, <1>5, <1>6, SameFrameOwned

LEMMA SaveOwned ==
  ASSUME FInv, OInv, Ordinary, NEW i \in 0 .. MaxLocals - 1, SaveLocal(i)
  PROVE  OInv'
<1>1. /\ running /\ Own > 0 /\ i < locals /\ slot[current] \notin Str
      /\ slot' = [slot EXCEPT ![Index(i)] = slot[current]]
      /\ current' = current - 1 /\ Free({Index(i)})
      /\ UNCHANGED <<base, locals, calls>>
  BY DEF SaveLocal, Ready, Ordinary
<1>2. i \in Nat /\ slot \in [Slot -> Content]
  BY ConstantsAreNumbers DEF FInv, TypeOK
<1>3. Index(i) = i + base /\ Index(i) \in Slot
  BY <1>1, <1>2, IndexInFrame
<1>4. slot[Index(i)] \notin Str
  BY <1>1, <1>2, <1>3, Numbers DEF OInv, Plain
<1>5. current \in Slot /\ current' \in Int
  BY <1>1, Numbers, ConstantsAreNumbers DEF Own, Slot
<1>6. slot[current] \in Content /\ slot[current] \notin heap
  BY <1>1, <1>2, <1>5 DEF FInv, TypeOK
<1>7. /\ OwnedBy(slot', heap \cup ({slot[current]} \cap Str))
      /\ \A s \in Slot : s # Index(i) => slot'[s] = slot[s]
  BY <1>1, <1>2, <1>3, <1>4, <1>6, PutOwned DEF OInv
<1>8. fault' = "none" /\ heap' = heap
  <2>1. {Index(i)} \subseteq Slot /\ Strings({Index(i)}) = {}
    BY <1>3, <1>4 DEF Strings
  <2>2. fault' = "none" /\ heap' = heap \ Strings({Index(i)})
    BY <1>1, <2>1, FreeOnce
  <2> QED BY <2>1, <2>2
<1>9. OwnedBy(slot', heap')
  <2>1. heap \cup ({slot[current]} \cap Str) = heap
    BY <1>1
  <2> QED BY <1>7, <1>8, <2>1
<1>10. \A s \in Slot : slot'[s] \in Str => slot[s] \in Str /\ s # current
  BY <1>1, <1>2, <1>3, <1>7
<1>11. \A s \in Slot : slot'[s] \in Str => s <= current'
  <2> SUFFICES ASSUME NEW s \in Slot, slot'[s] \in Str PROVE s <= current'
    OBVIOUS
  <2>1. s # current /\ s <= current
    BY <1>10, StringsBelow
  <2> QED BY <1>1, <2>1, Numbers, ConstantsAreNumbers DEF Slot
<1> QED BY <1>1, <1>5, <1>8, <1>9, <1>10, <1>11, SameFrameOwned

LEMMA GetOwned ==
  ASSUME FInv, OInv, Ordinary, NEW i \in 0 .. MaxLocals - 1, GetLocal(i)
  PROVE  OInv'
<1>1. /\ running /\ i < locals /\ current + 1 < StackSize
      /\ UNCHANGED <<base, locals, calls>>
  BY DEF GetLocal, Ready, Room, Ordinary
<1>2. i \in Nat /\ slot \in [Slot -> Content]
  BY ConstantsAreNumbers DEF FInv, TypeOK
<1>3. Index(i) = i + base /\ Index(i) \in Slot
  BY <1>1, <1>2, IndexInFrame
<1>4. slot[Index(i)] \notin Str /\ slot[Index(i)] \in Content
  BY <1>1, <1>2, <1>3, Numbers DEF OInv, Plain
<1>5. ~(current + 1 >= StackSize)
  BY <1>1, Numbers, ConstantsAreNumbers
<1>6. /\ slot' = [slot EXCEPT ![current + 1] = slot[Index(i)]]
      /\ current' = current + 1 /\ UNCHANGED <<heap, fault>>
  BY <1>4, <1>5 DEF GetLocal, FInv, TypeOK, Allocated
<1>7. slot[Index(i)] \notin heap /\ heap' = heap \cup ({slot[Index(i)]} \cap Str)
  BY <1>4, <1>6 DEF FInv, TypeOK
<1>8. PushOn(slot, current, slot[Index(i)])
  BY <1>1, <1>6, Numbers, ConstantsAreNumbers DEF PushOn
<1>9. fault' = "none"
  BY <1>6 DEF OInv
<1> QED BY <1>1, <1>4, <1>7, <1>8, <1>9, PushOwned

LEMMA MissingOwned ==
  ASSUME FInv, OInv, NEW argc \in 0 .. MaxArgs, FetchMissing(argc)
  PROVE  OInv'
<1> DEFINE S == Topmost(current, argc)
           c == current - argc
<1>1. /\ running /\ argc <= Own /\ c + 1 < StackSize
      /\ Free(S) /\ PushOn(Cleared(S), c, "nil")
      /\ UNCHANGED <<base, locals, calls>>
  BY DEF FetchMissing, Ready
<1>2. /\ argc \in Nat /\ c \in -1 .. StackSize - 1 /\ base + locals <= c + 1
      /\ c < StackSize - 1 /\ c + 1 \in Slot /\ c \in Int
  BY <1>1, Numbers, ConstantsAreNumbers DEF Own, Slot
<1>3. S \subseteq Slot
  BY <1>2, Numbers, ConstantsAreNumbers DEF Topmost, Slot
<1>4. fault' = "none" /\ heap' = heap \ Strings(S)
  BY <1>1, <1>3, FreeOnce
<1>5. /\ OwnedBy(Cleared(S), heap')
      /\ \A s \in Slot : Cleared(S)[s] \in Str => s \notin S /\ Cleared(S)[s] = slot[s]
  BY <1>3, <1>4, ClearedOwned
<1>6. \A s \in Slot : Cleared(S)[s] \in Str => s <= c
  <2> SUFFICES ASSUME NEW s \in Slot, Cleared(S)[s] \in Str PROVE s <= c
    OBVIOUS
  <2>1. s \notin S /\ s <= current
    BY <1>5, StringsBelow
  <2> QED BY <1>2, <2>1, Numbers, ConstantsAreNumbers DEF Topmost, Slot
<1>7. "nil" \in Content /\ "nil" \notin Str /\ "nil" \notin heap' /\ {"nil"} \cap Str = {}
  BY <1>4, StackAssumption DEF Content, FInv, TypeOK
<1>8. Cleared(S) \in [Slot -> Content]
  BY ClearedType DEF FInv
<1> HIDE DEF S, c
<1>9. slot' = [Cleared(S) EXCEPT ![c + 1] = "nil"] /\ current' = c + 1
  BY <1>1, <1>2 DEF PushOn
<1>10. Cleared(S)[c + 1] \notin Str
  <2>1. ~(c + 1 <= c)
    BY <1>2
  <2> QED BY <1>2, <1>6, <2>1
<1>11. OwnedBy(slot', heap' \cup ({"nil"} \cap Str))
       /\ \A s \in Slot : s # c + 1 => slot'[s] = Cleared(S)[s]
  BY <1>2, <1>5, <1>7, <1>8, <1>9, <1>10, PutOwned
<1>12. OwnedBy(slot', heap')
  <2>1. heap' \cup ({"nil"} \cap Str) = heap'
    BY <1>7
  <2> QED BY <1>11, <2>1
<1>13. slot'[c + 1] = "nil"
  BY <1>2, <1>8, <1>9
<1>14. \A s \in Slot : slot'[s] \in Str => Cleared(S)[s] \in Str /\ slot[s] \in Str
  BY <1>5, <1>7, <1>11, <1>13
<1>15. \A s \in Slot : slot'[s] \in Str => s <= current'
  <2> SUFFICES ASSUME NEW s \in Slot, slot'[s] \in Str PROVE s <= current'
    OBVIOUS
  <2>1. s <= c
    BY <1>6, <1>14
  <2> QED BY <1>2, <1>9, <2>1, ConstantsAreNumbers DEF Slot
<1>16. current' \in Int
  BY <1>2, <1>9
<1> QED BY <1>1, <1>4, <1>12, <1>14, <1>15, <1>16, SameFrameOwned

(* Where the strings of the caller are after a call: below its arguments.  *)
LEMMA CallStrings ==
  ASSUME FInv, OInv, Ordinary, NEW argc \in 0 .. MaxArgs,
         NEW np \in 0 .. MaxLocals, NEW nl \in 0 .. MaxLocals,
         Call(argc, np, nl)
  PROVE  /\ OwnedBy(slot', heap') /\ fault' = "none"
         /\ \A s \in Slot : slot'[s] \in Str => slot[s] \in Str /\ s <= Floor(argc, np)
<1> DEFINE lost == Lost(argc, np)
           gone == Lost(argc, np) \cup Missing(argc, np)
<1>1. Shallow
  BY DEF Shallow, Ordinary
<1>2. /\ argc <= Own /\ np <= nl /\ Free(lost) /\ slot' = Cleared(gone) /\ running
      /\ Floor(argc, np) + nl \in -1 .. StackSize - 1
      /\ Floor(argc, np) \in -1 .. StackSize - 1
  BY <1>1, CallArithmetic
<1>3. argc \in Nat /\ np \in Nat /\ nl \in Nat
  BY ConstantsAreNumbers
<1>4. Floor(argc, np) = current - argc /\ current - argc >= -1
  BY <1>2, Numbers DEF Floor
<1>5. lost \subseteq Slot /\ gone \subseteq Slot
  <2>1. lost \subseteq Slot
    <3> SUFFICES ASSUME NEW s \in (current - (argc - np) + 1) .. current PROVE s \in Slot
      BY DEF Lost, Topmost
    <3> QED BY <1>3, <1>4, Numbers, ConstantsAreNumbers DEF Slot
  <2>2. Missing(argc, np) \subseteq Slot
    <3> SUFFICES ASSUME NEW s \in (current + 1) .. (current + np - argc) PROVE s \in Slot
      BY DEF Missing
    <3>1. current - argc + nl <= StackSize - 1
      BY <1>2, <1>4, ConstantsAreNumbers
    <3> QED BY <1>2, <1>3, <1>4, <3>1, Numbers, ConstantsAreNumbers DEF Slot
  <2> QED BY <2>1, <2>2
<1>6. Strings(gone) = Strings(lost)
  <2>1. \A s \in Missing(argc, np) : s \in Slot /\ s > current
    BY <1>3, <1>5, Numbers, ConstantsAreNumbers DEF Missing, Slot
  <2>2. \A s \in Missing(argc, np) : slot[s] \notin Str
    <3> SUFFICES ASSUME NEW s \in Missing(argc, np), slot[s] \in Str PROVE FALSE
      OBVIOUS
    <3>1. s \in Slot /\ s > current /\ s <= current
      BY <2>1, StringsBelow
    <3> QED BY <3>1, Numbers, ConstantsAreNumbers DEF Slot
  <2> QED BY <2>2 DEF Strings
<1>7. fault' = "none" /\ heap' = heap \ Strings(lost)
  BY <1>2, <1>5, FreeOnce
<1>8. /\ OwnedBy(slot', heap')
      /\ \A s \in Slot : slot'[s] \in Str => s \notin gone /\ slot'[s] = slot[s]
  <2> HIDE DEF gone
  <2>1. /\ OwnedBy(Cleared(gone), heap \ Strings(gone))
        /\ \A s \in Slot : Cleared(gone)[s] \in Str
                           => s \notin gone /\ Cleared(gone)[s] = slot[s]
    BY <1>5, ClearedOwned
  <2> QED BY <1>2, <1>6, <1>7, <2>1
<1>9. \A s \in Slot : slot'[s] \in Str => s <= current - argc
  <2> SUFFICES ASSUME NEW s \in Slot, slot'[s] \in Str, s > current - argc PROVE FALSE
    BY <1>3, Numbers, ConstantsAreNumbers DEF Slot
  <2>1. s \notin gone /\ slot[s] \in Str /\ s <= current /\ s \in Int
    BY <1>8, StringsBelow, ConstantsAreNumbers DEF Slot
  <2>2. Strings(Topmost(current - (IF argc > np THEN argc - np ELSE 0),
                        IF argc > np THEN np ELSE argc)) = {}
    BY DEF Call, Ordinary
  <2>3. CASE argc > np
    <3>1. s \notin Topmost(current, argc - np)
      BY <2>1 DEF Lost
    <3>2. s <= current - (argc - np)
      BY <1>3, <2>1, <3>1, Numbers DEF Topmost
    <3>3. s \in Topmost(current - (argc - np), np)
      BY <1>3, <2>1, <3>2, Numbers DEF Topmost
    <3>4. Strings(Topmost(current - (argc - np), np)) = {}
      BY <2>2, <2>3
    <3> QED BY <2>1, <3>3, <3>4 DEF Strings
  <2>4. CASE ~(argc > np)
    <3>1. s \in Topmost(current - 0, argc)
      BY <1>3, <2>1, Numbers DEF Topmost
    <3>2. Strings(Topmost(current - 0, argc)) = {}
      BY <2>2, <2>4
    <3> QED BY <2>1, <3>1, <3>2 DEF Strings
  <2> QED BY <2>3, <2>4
<1> QED BY <1>4, <1>7, <1>8, <1>9

LEMMA CallOwned ==
  ASSUME FInv, OInv, Ordinary, NEW argc \in 0 .. MaxArgs,
         NEW np \in 0 .. MaxLocals, NEW nl \in 0 .. MaxLocals,
         Call(argc, np, nl)
  PROVE  OInv'
<1> DEFINE floor == Floor(argc, np)
           frame == CallersFrame(argc, np)
<1>1. Shallow
  BY DEF Shallow, Ordinary
<1>2. /\ calls' = Append(calls, frame)
      /\ current' = floor + nl /\ base' = floor + 1 /\ locals' = nl
      /\ base + locals <= floor + 1
      /\ floor \in -1 .. StackSize - 1
  BY <1>1, CallArithmetic
<1>3. /\ OwnedBy(slot', heap') /\ fault' = "none"
      /\ \A s \in Slot : slot'[s] \in Str => slot[s] \in Str /\ s <= floor
  BY CallStrings
<1>4. frame.base = base /\ frame.locals = locals
      /\ frame = [current |-> floor, base |-> base, locals |-> locals]
  BY DEF CallersFrame
<1>5. nl \in Nat /\ floor \in Int
  BY <1>2, ConstantsAreNumbers
<1> HIDE DEF floor, frame
<1>6. frame \in Frame
  BY <1>2, <1>4, Numbers DEF Frame
<1>7. /\ Len(calls) \in Nat /\ Len(calls') = Len(calls) + 1
      /\ calls'[Len(calls) + 1] = frame
      /\ \A k \in 1 .. Len(calls) : calls'[k] = calls[k]
  BY <1>2, <1>6, PushFrame DEF FInv
<1>8. ASSUME NEW from \in Int, NEW to \in Int, floor + 1 <= from
      PROVE  Plain(slot', from, to)
  <2> SUFFICES ASSUME NEW s \in Slot, from <= s, slot'[s] \in Str PROVE FALSE
    BY DEF Plain
  <2>1. s <= floor /\ s \in Int
    BY <1>3, ConstantsAreNumbers DEF Slot
  <2> QED BY <1>5, <1>8, <2>1
<1>9. Plain(slot', current' + 1, StackSize) /\ Plain(slot', base', base' + locals')
  <2>1. floor + nl + 1 \in Int /\ floor + 1 <= floor + nl + 1 /\ floor + 1 \in Int
        /\ floor + 1 + nl \in Int /\ StackSize \in Int
    BY <1>5, ConstantsAreNumbers
  <2> QED BY <1>2, <1>8, <2>1
<1>10. ASSUME NEW k \in 1 .. Len(calls)
       PROVE  /\ Plain(slot', calls[k].base, calls[k].base + calls[k].locals)
              /\ calls[k].base + calls[k].locals <= base
              /\ calls[k].base + calls[k].locals <= floor + 1
              /\ \A j \in 1 .. k - 1 : calls[j].base + calls[j].locals <= calls[k].base
  <2>1. /\ Plain(slot, calls[k].base, calls[k].base + calls[k].locals)
        /\ calls[k].base + calls[k].locals <= base
        /\ \A j \in 1 .. k - 1 : calls[j].base + calls[j].locals <= calls[k].base
    BY DEF OInv
  <2>2. calls[k].base \in Int /\ calls[k].locals \in Int
    BY FrameType, ConstantsAreNumbers DEF Frame
  <2>3. Plain(slot', calls[k].base, calls[k].base + calls[k].locals)
    BY <1>3, <2>1 DEF Plain
  <2>4. calls[k].base + calls[k].locals <= floor + 1
    <3>1. \A e \in Int : e <= base => e <= floor + 1
      BY <1>2, <1>5, Numbers, ConstantsAreNumbers, SMTT(30)
    <3> QED BY <2>1, <2>2, <3>1
  <2> QED BY <2>1, <2>3, <2>4
<1>11. Plain(slot', frame.base, frame.base + frame.locals)
  BY <1>3, <1>4 DEF Plain, OInv
<1>12. ASSUME NEW k \in 1 .. Len(calls')
       PROVE  /\ Plain(slot', calls'[k].base, calls'[k].base + calls'[k].locals)
              /\ calls'[k].base + calls'[k].locals <= base'
              /\ \A j \in 1 .. k - 1 : calls'[j].base + calls'[j].locals <= calls'[k].base
  <2>1. CASE k \in 1 .. Len(calls)
    BY <1>2, <1>7, <1>10, <2>1
  <2>2. CASE k = Len(calls) + 1
    BY <1>2, <1>4, <1>7, <1>10, <1>11, <2>2
  <2> QED BY <1>7, <2>1, <2>2
<1> QED BY <1>3, <1>9, <1>12 DEF OInv

(* In ordinary play an item that returns leaves exactly its result.        *)
LEMMA ReturnResult ==
  ASSUME FInv, OInv, Ordinary, Return
  PROVE  /\ running /\ calls # <<>>
         /\ current = base + locals /\ current \in Slot /\ base \in Slot
         /\ slot' = [Cleared({current}) EXCEPT ![base] = slot[current]]
         /\ current' = base
         /\ calls[Len(calls)].current = base - 1
<1> DEFINE f == calls[Len(calls)]
<1>1. running /\ calls # <<>> /\ PushOn(Array, ResetTo(Left, f.current), Result)
  BY DEF Return, Ready, Left, Result, Array
<1>2. Own = 1
  <2>1. Own > 0 /\ Own <= 1
    BY DEF Return, Ordinary
  <2> QED BY <2>1, Numbers DEF Own
<1>3. current = base + locals
  BY <1>2, Numbers DEF Own
<1>4. HasValue /\ current \in Slot /\ base \in Slot /\ base <= current
  BY <1>3, Numbers, ConstantsAreNumbers DEF HasValue, Slot
<1>5. Left = current - 1 /\ Array = Cleared({current}) /\ Result = slot[current]
  BY <1>4 DEF Left, Array, Result
<1>6. f.current = base - 1
  BY <1>1, CallerFrame
<1> HIDE DEF f
<1>7. ResetTo(Left, f.current) = base - 1
  BY <1>4, <1>5, <1>6, Numbers DEF ResetTo
<1>8. base - 1 < StackSize - 1 /\ base - 1 + 1 = base
  BY <1>4, Numbers, ConstantsAreNumbers DEF Slot
<1>9. slot' = [Array EXCEPT ![base - 1 + 1] = Result] /\ current' = base - 1 + 1
  BY <1>1, <1>7, <1>8 DEF PushOn
<1> QED BY <1>1, <1>3, <1>4, <1>5, <1>6, <1>8, <1>9 DEF f

LEMMA ReturnOwned == ASSUME FInv, OInv, Ordinary, Return PROVE OInv'
<1> DEFINE f == calls[Len(calls)]
           v == slot[current]
           a == Cleared({current})
<1>1. /\ running /\ calls # <<>>
      /\ current = base + locals /\ current \in Slot /\ base \in Slot
      /\ slot' = [a EXCEPT ![base] = v] /\ current' = base
  BY ReturnResult
<1>2. /\ base' = f.base /\ locals' = f.locals
      /\ heap' = heap /\ fault' = fault
      /\ calls' = SubSeq(calls, 1, Len(calls) - 1)
  BY DEF Return
<1>3. /\ Len(calls) \in Nat \ {0} /\ Len(calls') = Len(calls) - 1
      /\ f \in Frame
      /\ \A k \in 1 .. Len(calls) - 1 : calls'[k] = calls[k]
  BY <1>1, <1>2, PopFrame DEF FInv
<1>4. /\ OwnedBy(a, heap \ Strings({current}))
      /\ \A s \in Slot : a[s] \in Str => s # current /\ a[s] = slot[s]
  BY <1>1, ClearedOwned
<1>5. v \in Content /\ a \in [Slot -> Content]
  BY <1>1, ClearedType DEF FInv, TypeOK
<1>6. \A s \in Slot : a[s] \in Str => s < base
  <2> SUFFICES ASSUME NEW s \in Slot, a[s] \in Str, ~(s < base) PROVE FALSE
    OBVIOUS
  <2> HIDE DEF a
  <2>0. s # current /\ slot[s] \in Str
    BY <1>4
  <2>1. s # current /\ slot[s] \in Str /\ s <= current /\ s \in Int
    BY <2>0, StringsBelow, ConstantsAreNumbers DEF Slot
  <2>2. base <= s /\ s < base + locals
    BY <1>1, <2>1, Numbers
  <2> QED BY <2>1, <2>2 DEF OInv, Plain
<1>7. a[base] \notin Str
  <2> HIDE DEF a
  <2>1. ~(base < base)
    BY Numbers
  <2> QED BY <1>1, <1>6, <2>1
<1>8. v \notin heap \ Strings({current})
  <2>1. v \in Str => v \in Strings({current})
    BY DEF Strings
  <2> QED BY <2>1 DEF FInv, TypeOK
<1>9. (heap \ Strings({current})) \cup ({v} \cap Str) = heap
  <2>1. Strings({current}) = {v} \cap Str
    BY DEF Strings
  <2>2. v \in Str => v \in heap
    BY <1>1 DEF OInv, OwnedBy
  <2> QED BY <2>1, <2>2
<1> HIDE DEF a, v, f
<1>10. /\ OwnedBy(slot', heap)
       /\ \A s \in Slot : s # base => slot'[s] = a[s]
  <2>1. OwnedBy(a, heap \ Strings({current}))
    BY <1>4
  <2>2. /\ OwnedBy([a EXCEPT ![base] = v],
                   (heap \ Strings({current})) \cup ({v} \cap Str))
        /\ \A s \in Slot : s # base => [a EXCEPT ![base] = v][s] = a[s]
    BY <1>1, <1>5, <1>7, <1>8, <2>1, PutOwned
  <2> QED BY <1>1, <1>9, <2>2
<1>11. \A s \in Slot : slot'[s] \in Str => s = base \/ s < base
  BY <1>6, <1>10
<1>12. ASSUME NEW from \in Int, NEW to \in Int, from > base
       PROVE  Plain(slot', from, to)
  <2> SUFFICES ASSUME NEW s \in Slot, from <= s, slot'[s] \in Str PROVE FALSE
    BY DEF Plain
  <2>1. s \in Int /\ (s = base \/ s < base)
    BY <1>11, ConstantsAreNumbers DEF Slot
  <2> QED BY <1>12, <2>1, Numbers
<1>13. Plain(slot', current' + 1, StackSize)
  <2>1. base + 1 \in Int /\ StackSize \in Int /\ base + 1 > base
    BY Numbers, ConstantsAreNumbers
  <2> QED BY <1>1, <1>12, <2>1
<1>14. ASSUME NEW k \in 1 .. Len(calls)
       PROVE  Plain(slot', calls[k].base, calls[k].base + calls[k].locals)
  <2>1. /\ Plain(slot, calls[k].base, calls[k].base + calls[k].locals)
        /\ calls[k].base + calls[k].locals <= base
    BY DEF OInv
  <2>2. calls[k].base + calls[k].locals \in Int
    BY FrameType, ConstantsAreNumbers DEF Frame
  <2>3. ASSUME NEW s \in Slot, s < calls[k].base + calls[k].locals PROVE s # base
    <3>1. \A e \in Int : e <= base => ~(base < e)
      BY Numbers
    <3> QED BY <2>1, <2>2, <2>3, <3>1
  <2>4. \A s \in Slot : slot'[s] \in Str /\ s # base => slot[s] \in Str
    BY <1>4, <1>10
  <2> QED BY <2>1, <2>3, <2>4 DEF Plain
<1>15. Plain(slot', base', base' + locals')
  BY <1>2, <1>3, <1>14 DEF f
<1>16. ASSUME NEW k \in 1 .. Len(calls')
       PROVE  /\ Plain(slot', calls'[k].base, calls'[k].base + calls'[k].locals)
              /\ calls'[k].base + calls'[k].locals <= base'
              /\ \A j \in 1 .. k - 1 : calls'[j].base + calls'[j].locals <= calls'[k].base
  <2>1. k \in 1 .. Len(calls) /\ k \in 1 .. Len(calls) - 1 /\ Len(calls) \in 1 .. Len(calls)
    BY <1>3
  <2>2. calls[k].base + calls[k].locals <= calls[Len(calls)].base
    BY <2>1 DEF OInv
  <2>3. \A j \in 1 .. k - 1 : calls[j].base + calls[j].locals <= calls[k].base
    BY <2>1 DEF OInv
  <2>4. calls'[k] = calls[k] /\ \A j \in 1 .. k - 1 : calls'[j] = calls[j]
    BY <1>3, <2>1
  <2> QED BY <1>2, <1>14, <2>1, <2>2, <2>3, <2>4 DEF f
<1>17. heap' = heap /\ fault' = "none"
  BY <1>2 DEF OInv
<1> QED BY <1>10, <1>13, <1>15, <1>16, <1>17 DEF OInv

LEMMA StartOwned ==
  ASSUME FInv, OInv, Ordinary, NEW np \in 0 .. MaxLocals,
         NEW nl \in 0 .. MaxLocals, Start(np, nl)
  PROVE  OInv'
<1>1. /\ ~running /\ UNCHANGED <<slot, base, calls, heap, fault>>
  BY DEF Start
<1>2. calls = <<>> /\ current = -1 /\ calls' = <<>> /\ Len(calls') = 0
  BY <1>1 DEF FInv, Bounded
<1>3. \A s \in Slot : slot'[s] \notin Str
  <2> SUFFICES ASSUME NEW s \in Slot, slot[s] \in Str PROVE FALSE
    BY <1>1
  <2>1. s <= current
    BY StringsBelow
  <2> QED BY <1>2, <2>1, ConstantsAreNumbers DEF Slot
<1>4. OwnedBy(slot', heap') /\ fault' = "none"
  BY <1>1 DEF OInv
<1> QED BY <1>2, <1>3, <1>4 DEF OInv, Plain

LEMMA EndsOwned ==
  ASSUME FInv, OInv, Ordinary, NEW b \in BOOLEAN, Ends(b) PROVE OInv'
<1> DEFINE lost == {Array[s] : s \in ResetSlots(Left)} \cap Str
           result == IF HasValue /\ b THEN {slot[current]} \cap Str ELSE {}
<1>1. /\ running /\ calls = <<>> /\ Own <= 1 /\ slot' = Array
      /\ calls' = calls
      /\ (~b /\ HasValue /\ slot[current] \in Str) => FALSE
      /\ heap' = heap \ (lost \cup result)
      /\ fault' = IF \/ ~ (lost \cup result \subseteq Allocated)
                     \/ lost \cap result # {}
                     \/ \E s, t \in ResetSlots(Left) :
                          s # t /\ Array[s] \in Str /\ Array[s] = Array[t]
                  THEN "double_free" ELSE "none"
  BY DEF Ends, Ready, Array, Left, Ordinary
<1>2. base = 0 /\ Len(calls') = 0
  BY <1>1 DEF FInv, Bounded
<1>3. ASSUME NEW s \in Slot PROVE Array[s] \notin Str /\ (slot[s] \in Str => HasValue /\ s = current)
  <2>1. slot[s] \in Str => HasValue /\ s = current
    <3> SUFFICES ASSUME slot[s] \in Str PROVE HasValue /\ s = current
      OBVIOUS
    <3>1. s <= current /\ s \in Int /\ 0 <= s
      BY StringsBelow, ConstantsAreNumbers DEF Slot
    <3>2. ~(s < base + locals)
      BY <1>2, <3>1 DEF OInv, Plain
    <3>3. current + 1 - locals <= 1
      BY <1>1, <1>2, Numbers DEF Own
    <3> QED BY <1>2, <3>1, <3>2, <3>3, Numbers DEF HasValue
  <2>2. CASE HasValue
    <3>1. {current} \subseteq Slot
      BY <1>1, <2>2, ResultType
    <3> QED BY <2>1, <2>2, <3>1, ClearedOwned DEF Array
  <2>3. CASE ~HasValue
    BY <2>1, <2>3 DEF Array
  <2> QED BY <2>1, <2>2, <2>3
<1>4. ResetSlots(Left) \subseteq Slot
  BY DEF ResetSlots
<1>5. lost = {} /\ ~ \E s, t \in ResetSlots(Left) :
                        s # t /\ Array[s] \in Str /\ Array[s] = Array[t]
  BY <1>3, <1>4
<1>6. result \subseteq heap
  <2>1. HasValue => current \in Slot
    BY <1>1, ResultType
  <2> QED BY <2>1 DEF OInv, OwnedBy
<1>7. heap \subseteq result
  <2> SUFFICES ASSUME NEW x \in heap PROVE x \in result
    OBVIOUS
  <2>1. PICK s \in Slot : x = slot[s] /\ x \in Str
    BY DEF OInv, OwnedBy
  <2>2. HasValue /\ s = current
    BY <1>3, <2>1
  <2> QED BY <1>1, <2>1, <2>2
<1> HIDE DEF lost, result
<1>8. heap' = {} /\ fault' = "none"
  BY <1>1, <1>5, <1>6, <1>7 DEF Allocated
<1>9. OwnedBy(slot', heap')
  BY <1>1, <1>3, <1>8 DEF OwnedBy
<1> QED BY <1>1, <1>2, <1>3, <1>8, <1>9 DEF OInv, Plain

LEMMA PushIntOwned == ASSUME FInv, OInv, Ordinary, PushInt PROVE OInv'
<1>1. /\ running /\ current + 1 < StackSize /\ PushOn(slot, current, "int")
      /\ fault' = IF current < StackSize - 1 THEN "none" ELSE "overflow"
      /\ UNCHANGED <<base, locals, calls, heap>>
  BY DEF PushInt, Ready, Room, Ordinary
<1>2. fault' = "none"
  BY <1>1, Numbers, ConstantsAreNumbers
<1>3. "int" \in Content /\ "int" \notin Str /\ "int" \notin heap
      /\ heap' = heap \cup ({"int"} \cap Str)
  BY <1>1, StackAssumption DEF Content, FInv, TypeOK
<1> QED BY <1>1, <1>2, <1>3, PushOwned

LEMMA PushStrOwned ==
  ASSUME FInv, OInv, Ordinary, NEW v \in Str, PushStr(v) PROVE OInv'
<1>1. /\ running /\ current + 1 < StackSize /\ PushOn(slot, current, v)
      /\ fault' = IF current < StackSize - 1 THEN "none" ELSE "overflow"
      /\ v \notin heap /\ heap' = heap \cup {v}
      /\ UNCHANGED <<base, locals, calls>>
  BY DEF PushStr, Ready, Room, Ordinary, Allocated
<1>2. fault' = "none"
  BY <1>1, Numbers, ConstantsAreNumbers
<1>3. v \in Content /\ heap' = heap \cup ({v} \cap Str)
  BY <1>1 DEF Content
<1> QED BY <1>1, <1>2, <1>3, PushOwned

LEMMA FetchValueOwned ==
  ASSUME FInv, OInv, Ordinary, NEW argc \in 0 .. MaxArgs, NEW v \in Content,
         FetchValue(argc, v)
  PROVE  OInv'
<1>1. /\ running /\ current + 1 < StackSize /\ PushOn(slot, current, v)
      /\ v \notin heap /\ heap' = heap \cup ({v} \cap Str) /\ fault' = "none"
      /\ UNCHANGED <<base, locals, calls>>
  BY DEF FetchValue, Ready, OInv, Allocated
<1> QED BY <1>1, PushOwned

LEMMA StepOwned ==
  ASSUME FInv, OInv, Ordinary, [Next]_vars PROVE OInv'
<1>1. CASE UNCHANGED vars
  BY <1>1 DEF vars, OInv
<1>2. CASE EndTask \/ EndInput
  BY <1>2, EndsOwned DEF EndTask, EndInput
<1> QED
  BY <1>1, <1>2, PushIntOwned, PushStrOwned, ConsumeOwned, ForgetOwned,
     SaveOwned, GetOwned, CallOwned, FetchValueOwned, MissingOwned, ReturnOwned, StartOwned DEF Next

LEMMA InitOwned == Init => OInv
<1> SUFFICES ASSUME Init PROVE OInv
  OBVIOUS
<1>1. \A s \in Slot : slot[s] \notin Str
  BY StackAssumption DEF Init
<1>2. OwnedBy(slot, heap)
  BY <1>1 DEF Init, OwnedBy
<1> QED BY <1>1, <1>2 DEF Init, OInv, Plain

(* No string of the stack is one that was forgotten.                       *)
Fresh == heap \cap forgotten = {}

LEMMA StepFresh == ASSUME Fresh, [Next]_vars PROVE Fresh'
<1>1. CASE Forget
  BY <1>1 DEF Fresh, Forget
<1>2. ASSUME NEW S, Free(S) PROVE Fresh'
  BY <1>2 DEF Fresh, Free
<1>3. CASE Consume \/ \E i \in 0 .. MaxLocals - 1 : SaveLocal(i)
  BY <1>2, <1>3 DEF Consume, SaveLocal
<1>4. ASSUME NEW argc \in 0 .. MaxArgs, NEW np \in 0 .. MaxLocals,
             NEW nl \in 0 .. MaxLocals, Call(argc, np, nl)
      PROVE  Fresh'
  BY <1>2, <1>4 DEF Call
<1>5. ASSUME NEW b \in BOOLEAN, Ends(b) PROVE Fresh'
  BY <1>5 DEF Fresh, Ends
<1>6. CASE PushInt \/ Return \/ UNCHANGED vars
           \/ \E np, nl \in 0 .. MaxLocals : Start(np, nl)
  BY <1>6 DEF Fresh, PushInt, Return, Start, vars
<1>7. ASSUME NEW s \in Str, PushStr(s) PROVE Fresh'
  BY <1>7 DEF Fresh, PushStr, Allocated
<1>8. ASSUME NEW argc \in 0 .. MaxArgs, NEW v \in Content, FetchValue(argc, v)
      PROVE  Fresh'
  BY <1>8 DEF Fresh, FetchValue, Allocated
<1>9. ASSUME NEW i \in 0 .. MaxLocals - 1, GetLocal(i) PROVE Fresh'
  <2>1. forgotten' = forgotten
    BY <1>9 DEF GetLocal
  <2>2. heap' = heap \/ \E s \in Str \ Allocated : heap' = heap \cup {s}
    BY <1>9 DEF GetLocal
  <2> QED BY <2>1, <2>2 DEF Fresh, Allocated
<1>10. ASSUME NEW argc \in 0 .. MaxArgs, FetchMissing(argc) PROVE Fresh'
  BY <1>2, <1>10 DEF FetchMissing
<1> QED
  BY <1>1, <1>3, <1>4, <1>5, <1>6, <1>7, <1>8, <1>9, <1>10
     DEF Next, EndTask, EndInput

LEMMA OwnedStrings == ASSUME FInv, OInv, Fresh PROVE StringsOwned
<1>1. \A s \in Slot : slot[s] \in Str => s \in Slot \cap 0 .. current
  BY StringsBelow, Numbers, ConstantsAreNumbers DEF Slot
<1> QED BY <1>1 DEF StringsOwned, Strings, OInv, OwnedBy, Fresh

(* In ordinary play every string on the stack is allocated and has one      *)
(* slot, and there is no other but those that comparisons and branches      *)
(* forgot, which are not met again, at every depth of calls.               *)
THEOREM StringsAreOwned ==
  ASSUME Ordinary
  PROVE  Spec => []StringsOwned
<1>1. FInv /\ OInv /\ Fresh /\ [Next]_vars => FInv' /\ OInv' /\ Fresh'
  BY StepKeeps, StepOwned, StepFresh DEF Ordinary, Shallow
<1>2. FInv /\ OInv /\ Fresh => StringsOwned
  BY OwnedStrings
<1>3. Init => Fresh
  BY DEF Init, Fresh
<1> QED BY <1>1, <1>2, <1>3, InitFInv, InitOwned, PTL DEF Spec

(* In ordinary play nothing is freed twice, used when it is freed, or      *)
(* written beyond the stack.                                               *)
THEOREM PlayHasNoFault ==
  ASSUME Ordinary
  PROVE  Spec => []NoFault
<1>1. FInv /\ OInv /\ [Next]_vars => FInv' /\ OInv'
  BY StepKeeps, StepOwned DEF Ordinary, Shallow
<1>2. OInv => NoFault
  BY DEF OInv, NoFault
<1> QED BY <1>1, <1>2, InitFInv, InitOwned, PTL DEF Spec

LEMMA OneResult ==
  ASSUME FInv, OInv, Ordinary, Next, Len(calls') < Len(calls)
  PROVE  current' = calls[Len(calls)].current + 1
<1>1. Len(calls) \in Nat
  BY DEF FInv, TypeOK
<1>2. CASE Return
  BY <1>2, ReturnResult, Numbers
<1>3. ASSUME NEW argc \in 0 .. MaxArgs, NEW np \in 0 .. MaxLocals,
             NEW nl \in 0 .. MaxLocals, Call(argc, np, nl)
      PROVE  FALSE
  <2>1. calls' = Append(calls, CallersFrame(argc, np))
    BY <1>3, CallArithmetic DEF Ordinary, Shallow
  <2>2. calls \in Seq([current : -1 .. StackSize - 1, base : 0 .. StackSize,
                       locals : 0 .. MaxLocals])
    BY DEF FInv, TypeOK
  <2>3. Len(calls') = Len(calls) + 1
    BY <2>1, <2>2
  <2> QED BY <1>1, <2>3
<1>4. ASSUME calls' = calls PROVE FALSE
  BY <1>1, <1>4
<1> QED BY <1>2, <1>3, <1>4
        DEF Next, PushInt, PushStr, Consume, Forget, SaveLocal, GetLocal, FetchValue,
            FetchMissing, Start, EndTask, EndInput, Ends

(* In ordinary play a call takes its arguments and gives one value.        *)
THEOREM CallsGiveOne ==
  ASSUME Ordinary
  PROVE  Spec => CallGivesOne
<1>1. FInv /\ OInv /\ [Next]_vars => FInv' /\ OInv'
  BY StepKeeps, StepOwned DEF Ordinary, Shallow
<1>2. FInv /\ OInv /\ [Next]_vars
      => [Len(calls') < Len(calls) => current' = calls[Len(calls)].current + 1]_vars
  BY OneResult
<1> QED BY <1>1, <1>2, InitFInv, InitOwned, PTL DEF Spec, CallGivesOne

=============================================================================
