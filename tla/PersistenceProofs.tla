------------------------- MODULE PersistenceProofs -------------------------
(***************************************************************************)
(* What holds of Persistence for every set of items, values and stores,    *)
(* and with every liberty: mem is a tree; an end without saving leaves the *)
(* item files alone; an orderly end leaves the whole game in one; and what *)
(* is loaded is what was saved.                                            *)
(***************************************************************************)
EXTENDS Persistence, SequenceTheorems, FiniteSetTheorems, WellFoundedInduction, TLAPS

Unsaved == {"aborted", "exited", "refused"}

(* Item files change in the phase "saving" only, and what follows it ends  *)
(* with another word than those of Unsaved.                                *)
FilesInv ==
  /\ phase # "off" => ended = "no"
  /\ phase \notin {"off", "saving"} => Stores = found
  /\ phase = "backup" => target[2] \in 1 .. MaxSecond
  /\ phase \in {"reading", "backup"} => back \in {"options", "boot", "running"}
  /\ ended \in Unsaved => phase = "off" /\ Stores = found

LEMMA StoresKept ==
  ASSUME UNCHANGED <<disk, exists>>
  PROVE  Stores' = Stores
BY DEF Stores

LEMMA BackupKeepsStores ==
  ASSUME NEW f, f[2] \in 1 .. MaxSecond, NEW r, disk' = Holding(f, r),
         exists' = exists \cup {f}
  PROVE  Stores' = Stores
<1>1. f[2] # 0
  BY SecondAssumption
<1>2. disk' = disk
  BY <1>1 DEF Holding
<1>3. ASSUME NEW s \in Store PROVE (<<s, 0>> \in exists') = (<<s, 0>> \in exists)
  <2>1. f # <<s, 0>>
    BY <1>1
  <2> QED BY <2>1
<1> QED BY <1>2, <1>3 DEF Stores

LEMMA BackupWritesKeepStores ==
  ASSUME target[2] \in 1 .. MaxSecond, NEW r, disk' = Holding(target, r),
         UNCHANGED exists
  PROVE  Stores' = Stores
<1>1. target[2] # 0
  BY SecondAssumption
<1> QED BY <1>1 DEF Holding, Stores

-----------------------------------------------------------------------------

LEMMA FilesInit == Init => FilesInv
BY DEF Init, FilesInv, Unsaved

(* Starting and the options: no file is written.                           *)
LEMMA OptionsKeepFiles ==
  ASSUME FilesInv,
         \/ Start \/ GiveBootOnly \/ Refuse \/ Boot
         \/ \E s \in Store : GiveStore(s)
         \/ \E p \in Path : GiveInput(p)
  PROVE  FilesInv'
<1>1. UNCHANGED <<disk, exists, target>>
  BY DEF Start, GiveBootOnly, Refuse, Boot, GiveStore, GiveInput, files, writer
<1>2. Stores' = Stores
  BY <1>1, StoresKept
<1>3. CASE Start
  BY <1>1, <1>2, <1>3 DEF Start, FilesInv, Unsaved, Stores
<1>4. CASE GiveBootOnly
  BY <1>1, <1>2, <1>4 DEF GiveBootOnly, FilesInv, last, Unsaved
<1>5. CASE Refuse
  BY <1>1, <1>2, <1>5 DEF Refuse, Gone, FilesInv, Unsaved
<1>6. CASE Boot
  BY <1>1, <1>2, <1>6 DEF Boot, OpenStore, FilesInv, last, Unsaved
<1>7. ASSUME NEW s \in Store, GiveStore(s) PROVE FilesInv'
  BY <1>1, <1>2, <1>7 DEF GiveStore, OpenStore, FilesInv, Unsaved
<1>8. ASSUME NEW p \in Path, GiveInput(p) PROVE FilesInv'
  BY <1>1, <1>2, <1>8 DEF GiveInput, Gone, FilesInv, Unsaved
<1> QED BY <1>3, <1>4, <1>5, <1>6, <1>7, <1>8

(* Loading and game code.                                                  *)
LEMMA GameKeepsFiles ==
  ASSUME FilesInv,
         \/ ReadItem \/ ReadReturn \/ ReadPastEnd \/ NoRoot
         \/ \E p \in Path : Delete(p) \/ (\E v \in Value : Assign(p, v))
                                      \/ (\E c \in Code : AssignCode(p, c))
         \/ Shutdown \/ Abort \/ EndBoot \/ NoInput \/ EndLoop
  PROVE  FilesInv'
<1>1. UNCHANGED <<disk, exists, target, found>>
  BY DEF ReadItem, ReadReturn, ReadPastEnd, NoRoot, Delete, Assign, AssignCode,
         Shutdown, Abort, EndBoot, NoInput, EndLoop, files, writer, last
<1>2. Stores' = Stores
  BY <1>1, StoresKept
<1>3. CASE ReadItem
  BY <1>1, <1>2, <1>3 DEF ReadItem, FilesInv, last, Unsaved
<1>4. CASE ReadReturn
  BY <1>1, <1>2, <1>4 DEF ReadReturn, Reading, FilesInv, last, Unsaved
<1>5. CASE ReadPastEnd \/ NoRoot
  BY <1>1, <1>2, <1>5 DEF ReadPastEnd, NoRoot, FilesInv, last, Unsaved
<1>6. ASSUME NEW p \in Path,
             Delete(p) \/ (\E v \in Value : Assign(p, v)) \/ (\E c \in Code : AssignCode(p, c))
      PROVE  FilesInv'
  BY <1>1, <1>2, <1>6 DEF Delete, Assign, AssignCode, FilesInv, last, Unsaved
<1>7. CASE Shutdown \/ Abort
  BY <1>1, <1>2, <1>7 DEF Shutdown, Abort, FilesInv, last, Unsaved
<1>8. CASE EndBoot \/ EndLoop
  BY <1>1, <1>2, <1>8 DEF EndBoot, EndLoop, Coding, FilesInv, last, Unsaved
<1>9. CASE NoInput
  BY <1>1, <1>2, <1>9 DEF NoInput, Coding, Gone, FilesInv, Unsaved
<1> QED BY <1>3, <1>4, <1>5, <1>6, <1>7, <1>8, <1>9

(* Writing: the back-up is another file, and an item file is written on the *)
(* way to "saved" only.                                                    *)
LEMMA WritingKeepsFiles ==
  ASSUME FilesInv,
         \/ \E t \in 1 .. MaxSecond : Backup(t)
         \/ Save \/ CannotWrite \/ Discard \/ WriteItem \/ Close \/ CloseShort \/ Crash
  PROVE  FilesInv'
<1>1. ASSUME NEW t \in 1 .. MaxSecond, Backup(t) PROVE FilesInv'
  <2>1. Stores' = Stores
    <3>1. BackupFile(t)[2] \in 1 .. MaxSecond
      BY DEF BackupFile
    <3>2. disk' = Holding(BackupFile(t), <<>>) /\ exists' = exists \cup {BackupFile(t)}
      BY <1>1 DEF Backup, Emptied
    <3> QED BY <3>1, <3>2, BackupKeepsStores
  <2>2. target' = BackupFile(t) /\ phase' = "backup" /\ back' = phase
    BY <1>1 DEF Backup, Emptied
  <2>3. phase \in {"boot", "running"} /\ UNCHANGED <<found, ended>>
    BY <1>1 DEF Backup, Coding, last
  <2> QED BY <2>1, <2>2, <2>3 DEF FilesInv, BackupFile, Unsaved
<1>2. CASE Save
  BY <1>2 DEF Save, FilesInv, Unsaved
<1>3. CASE CannotWrite
  <2>1. Stores' = Stores
    BY <1>3, StoresKept DEF CannotWrite, files
  <2> QED BY <1>3, <2>1 DEF CannotWrite, Gone, FilesInv, Unsaved
<1>4. CASE Discard
  <2>1. Stores' = Stores
    BY <1>4, StoresKept DEF Discard, files
  <2> QED BY <1>4, <2>1 DEF Discard, Gone, FilesInv, Unsaved
<1>5. CASE WriteItem
  <2>1. Stores' = Stores
    BY <1>5, StoresKept DEF WriteItem, files
  <2> QED BY <1>5, <2>1 DEF WriteItem, FilesInv, last, Unsaved
<1>6. CASE Close
  <2>1. CASE phase = "saving"
    BY <1>6, <2>1 DEF Close, Finished, Gone, FilesInv, Unsaved
  <2>2. CASE phase = "backup"
    <3>1. Stores' = Stores
      BY <1>6, <2>2, BackupWritesKeepStores DEF Close, Finished, FilesInv
    <3>2. phase' = back /\ UNCHANGED <<found, ended, back>>
      BY <1>6, <2>2 DEF Close, Finished
    <3> QED BY <2>2, <3>1, <3>2 DEF FilesInv, Unsaved
  <2> QED BY <1>6, <2>1, <2>2 DEF Close, Writing
<1>7. CASE Crash
  BY <1>7 DEF Crash, Gone, FilesInv, Unsaved
<1>8. CASE CloseShort
  <2>1. PICK n \in 0 .. Len(out) - 1 : disk' = Holding(target, SubSeq(out, 1, n))
    BY <1>8 DEF CloseShort
  <2>2. CASE phase = "saving"
    BY <1>8, <2>2 DEF CloseShort, Finished, Gone, FilesInv, Unsaved
  <2>3. CASE phase = "backup"
    <3>1. Stores' = Stores
      BY <1>8, <2>1, <2>3, BackupWritesKeepStores DEF CloseShort, Finished, FilesInv
    <3>2. phase' = back /\ UNCHANGED <<found, ended, back>>
      BY <1>8, <2>3 DEF CloseShort, Finished
    <3> QED BY <2>3, <3>1, <3>2 DEF FilesInv, Unsaved
  <2> QED BY <1>8, <2>2, <2>3 DEF CloseShort, Writing
<1> QED BY <1>1, <1>2, <1>3, <1>4, <1>5, <1>6, <1>7, <1>8

LEMMA FilesStep == FilesInv /\ [Next]_vars => FilesInv'
<1> SUFFICES ASSUME FilesInv, [Next]_vars PROVE FilesInv'
  OBVIOUS
<1>1. CASE UNCHANGED vars
  BY <1>1 DEF vars, files, writer, reader, last, config, FilesInv, Stores, Unsaved
<1>2. CASE Next
  BY <1>2, OptionsKeepFiles, GameKeepsFiles, WritingKeepsFiles DEF Next
<1> QED BY <1>1, <1>2

\* sys.abort, a wrong option and a missing input item leave the item files as
\* they were at the start, whatever was backed up (main, lc_sys_abort).
THEOREM AbortKeepsFilesHolds == Spec => []AbortKeepsFiles
<1>1. FilesInv => AbortKeepsFiles
  BY DEF FilesInv, AbortKeepsFiles, Unsaved
<1> QED BY <1>1, FilesInit, FilesStep, PTL DEF Spec
-----------------------------------------------------------------------------
(* The tree.                                                               *)

(* Without a store there is no tree; only the writer has nodes to visit and *)
(* only the reader has nodes open, and neither meets a change of the tree.  *)
TreeInv ==
  /\ TypeOK
  /\ phase \notin {"off", "options"} => itemstore \in Store
  /\ phase = "off" => DOMAIN mem = {}
  /\ DOMAIN mem # {} => itemstore \in Store
  /\ phase \notin {"saving", "backup"} => todo = <<>>
  /\ phase # "reading" => open = <<>>
  /\ phase \in {"saving", "backup"} => target \in File
  /\ phase = "reading" => back \in {"options", "boot"}
  /\ phase = "backup" => back \in {"boot", "running"}

LEMMA NoTreeIsTree == IsTree(NoTree) /\ DOMAIN NoTree = {}
<1>1. DOMAIN NoTree = {}
  BY DEF NoTree
<1> QED BY <1>1, FS_EmptySet DEF IsTree

LEMMA PathsAreSequences == \A p \in Path : p \in Seq(Name) /\ p # <<>>
<1>1. Layer \subseteq Name
  BY DEF Name
<1> QED BY <1>1, PathAssumption, SeqMonotonic

LEMMA RootIsTree ==
  ASSUME NEW i \in Item
  PROVE  IsTree(RootOnly(i)) /\ DOMAIN RootOnly(i) = {<<>>}
<1>1. DOMAIN RootOnly(i) = {<<>>}
  BY DEF RootOnly
<1>2. RootOnly(i)[<<>>] = i
  BY DEF RootOnly
<1>3. <<>> \in Seq(Name)
  OBVIOUS
<1> QED BY <1>1, <1>2, <1>3, FS_Singleton DEF IsTree

(* make_item below an item that is there keeps a tree a tree.              *)
LEMMA PlacedIsTree ==
  ASSUME NEW t, IsTree(t), NEW p \in Seq(Name), NEW i \in Item,
         p # <<>> => Parent(p) \in DOMAIN t
  PROVE  IsTree(Placed(t, p, i)) /\ DOMAIN Placed(t, p, i) = DOMAIN t \cup {p}
<1>1. DOMAIN Placed(t, p, i) = DOMAIN t \cup {p}
  BY DEF Placed
<1>2. \A q \in DOMAIN t \cup {p} : Placed(t, p, i)[q] = IF q = p THEN i ELSE t[q]
  BY DEF Placed
<1>3. IsFiniteSet(DOMAIN t \cup {p})
  BY FS_AddElement DEF IsTree
<1> HIDE DEF Placed
<1>4. ASSUME NEW q \in DOMAIN t \cup {p}
      PROVE  /\ q \in Seq(Name) /\ Placed(t, p, i)[q] \in Item
             /\ q # <<>> => Parent(q) \in DOMAIN t \cup {p}
  BY <1>2 DEF IsTree
<1> QED BY <1>1, <1>3, <1>4 DEF IsTree

(* insert_item and insert_code_item make what lies above as well.          *)
LEMMA CreatedIsTree ==
  ASSUME NEW t, IsTree(t), Rooted(t), NEW p \in Seq(Name), NEW i \in Item
  PROVE  IsTree(Created(t, p, i)) /\ Rooted(Created(t, p, i))
<1> DEFINE u == Created(t, p, i)
           d == [type |-> "value", holds |-> Default]
<1>1. DOMAIN u = DOMAIN t \cup Above(p)
  BY DEF Created
<1>2. \A q \in DOMAIN u : u[q] = IF q = p THEN i ELSE IF q \in DOMAIN t THEN t[q] ELSE d
  BY DEF Created
<1>3. d \in Item
  BY ValueAssumption DEF Item
<1>4. Len(p) \in Nat
  BY LenProperties
<1>5. ASSUME NEW n \in 0 .. Len(p)
      PROVE  SubSeq(p, 1, n) \in Seq(Name) /\ Len(SubSeq(p, 1, n)) = n
  <2>1. n \in Int /\ \A k \in 1 .. n : p[k] \in Name
    BY <1>4, ElementOfSeq
  <2>2. /\ SubSeq(p, 1, n) \in Seq(Name)
        /\ Len(SubSeq(p, 1, n)) = IF 1 <= n THEN n - 1 + 1 ELSE 0
    BY <2>1, SubSeqProperties
  <2> DEFINE l == Len(SubSeq(p, 1, n))
  <2>3. l = IF 1 <= n THEN n - 1 + 1 ELSE 0
    BY <2>2
  <2> HIDE DEF l
  <2>4. l = n
    BY <1>4, <2>3
  <2> QED BY <2>2, <2>4 DEF l
<1>6. ASSUME NEW n \in 1 .. Len(p)
      PROVE  Parent(SubSeq(p, 1, n)) \in Above(p) \cup {<<>>}
  <2> DEFINE q == SubSeq(p, 1, n)
  <2>1. q \in Seq(Name) /\ Len(q) = n /\ n - 1 \in 0 .. Len(p)
    BY <1>4, <1>5
  <2>2. Parent(q) = SubSeq(q, 1, n - 1)
    BY <2>1 DEF Parent
  <2>3. CASE n = 1
    BY <2>1, <2>2, <2>3, SubSeqEmpty
  <2>4. CASE n # 1
    <3>1. n - 1 \in 1 .. Len(p) /\ 1 \in 1 .. n /\ n - 1 \in 1 .. n /\ n \in 1 .. Len(p)
      BY <1>4, <2>4
    <3>2. SubSeq(q, 1, n - 1) = SubSeq(p, 1, n - 1)
      BY <1>4, <2>1, <3>1, SMT
    <3> QED BY <2>2, <3>1, <3>2 DEF Above
  <2> QED BY <2>3, <2>4
<1>7. IsFiniteSet(Above(p))
  <2> DEFINE f == [n \in 1 .. Len(p) |-> SubSeq(p, 1, n)]
  <2>1. f \in Surjection(1 .. Len(p), Above(p))
    BY DEF Surjection, Above
  <2>2. IsFiniteSet(1 .. Len(p))
    BY <1>4, FS_Interval
  <2> HIDE DEF f
  <2> QED BY <2>1, <2>2, FS_Surjection
<1>8. IsFiniteSet(DOMAIN u)
  BY <1>1, <1>7, FS_Union DEF IsTree
<1> HIDE DEF u, d
<1>9. ASSUME NEW q \in DOMAIN u
      PROVE  /\ q \in Seq(Name) /\ u[q] \in Item
             /\ q # <<>> => Parent(q) \in DOMAIN u
  <2>1. CASE q \in DOMAIN t
    BY <1>1, <1>2, <1>3, <2>1 DEF IsTree
  <2>2. CASE q \notin DOMAIN t
    <3>1. PICK n \in 1 .. Len(p) : q = SubSeq(p, 1, n)
      BY <1>1, <1>9, <2>2 DEF Above
    <3>2. n \in 0 .. Len(p)
      BY <1>4
    <3>3. q \in Seq(Name)
      BY <1>5, <3>1, <3>2
    <3>4. Parent(q) \in DOMAIN u
      BY <1>1, <1>6, <3>1 DEF Rooted
    <3> QED BY <1>2, <1>3, <2>2, <3>3, <3>4
  <2> QED BY <2>1, <2>2
<1>10. Rooted(u)
  BY <1>1 DEF Rooted
<1> QED BY <1>8, <1>9, <1>10 DEF IsTree, u

LEMMA WithoutLast ==
  ASSUME NEW S, NEW s \in Seq(S), Len(s) > 0
  PROVE  /\ SubSeq(s, 1, Len(s) - 1) \in Seq(S)
         /\ Len(SubSeq(s, 1, Len(s) - 1)) = Len(s) - 1
<1>1. Len(s) \in Nat /\ Len(s) - 1 \in Int
  BY LenProperties
<1>2. \A i \in 1 .. Len(s) - 1 : s[i] \in S
  BY <1>1, ElementOfSeq
<1>3. /\ SubSeq(s, 1, Len(s) - 1) \in Seq(S)
      /\ Len(SubSeq(s, 1, Len(s) - 1))
           = IF 1 <= Len(s) - 1 THEN Len(s) - 1 - 1 + 1 ELSE 0
  BY <1>1, <1>2, SubSeqProperties
<1> DEFINE u == SubSeq(s, 1, Len(s) - 1)
<1>4. Len(u) = IF 1 <= Len(s) - 1 THEN Len(s) - 1 - 1 + 1 ELSE 0
  BY <1>3
<1> HIDE DEF u
<1>5. Len(u) = Len(s) - 1
  <2>1. CASE Len(s) = 1
    BY <1>4, <2>1
  <2>2. CASE Len(s) # 1
    <3> DEFINE n == Len(s)
    <3>0. n \in Nat /\ n > 0 /\ n # 1
      BY <1>1, <2>2
    <3> HIDE DEF n
    <3>1. 1 <= n - 1
      BY <3>0
    <3>2. Len(u) = n - 1 - 1 + 1
      BY <1>4, <3>1 DEF n
    <3> QED BY <3>0, <3>2 DEF n
  <2> QED BY <2>1, <2>2
<1> QED BY <1>3, <1>5 DEF u

(* delete_item takes all that lies below, so no parent is missing.         *)
LEMMA UnderParent ==
  ASSUME NEW q \in Seq(Name), NEW p \in Seq(Name), q # <<>>, Under(Parent(q), p)
  PROVE  Under(q, p)
<1>1. Len(q) \in Nat /\ Len(q) > 0 /\ Len(p) \in Nat
  BY EmptySeq, LenProperties
<1>2. Parent(q) = SubSeq(q, 1, Len(q) - 1) /\ Len(Parent(q)) = Len(q) - 1
  BY <1>1, WithoutLast DEF Parent
<1>3. Len(p) <= Len(q) - 1 /\ SubSeq(Parent(q), 1, Len(p)) = p
  BY <1>2 DEF Under
<1>4. SubSeq(SubSeq(q, 1, Len(q) - 1), 1, Len(p)) = SubSeq(q, 1, Len(p))
  BY <1>1, <1>3, SMT
<1> QED BY <1>1, <1>2, <1>3, <1>4 DEF Under

LEMMA WithoutIsTree ==
  ASSUME NEW t, IsTree(t), NEW p \in Seq(Name)
  PROVE  IsTree([q \in {q \in DOMAIN t : ~Under(q, p)} |-> t[q]])
<1> DEFINE D == {q \in DOMAIN t : ~Under(q, p)}
           u == [q \in D |-> t[q]]
<1>1. DOMAIN u = D /\ \A q \in D : u[q] = t[q]
  OBVIOUS
<1>2. IsFiniteSet(D)
  BY FS_Subset DEF IsTree
<1>3. ASSUME NEW q \in D, q # <<>> PROVE Parent(q) \in D
  <2>1. q \in DOMAIN t /\ q \in Seq(Name) /\ Parent(q) \in DOMAIN t /\ ~Under(q, p)
    BY <1>3 DEF IsTree
  <2>2. ~Under(Parent(q), p)
    BY <1>3, <2>1, UnderParent
  <2> QED BY <2>1, <2>2
<1>4. \A q \in D : q \in Seq(Name) /\ t[q] \in Item
  BY DEF IsTree
<1> HIDE DEF D, u
<1>5. IsTree(u)
  BY <1>1, <1>2, <1>3, <1>4 DEF IsTree
<1> QED BY <1>5 DEF u, D
LEMMA ItemsTyped ==
  /\ \A v \in Value : [type |-> "value", holds |-> v] \in Item
  /\ \A c \in Code : [type |-> "code", holds |-> c] \in Item
BY DEF Item

LEMMA TreeInit == Init => TreeInv
<1> SUFFICES ASSUME Init PROVE TreeInv
  OBVIOUS
<1>1. IsTree(NoTree) /\ DOMAIN NoTree = {}
  BY NoTreeIsTree
<1>2. /\ phase \in {"off"} /\ back \in {"off"} /\ IsTree(mem)
      /\ itemstore = "none" /\ named \in Store /\ input \in Path
      /\ bootonly \in BOOLEAN /\ safe_shutdown \in BOOLEAN /\ stopping \in BOOLEAN
  BY <1>1, StoreAssumption DEF Init
<1>3. /\ disk \in [Store -> Seq(Record)] /\ exists = {} /\ torn = {}
      /\ todo = <<>> /\ out = <<>> /\ target = NoFile /\ pos = 0 /\ open = <<>>
  BY DEF Init
<1>4. DOMAIN kept = Store /\ \A s \in Store : IsTree(kept[s])
  BY <1>1 DEF Init
<1>5. TypeOK
  BY <1>2, <1>3, <1>4 DEF TypeOK
<1> QED BY <1>1, <1>5 DEF Init, TreeInv

(* What opening a store leaves: a tree, none, or a file to read.           *)
LEMMA OpenStoreTree ==
  ASSUME NEW s \in Store, NEW then, OpenStore(s, then)
  PROVE  /\ IsTree(mem') /\ itemstore' = s
         /\ \/ phase' = "reading" /\ back' = then /\ pos' = 0 /\ open' = <<>>
               /\ DOMAIN mem' = {}
            \/ phase' = then /\ UNCHANGED <<back, pos, open>>
<1>1. CASE <<s, 0>> \in exists
  BY <1>1, NoTreeIsTree DEF OpenStore, reader
<1>2. CASE <<s, 0>> \notin exists
  <2>1. PICK v \in Value : mem' = RootOnly([type |-> "value", holds |-> v])
    BY <1>2 DEF OpenStore
  <2> QED BY <1>2, <2>1, ItemsTyped, RootIsTree DEF OpenStore, reader
<1> QED BY <1>1, <1>2

LEMMA OptionsKeepTree ==
  ASSUME TreeInv,
         \/ Start \/ GiveBootOnly \/ Refuse \/ Boot
         \/ \E s \in Store : GiveStore(s)
         \/ \E p \in Path : GiveInput(p)
  PROVE  TreeInv'
<1>1. UNCHANGED <<disk, exists, kept, torn, todo, out, target>>
  BY DEF Start, GiveBootOnly, Refuse, Boot, GiveStore, GiveInput, files, writer
<1>2. TypeOK /\ IsTree(mem)
  BY DEF TreeInv, TypeOK
<1>3. CASE Start
  BY <1>1, <1>2, <1>3, StoreAssumption
  DEF Start, TreeInv, TypeOK, reader, files, writer
<1>4. CASE GiveBootOnly
  BY <1>1, <1>2, <1>4 DEF GiveBootOnly, TreeInv, TypeOK, reader, files, writer, last
<1>5. CASE Refuse
  <2>1. mem' = NoTree /\ phase' = "off" /\ phase = "options"
    BY <1>5 DEF Refuse, Gone
  <2>2. todo = <<>> /\ open = <<>>
    BY <2>1 DEF TreeInv
  <2>3. TypeOK'
    BY <1>1, <1>2, <1>5, <2>1, <2>2, NoTreeIsTree DEF Refuse, TypeOK, reader, config
  <2> QED BY <1>1, <1>5, <2>1, <2>2, <2>3, NoTreeIsTree DEF Refuse, TreeInv, reader
<1>6. CASE Boot
  <2>1. CASE Rooted(mem)
    BY <1>1, <1>2, <1>6, <2>1 DEF Boot, Rooted, TreeInv, TypeOK, reader, files, writer, last
  <2>2. CASE ~Rooted(mem)
    <3>1. OpenStore(DefaultStore, "boot") /\ phase = "options" /\ todo = <<>> /\ open = <<>>
      BY <1>6, <2>2 DEF Boot, TreeInv
    <3>2. TypeOK'
      <4>1. /\ IsTree(mem') /\ itemstore' = DefaultStore
            /\ phase' \in {"reading", "boot"} /\ back' \in {"boot", back}
            /\ pos' \in {0, pos} /\ open' = <<>>
        <5>1. DefaultStore \in Store
          BY StoreAssumption
        <5> QED BY <3>1, <5>1, OpenStoreTree
      <4>2. UNCHANGED <<input, bootonly, safe_shutdown, stopping, files, writer, last>>
        BY <1>6, <2>2 DEF Boot
      <4>3. todo' \in Seq(DOMAIN mem') /\ open' \in Seq([at : DOMAIN mem', left : Nat])
        BY <1>1, <3>1, <4>1
      <4> QED BY <1>1, <1>2, <4>1, <4>2, <4>3, StoreAssumption DEF TypeOK, last
    <3> QED BY <1>1, <3>1, <3>2, OpenStoreTree, StoreAssumption DEF TreeInv
  <2> QED BY <2>1, <2>2
<1>7. ASSUME NEW s \in Store, GiveStore(s) PROVE TreeInv'
  <2>1. OpenStore(s, "options") /\ phase = "options" /\ todo = <<>> /\ open = <<>>
    BY <1>7 DEF GiveStore, TreeInv
  <2>2. TypeOK'
    <3>1. /\ IsTree(mem') /\ itemstore' = s
          /\ phase' \in {"reading", "options"} /\ back' \in {"options", back}
          /\ pos' \in {0, pos} /\ open' = <<>>
      BY <2>1, OpenStoreTree
    <3>2. UNCHANGED <<input, bootonly, safe_shutdown, stopping>> /\ named' = s
      BY <1>7 DEF GiveStore
    <3>3. todo' \in Seq(DOMAIN mem') /\ open' \in Seq([at : DOMAIN mem', left : Nat])
      BY <1>1, <2>1, <3>1
    <3> QED BY <1>1, <1>2, <3>1, <3>2, <3>3 DEF TypeOK
  <2> QED BY <1>1, <2>1, <2>2, OpenStoreTree DEF TreeInv
<1>8. ASSUME NEW p \in Path, GiveInput(p) PROVE TreeInv'
  <2>1. CASE p \in DOMAIN mem /\ mem[p].type = "code"
    BY <1>1, <1>2, <1>8, <2>1 DEF GiveInput, TreeInv, TypeOK, reader, files, writer
  <2>2. CASE ~(p \in DOMAIN mem /\ mem[p].type = "code")
    <3>1. mem' = NoTree /\ phase' = "off" /\ phase = "options" /\ UNCHANGED input
      BY <1>8, <2>2 DEF GiveInput, Gone
    <3>2. todo = <<>> /\ open = <<>>
      BY <3>1 DEF TreeInv
    <3>3. TypeOK'
      BY <1>1, <1>2, <1>8, <3>1, <3>2, NoTreeIsTree DEF GiveInput, TypeOK, reader
    <3> QED BY <1>1, <1>8, <3>1, <3>2, <3>3, NoTreeIsTree DEF GiveInput, TreeInv, reader
  <2> QED BY <2>1, <2>2
<1> QED BY <1>3, <1>4, <1>5, <1>6, <1>7, <1>8

-----------------------------------------------------------------------------
(* load_itemstore                                                          *)

LEMMA ReadItemKeepsTree == ASSUME TreeInv, ReadItem PROVE TreeInv'
<1> DEFINE r == disk[itemstore][pos + 1]
           p == IF open = <<>> THEN <<>> ELSE Append(Top.at, r.name)
<1>1. /\ mem' = Placed(mem, p, r.item)
      /\ open' = Append(OneCame, [at |-> p, left |-> r.children])
      /\ phase = "reading" /\ pos < Len(disk[itemstore])
      /\ open # <<>> => Top.left > 0
      /\ pos' = pos + 1
      /\ UNCHANGED <<phase, back, config, files, writer, fault, last>>
  BY DEF ReadItem, Reading
<1>2. TypeOK /\ IsTree(mem) /\ itemstore \in Store /\ todo = <<>>
  BY <1>1 DEF TreeInv, TypeOK
<1>3. r \in Record
  <2>1. disk[itemstore] \in Seq(Record) /\ pos \in Nat
    BY <1>2 DEF TypeOK
  <2> QED BY <1>1, <2>1, ElementOfSeq
<1>4. r.name \in Name /\ r.item \in Item /\ r.children \in Nat
  BY <1>3 DEF Record
<1>5. open \in Seq([at : DOMAIN mem, left : Nat])
  BY <1>2 DEF TypeOK
<1>6. open # <<>> => Top \in [at : DOMAIN mem, left : Nat]
  <2>1. ASSUME open # <<>> PROVE Top \in [at : DOMAIN mem, left : Nat]
    <3>1. Len(open) \in 1 .. Len(open)
      BY <1>5, <2>1, EmptySeq, LenProperties
    <3> QED BY <1>5, <3>1, ElementOfSeq DEF Top
  <2> QED BY <2>1
<1>7. p \in Seq(Name) /\ (p # <<>> => Parent(p) \in DOMAIN mem)
  <2>1. CASE open = <<>>
    BY <2>1
  <2>2. CASE open # <<>>
    <3>1. Top.at \in Seq(Name) /\ Top.at \in DOMAIN mem
      BY <1>2, <1>6, <2>2 DEF IsTree
    <3>2. p = Append(Top.at, r.name) /\ p \in Seq(Name)
      BY <1>4, <2>2, <3>1
    <3>3. Parent(p) = Top.at
      BY <1>4, <3>1, <3>2, SMT DEF Parent
    <3> QED BY <3>1, <3>2, <3>3
  <2> QED BY <2>1, <2>2
<1> HIDE DEF p, r
<1>8. IsTree(mem') /\ DOMAIN mem' = DOMAIN mem \cup {p}
  BY <1>1, <1>2, <1>4, <1>7, PlacedIsTree
<1>9. open' \in Seq([at : DOMAIN mem', left : Nat])
  <2>1. OneCame \in Seq([at : DOMAIN mem', left : Nat])
    <3>1. CASE open = <<>>
      BY <3>1 DEF OneCame
    <3>2. CASE open # <<>>
      <4>1. open \in Seq([at : DOMAIN mem', left : Nat])
        <5>1. [at : DOMAIN mem, left : Nat] \subseteq [at : DOMAIN mem', left : Nat]
          BY <1>8
        <5> QED BY <1>5, <5>1, SeqMonotonic
      <4>2. Len(open) \in 1 .. Len(open)
        BY <1>5, <3>2, EmptySeq, LenProperties
      <4>3. [Top EXCEPT !.left = @ - 1] \in [at : DOMAIN mem', left : Nat]
        BY <1>1, <1>6, <1>8, <3>2
      <4>4. OneCame = [open EXCEPT ![Len(open)] = [Top EXCEPT !.left = @ - 1]]
        BY <3>2 DEF OneCame, Top
      <4> QED BY <4>1, <4>2, <4>3, <4>4, ExceptSeq
    <3> QED BY <3>1, <3>2
  <2>2. [at |-> p, left |-> r.children] \in [at : DOMAIN mem', left : Nat]
    BY <1>4, <1>8
  <2> QED BY <1>1, <2>1, <2>2, AppendProperties
<1>10. TypeOK'
  <2>1. todo' \in Seq(DOMAIN mem')
    BY <1>1, <1>2 DEF writer
  <2>2. pos' \in Nat
    BY <1>1, <1>2 DEF TypeOK
  <2> QED BY <1>1, <1>2, <1>8, <1>9, <2>1, <2>2 DEF TypeOK, config, files, writer, last
<1> QED BY <1>1, <1>2, <1>10 DEF TreeInv, config, writer

LEMMA ReadReturnKeepsTree == ASSUME TreeInv, ReadReturn PROVE TreeInv'
<1>1. /\ phase = "reading" /\ open # <<>>
      /\ open' = SubSeq(open, 1, Len(open) - 1)
      /\ phase' = IF Len(open) = 1 THEN back ELSE phase
      /\ UNCHANGED <<back, mem, config, files, writer, pos, fault, last>>
  BY DEF ReadReturn, Reading
<1>2. TypeOK /\ back \in {"options", "boot"} /\ itemstore \in Store /\ todo = <<>>
  BY <1>1 DEF TreeInv
<1>3. open \in Seq([at : DOMAIN mem, left : Nat])
  BY <1>2 DEF TypeOK
<1>4. Len(open) \in Nat /\ Len(open) > 0
  BY <1>1, <1>3
<1>5. open' \in Seq([at : DOMAIN mem, left : Nat]) /\ Len(open') = Len(open) - 1
  BY <1>1, <1>3, <1>4, WithoutLast
<1>6. TypeOK'
  BY <1>1, <1>2, <1>5 DEF TypeOK, config, files, writer, last
<1>7. phase' # "reading" => open' = <<>>
  <2>1. CASE Len(open) = 1
    <3>1. Len(open') = 0
      BY <1>5, <2>1
    <3> QED BY <1>5, <3>1, EmptySeq
  <2>2. CASE Len(open) # 1
    BY <1>1, <2>2
  <2> QED BY <2>1, <2>2
<1> QED BY <1>1, <1>2, <1>6, <1>7 DEF TreeInv, config, writer
(* Nothing is made up when a file ends too early, and main goes no further. *)
LEMMA FaultKeepsTree == ASSUME TreeInv, ReadPastEnd \/ NoRoot PROVE TreeInv'
<1>1. UNCHANGED <<phase, back, mem, config, files, writer, reader, last>>
  BY DEF ReadPastEnd, NoRoot
<1> QED BY <1>1 DEF TreeInv, TypeOK, config, files, writer, reader, last

-----------------------------------------------------------------------------
(* Game code                                                               *)

LEMMA GameStep ==
  ASSUME TreeInv, Coding, IsTree(mem'), phase' = phase,
         UNCHANGED <<back, itemstore, input, bootonly, files, writer, reader, last>>,
         safe_shutdown' \in BOOLEAN, stopping' \in BOOLEAN
  PROVE  TreeInv'
<1>1. phase \in {"boot", "running"} /\ todo = <<>> /\ open = <<>> /\ TypeOK
      /\ itemstore \in Store
  BY DEF Coding, TreeInv
<1>2. todo' = <<>> /\ open' = <<>>
  BY <1>1 DEF writer, reader
<1>3. TypeOK'
  BY <1>1, <1>2 DEF TypeOK, files, writer, reader, last
<1> QED BY <1>1, <1>2, <1>3 DEF TreeInv

LEMMA EditsKeepTree ==
  ASSUME TreeInv, NEW p \in Path,
         Delete(p) \/ (\E v \in Value : Assign(p, v)) \/ (\E c \in Code : AssignCode(p, c))
  PROVE  TreeInv'
<1>1. IsTree(mem) /\ p \in Seq(Name) /\ p # <<>> /\ TypeOK
  BY PathsAreSequences DEF TreeInv, TypeOK
<1>2. Coding /\ phase' = phase
      /\ UNCHANGED <<back, config, files, writer, reader, last>>
  BY DEF Delete, Assign, AssignCode
<1>3. ASSUME NEW i \in Item, Rooted(mem), mem' = Created(mem, p, i)
      PROVE  IsTree(mem')
  BY <1>1, <1>2, <1>3, CreatedIsTree DEF Coding
<1>4. ASSUME NEW v \in Value, Assign(p, v) PROVE IsTree(mem')
  <2>1. CASE mem' = mem
    BY <1>1, <2>1
  <2>2. CASE mem' # mem
    <3>1. Rooted(mem) /\ mem' = Created(mem, p, [type |-> "value", holds |-> v])
      BY <1>4, <2>2 DEF Assign
    <3> QED BY <1>3, <3>1, ItemsTyped
  <2> QED BY <2>1, <2>2
<1>5. ASSUME NEW c \in Code, AssignCode(p, c) PROVE IsTree(mem')
  <2>1. Rooted(mem) /\ mem' = Created(mem, p, [type |-> "code", holds |-> c])
    BY <1>5 DEF AssignCode
  <2> QED BY <1>3, <2>1, ItemsTyped
<1>6. IsTree(mem')
  <2>1. CASE Delete(p)
    <3>1. mem' = [q \in {q \in DOMAIN mem : ~Under(q, p)} |-> mem[q]]
      BY <2>1 DEF Delete
    <3> QED BY <1>1, <3>1, WithoutIsTree
  <2> QED BY <1>2, <1>4, <1>5, <2>1
<1>7. safe_shutdown' \in BOOLEAN /\ stopping' \in BOOLEAN
  BY <1>1, <1>2 DEF TypeOK, config
<1> QED BY <1>2, <1>6, <1>7, GameStep DEF config

LEMMA StopsKeepTree ==
  ASSUME TreeInv, Shutdown \/ Abort \/ EndBoot \/ EndLoop \/ NoInput
  PROVE  TreeInv'
<1>1. TypeOK /\ IsTree(mem)
  BY DEF TreeInv, TypeOK
<1>2. CASE Shutdown \/ Abort
  BY <1>1, <1>2, GameStep DEF Shutdown, Abort
<1>3. CASE EndBoot \/ EndLoop
  <2>1. /\ phase' \in {"running", "down"} /\ phase \in {"boot", "running"}
        /\ UNCHANGED <<back, mem, config, files, writer, reader, last>>
    BY <1>3 DEF EndBoot, EndLoop, Coding
  <2>2. TypeOK'
    BY <1>1, <2>1 DEF TypeOK, config, files, writer, reader, last
  <2> QED BY <2>1, <2>2 DEF TreeInv, config, writer, reader
<1>4. CASE NoInput
  <2>1. /\ mem' = NoTree /\ phase' = "off" /\ phase = "running"
        /\ UNCHANGED <<back, config, files, writer, reader, named>>
    BY <1>4 DEF NoInput, Gone
  <2>2. todo' = <<>> /\ open' = <<>> /\ todo = <<>> /\ open = <<>>
    BY <2>1 DEF TreeInv, writer, reader
  <2>3. TypeOK'
    BY <1>1, <2>1, <2>2, NoTreeIsTree DEF TypeOK, config, files, writer, reader
  <2> QED BY <2>1, <2>2, <2>3, NoTreeIsTree DEF TreeInv, config, writer, reader
<1> QED BY <1>2, <1>3, <1>4

-----------------------------------------------------------------------------
(* save_itemstore                                                          *)

LEMMA KeepingTree ==
  ASSUME TypeOK, NEW f, f \in File, NEW t, IsTree(t), kept' = Keeping(f, t)
  PROVE  DOMAIN kept' = Store /\ \A s \in Store : IsTree(kept'[s])
<1>1. CASE f[2] = 0
  BY <1>1 DEF Keeping, TypeOK
<1>2. CASE f[2] # 0
  BY <1>2 DEF Keeping, TypeOK
<1> QED BY <1>1, <1>2

LEMMA HoldingType ==
  ASSUME TypeOK, NEW f, f \in File, NEW r \in Seq(Record), disk' = Holding(f, r)
  PROVE  disk' \in [Store -> Seq(Record)]
BY DEF Holding, TypeOK, File

(* Opening a file for writing starts at the root.                          *)
LEMMA EmptiedTree ==
  ASSUME TreeInv, phase \in {"boot", "running", "down"},
         NEW f, f \in File, Emptied(f), phase' \in {"saving", "backup"},
         phase' = "backup" => back' \in {"boot", "running"},
         back' \in {"boot", "running", back},
         UNCHANGED <<mem, config, reader, named>>
  PROVE  TreeInv'
<1>1. TypeOK /\ IsTree(mem) /\ itemstore \in Store /\ open = <<>>
  BY DEF TreeInv, TypeOK
<1>2. /\ disk' = Holding(f, <<>>) /\ exists' = exists \cup {f} /\ torn' = torn \cup {f}
      /\ todo' = (IF Rooted(mem) THEN <<<<>>>> ELSE <<>>)
      /\ out' = <<>> /\ target' = f /\ kept' = Keeping(f, NoTree)
  BY DEF Emptied
<1>3. disk' \in [Store -> Seq(Record)]
  BY <1>1, <1>2, HoldingType, EmptySeq
<1>4. DOMAIN kept' = Store /\ \A s \in Store : IsTree(kept'[s])
  BY <1>1, <1>2, KeepingTree, NoTreeIsTree
<1>5. todo' \in Seq(DOMAIN mem')
  <2>1. CASE Rooted(mem)
    BY <1>2, <2>1 DEF Rooted
  <2>2. CASE ~Rooted(mem)
    BY <1>2, <2>2
  <2> QED BY <2>1, <2>2
<1>6. /\ exists' \subseteq File /\ torn' \subseteq exists'
      /\ out' \in Seq(Record) /\ target' \in File \cup {NoFile}
  BY <1>1, <1>2, EmptySeq DEF TypeOK
<1>7. back' \in {"off", "options", "boot", "running"}
  <2>1. back \in {"off", "options", "boot", "running"}
    BY <1>1 DEF TypeOK
  <2> QED BY <2>1
<1>8. /\ IsTree(mem') /\ open' \in Seq([at : DOMAIN mem', left : Nat]) /\ pos' \in Nat
      /\ itemstore' \in Store \cup {"none"} /\ named' \in Store /\ input' \in Path
      /\ bootonly' \in BOOLEAN /\ safe_shutdown' \in BOOLEAN /\ stopping' \in BOOLEAN
  BY <1>1 DEF TypeOK, config, reader
<1>9. TypeOK'
  BY <1>3, <1>4, <1>5, <1>6, <1>7, <1>8 DEF TypeOK
<1> QED BY <1>1, <1>2, <1>9 DEF TreeInv, config, reader

LEMMA BeginWritingKeepsTree ==
  ASSUME TreeInv, Save \/ \E t \in 1 .. MaxSecond : Backup(t)
  PROVE  TreeInv'
<1>1. CASE Save
  <2>1. phase = "down" /\ phase' = "saving" /\ Emptied(<<itemstore, 0>>)
        /\ UNCHANGED <<back, mem, config, reader, named>>
    BY <1>1 DEF Save
  <2>2. itemstore \in Store /\ TypeOK
    BY <2>1 DEF TreeInv
  <2>3. <<itemstore, 0>> \in File
    BY <2>2, SecondAssumption DEF File
  <2> QED BY <2>1, <2>2, <2>3, EmptiedTree
<1>2. ASSUME NEW t \in 1 .. MaxSecond, Backup(t) PROVE TreeInv'
  <2>1. /\ phase \in {"boot", "running"} /\ phase' = "backup" /\ back' = phase
        /\ Emptied(BackupFile(t)) /\ UNCHANGED <<mem, config, reader, named>>
    BY <1>2 DEF Backup, Coding, last
  <2>2. itemstore \in Store
    BY <2>1 DEF TreeInv
  <2>3. BackupFile(t) \in File
    BY <2>2, SecondAssumption DEF File, BackupFile
  <2> QED BY <2>1, <2>3, EmptiedTree
<1> QED BY <1>1, <1>2

LEMMA ChildrenNodes ==
  ASSUME NEW t, IsTree(t), NEW p, NEW kids \in Orders(Children(t, p))
  PROVE  kids \in Seq(DOMAIN t) /\ Len(kids) \in Nat
<1>1. Children(t, p) \subseteq DOMAIN t /\ Cardinality(Children(t, p)) \in Nat
  BY FS_Subset, FS_CardinalityType DEF Children, IsTree
<1>2. kids \in [1 .. Cardinality(Children(t, p)) -> Children(t, p)]
  BY DEF Orders
<1> HIDE DEF Children
<1>3. kids \in Seq(Children(t, p))
  BY <1>1, <1>2, SeqDef
<1> QED BY <1>1, <1>3, SeqMonotonic, LenProperties

LEMMA NameType ==
  ASSUME NEW p \in Seq(Name) PROVE NameOf(p) \in Name
<1>1. CASE p = <<>>
  <2>1. NameOf(p) = "root"
    BY <1>1 DEF NameOf
  <2> QED BY <2>1 DEF Name
<1>2. CASE p # <<>>
  <2>1. Len(p) \in 1 .. Len(p)
    BY <1>2, EmptySeq, LenProperties
  <2>2. p[Len(p)] \in Name
    BY <2>1, ElementOfSeq
  <2> QED BY <1>2, <2>2 DEF NameOf
<1> QED BY <1>1, <1>2

LEMMA WriteItemKeepsTree == ASSUME TreeInv, WriteItem PROVE TreeInv'
<1>1. phase \in {"saving", "backup"} /\ todo # <<>>
      /\ UNCHANGED <<target, phase, back, mem, config, files, reader, fault, last>>
  BY DEF WriteItem, Writing
<1>2. TypeOK /\ IsTree(mem) /\ todo \in Seq(DOMAIN mem) /\ out \in Seq(Record)
  BY DEF TreeInv, TypeOK
<1>3. PICK kids \in Orders(Children(mem, Head(todo))) :
        /\ out' = Append(out, [name |-> NameOf(Head(todo)), item |-> mem[Head(todo)],
                               children |-> Len(kids)])
        /\ todo' = kids \o Tail(todo)
  BY DEF WriteItem, Then
<1>4. Head(todo) \in DOMAIN mem /\ Tail(todo) \in Seq(DOMAIN mem)
  BY <1>1, <1>2, HeadTailProperties
<1>5. kids \in Seq(DOMAIN mem) /\ Len(kids) \in Nat
  BY <1>2, ChildrenNodes
<1>6. todo' \in Seq(DOMAIN mem)
  BY <1>3, <1>4, <1>5, ConcatProperties
<1>7. Head(todo) \in Seq(Name) /\ mem[Head(todo)] \in Item
  BY <1>2, <1>4 DEF IsTree
<1>8. NameOf(Head(todo)) \in Name
  BY <1>7, NameType
<1>9. out' \in Seq(Record)
  <2>1. [name |-> NameOf(Head(todo)), item |-> mem[Head(todo)], children |-> Len(kids)]
          \in Record
    BY <1>5, <1>7, <1>8 DEF Record
  <2> QED BY <1>2, <1>3, <2>1, AppendProperties
<1>10. TypeOK'
  BY <1>1, <1>2, <1>6, <1>9 DEF TypeOK, config, files, reader, last
<1> QED BY <1>1, <1>10 DEF TreeInv, config, reader

\* A beginning of records.
LEMMA BeginningType ==
  ASSUME NEW d \in Seq(Record), NEW n \in 0 .. Len(d)
  PROVE  SubSeq(d, 1, n) \in Seq(Record)
<1>1. \A i \in 1 .. n : d[i] \in Record
  BY ElementOfSeq, LenProperties
<1> QED BY <1>1, SubSeqProperties

LEMMA EndWritingKeepsTree ==
  ASSUME TreeInv, CannotWrite \/ Discard \/ Close \/ CloseShort
  PROVE  TreeInv'
<1>1. TypeOK /\ IsTree(mem)
  BY DEF TreeInv, TypeOK
<1>2. CASE CannotWrite \/ Discard
  <2>1. /\ mem' = NoTree /\ phase' = "off" /\ phase = "down"
        /\ UNCHANGED <<back, config, files, writer, reader, named>>
    BY <1>2 DEF CannotWrite, Discard, Gone
  <2>2. todo' = <<>> /\ open' = <<>> /\ todo = <<>> /\ open = <<>>
    BY <2>1 DEF TreeInv, writer, reader
  <2>3. TypeOK'
    BY <1>1, <2>1, <2>2, NoTreeIsTree DEF TypeOK, config, files, writer, reader
  <2> QED BY <2>1, <2>2, <2>3, NoTreeIsTree DEF TreeInv, config, writer, reader
<1>3. CASE Close \/ CloseShort
  <2>1. /\ phase \in {"saving", "backup"} /\ todo = <<>> /\ open = <<>> /\ target \in File
        /\ kept' \in {kept, Keeping(target, mem)}
        /\ torn' \in {torn, torn \ {target}} /\ out' = <<>> /\ target' = NoFile
        /\ UNCHANGED <<back, config, exists, todo, reader, named>>
    BY <1>3 DEF Close, CloseShort, Finished, Writing, TreeInv
  <2>2. disk' \in [Store -> Seq(Record)]
    <3>1. CASE Close
      BY <1>1, <2>1, <3>1, HoldingType DEF Close, TypeOK
    <3>2. CASE CloseShort
      <4>1. PICK n \in 0 .. Len(out) - 1 : disk' = Holding(target, SubSeq(out, 1, n))
        BY <3>2 DEF CloseShort
      <4>2. SubSeq(out, 1, n) \in Seq(Record)
        BY <1>1, BeginningType DEF TypeOK
      <4> QED BY <1>1, <2>1, <4>1, <4>2, HoldingType
    <3> QED BY <1>3, <3>1, <3>2
  <2>3. DOMAIN kept' = Store /\ \A s \in Store : IsTree(kept'[s])
    BY <1>1, <2>1, KeepingTree DEF TypeOK
  <2>4. \/ phase' = "off" /\ mem' = NoTree
        \/ phase' \in {"boot", "running"} /\ mem' = mem
    <3>1. CASE phase = "saving"
      BY <1>3, <3>1 DEF Close, CloseShort, Finished, Gone
    <3>2. CASE phase # "saving"
      BY <1>3, <2>1, <3>2 DEF Close, CloseShort, Finished, TreeInv
    <3> QED BY <3>1, <3>2
  <2>5. IsTree(mem') /\ todo' = <<>> /\ open' = <<>>
    BY <1>1, <2>1, <2>4, NoTreeIsTree DEF reader
  <2>6. TypeOK'
    BY <1>1, <2>1, <2>2, <2>3, <2>4, <2>5 DEF TypeOK, config, reader
  <2>7. itemstore \in Store
    BY <2>1 DEF TreeInv
  <2> QED BY <2>1, <2>4, <2>5, <2>6, <2>7, NoTreeIsTree DEF TreeInv, config
<1> QED BY <1>2, <1>3

LEMMA CrashKeepsTree == ASSUME TreeInv, Crash PROVE TreeInv'
<1>1. TypeOK /\ IsTree(mem)
  BY DEF TreeInv, TypeOK
<1>2. /\ phase' = "off" /\ mem' = NoTree
      /\ todo' = <<>> /\ out' = <<>> /\ target' = NoFile /\ pos' = 0 /\ open' = <<>>
      /\ UNCHANGED <<back, config, exists, kept, torn, named>>
  BY DEF Crash, Gone
<1>3. disk' \in [Store -> Seq(Record)]
  <2>1. CASE Writing
    <3>1. PICK n \in 0 .. Len(out) : disk' = Holding(target, SubSeq(out, 1, n))
      BY <2>1 DEF Crash
    <3>2. target \in File /\ out \in Seq(Record)
      BY <1>1, <2>1 DEF Writing, TreeInv, TypeOK
    <3>3. SubSeq(out, 1, n) \in Seq(Record)
      BY <3>2, BeginningType
    <3> QED BY <1>1, <3>1, <3>2, <3>3, HoldingType
  <2>2. CASE ~Writing
    BY <1>1, <2>2 DEF Crash, TypeOK
  <2> QED BY <2>1, <2>2
<1>4. TypeOK'
  BY <1>1, <1>2, <1>3, NoTreeIsTree DEF TypeOK, config
<1> QED BY <1>2, <1>4, NoTreeIsTree DEF TreeInv, config

LEMMA TreeStep == TreeInv /\ [Next]_vars => TreeInv'
<1> SUFFICES ASSUME TreeInv, [Next]_vars PROVE TreeInv'
  OBVIOUS
<1>1. CASE UNCHANGED vars
  BY <1>1 DEF vars, files, writer, reader, last, config, TreeInv, TypeOK
<1>2. CASE Next
  BY <1>2, OptionsKeepTree, ReadItemKeepsTree, ReadReturnKeepsTree, FaultKeepsTree,
     EditsKeepTree, StopsKeepTree, BeginWritingKeepsTree, WriteItemKeepsTree,
     EndWritingKeepsTree, CrashKeepsTree
  DEF Next
<1> QED BY <1>1, <1>2

\* mem is a tree in which no item is without its parent, at every step of
\* loading, play, saving and of a crash (make_item, delete_item, read_item).
THEOREM TypeCorrect == Spec => []TypeOK
<1>1. TreeInv => TypeOK
  BY DEF TreeInv
<1> QED BY <1>1, TreeInit, TreeStep, PTL DEF Spec

-----------------------------------------------------------------------------
(* What the writer leaves in a file.                                       *)

(* Every set of numbers that is not empty has a smallest: what stands for   *)
(* induction below.                                                        *)
LEMMA SmallestNat ==
  ASSUME NEW T, T \subseteq Nat, T # {}
  PROVE  \E x \in T : \A y \in T : x <= y
<1> DEFINE R == OpToRel(<, Nat)
<1>1. IsWellFoundedOn(R, Nat)
  BY NatLessThanWellFounded
<1> HIDE DEF R
<1>2. PICK x \in T : \A y \in T : ~ (<<y, x>> \in R)
  BY <1>1, WFMin
<1>3. ASSUME NEW y \in T PROVE x <= y
  <2>1. <<y, x>> \notin R
    BY <1>2
  <2>2. x \in Nat /\ y \in Nat
    OBVIOUS
  <2>3. ~(y < x)
    BY <2>1, <2>2 DEF R, OpToRel
  <2> QED BY <2>2, <2>3
<1> QED BY <1>3

(* Under, layer by layer.                                                  *)
LEMMA UnderLayers ==
  ASSUME NEW q \in Seq(Name), NEW p \in Seq(Name)
  PROVE  Under(q, p) <=> Len(p) <= Len(q) /\ \A k \in 1 .. Len(p) : q[k] = p[k]
<1>1. Len(p) \in Nat /\ Len(q) \in Nat
  BY LenProperties
<1>2. CASE Len(p) <= Len(q)
  <2> DEFINE s == SubSeq(q, 1, Len(p))
  <2>1. \A k \in 1 .. Len(p) : k \in 1 .. Len(q)
    BY <1>1, <1>2
  <2>2. \A k \in 1 .. Len(p) : q[k] \in Name
    BY <2>1, ElementOfSeq
  <2>3. /\ s \in Seq(Name)
        /\ Len(s) = IF 1 <= Len(p) THEN Len(p) - 1 + 1 ELSE 0
        /\ \A k \in 1 .. Len(p) - 1 + 1 : s[k] = q[1 + k - 1]
    BY <1>1, <2>2, SubSeqProperties
  <2> HIDE DEF s
  <2>4. Len(s) = Len(p)
    BY <1>1, <2>3
  <2>5. \A k \in 1 .. Len(p) : s[k] = q[k]
    BY <1>1, <2>3
  <2>6. ASSUME \A k \in 1 .. Len(p) : q[k] = p[k] PROVE s = p
    BY <2>3, <2>4, <2>5, <2>6, SeqEqual
  <2>7. ASSUME s = p PROVE \A k \in 1 .. Len(p) : q[k] = p[k]
    BY <2>5, <2>7
  <2> QED BY <1>2, <2>6, <2>7 DEF Under, s
<1>3. CASE ~(Len(p) <= Len(q))
  BY <1>3 DEF Under
<1> QED BY <1>2, <1>3

LEMMA UnderItself == ASSUME NEW p \in Seq(Name) PROVE Under(p, p)
<1>1. Len(p) \in Nat
  BY LenProperties
<1> QED BY <1>1, UnderLayers

LEMMA UnderTransitive ==
  ASSUME NEW p \in Seq(Name), NEW q \in Seq(Name), NEW r \in Seq(Name),
         Under(r, q), Under(q, p)
  PROVE  Under(r, p)
<1>1. Len(p) \in Nat /\ Len(q) \in Nat /\ Len(r) \in Nat
  BY LenProperties
<1>2. Len(q) <= Len(r) /\ \A k \in 1 .. Len(q) : r[k] = q[k]
  BY UnderLayers
<1>3. Len(p) <= Len(q) /\ \A k \in 1 .. Len(p) : q[k] = p[k]
  BY UnderLayers
<1>4. Len(p) <= Len(r) /\ \A k \in 1 .. Len(p) : r[k] = p[k]
  BY <1>1, <1>2, <1>3
<1> QED BY <1>4, UnderLayers

(* Of two items above the same one, the longer lies under the shorter.     *)
LEMMA UnderBoth ==
  ASSUME NEW p \in Seq(Name), NEW q \in Seq(Name), NEW r \in Seq(Name),
         Under(r, p), Under(r, q), Len(p) <= Len(q)
  PROVE  Under(q, p)
<1>1. Len(p) \in Nat /\ Len(q) \in Nat /\ Len(r) \in Nat
  BY LenProperties
<1>2. Len(q) <= Len(r) /\ \A k \in 1 .. Len(q) : r[k] = q[k]
  BY UnderLayers
<1>3. \A k \in 1 .. Len(p) : r[k] = p[k]
  BY UnderLayers
<1>4. \A k \in 1 .. Len(p) : q[k] = p[k]
  BY <1>1, <1>2, <1>3
<1> QED BY <1>4, UnderLayers

LEMMA UnderSameLength ==
  ASSUME NEW p \in Seq(Name), NEW q \in Seq(Name), Under(q, p), Len(q) = Len(p)
  PROVE  q = p
BY UnderLayers, SeqEqual

LEMMA ParentType ==
  ASSUME NEW q \in Seq(Name), q # <<>>
  PROVE  /\ Parent(q) \in Seq(Name) /\ Len(Parent(q)) = Len(q) - 1
         /\ Under(q, Parent(q))
<1>1. Len(q) \in Nat /\ Len(q) > 0
  BY EmptySeq, LenProperties
<1>2. Parent(q) \in Seq(Name) /\ Len(Parent(q)) = Len(q) - 1
  BY <1>1, WithoutLast DEF Parent
<1>3. Under(q, Parent(q))
  BY <1>1, <1>2 DEF Under, Parent
<1> QED BY <1>2, <1>3

(* What lies under h and is not h has its parent under h.                  *)
LEMMA ParentUnder ==
  ASSUME NEW q \in Seq(Name), NEW h \in Seq(Name), Under(q, h), q # h
  PROVE  q # <<>> /\ Under(Parent(q), h) /\ Len(h) <= Len(Parent(q))
<1>1. Len(q) \in Nat /\ Len(h) \in Nat /\ Len(h) <= Len(q)
  BY LenProperties DEF Under
<1>2. Len(q) # Len(h)
  BY UnderSameLength
<1>3. q # <<>>
  BY <1>1, <1>2, EmptySeq
<1>4. /\ Parent(q) \in Seq(Name) /\ Len(Parent(q)) = Len(q) - 1
      /\ Under(q, Parent(q))
  BY <1>3, ParentType
<1>5. Len(h) <= Len(Parent(q))
  BY <1>1, <1>2, <1>4
<1> QED BY <1>3, <1>4, <1>5, UnderBoth

(* Between an item and one below it lies a child of the first.             *)
LEMMA ChildBetween ==
  ASSUME NEW t, IsTree(t), NEW h \in DOMAIN t, NEW q \in DOMAIN t,
         Under(q, h), q # h
  PROVE  \E c \in Children(t, h) : Under(q, c)
<1> DEFINE B == {r \in DOMAIN t : Under(q, r) /\ Under(r, h) /\ r # h}
           T == {Len(r) : r \in B}
<1>1. \A p \in DOMAIN t : p \in Seq(Name) /\ (p # <<>> => Parent(p) \in DOMAIN t)
  BY DEF IsTree
<1>2. q \in B
  BY <1>1, UnderItself
<1>3. T \subseteq Nat /\ T # {}
  <2>1. \A r \in B : Len(r) \in Nat
    BY <1>1, LenProperties
  <2>2. Len(q) \in T
    BY <1>2
  <2> QED BY <2>1, <2>2
<1>4. PICK n \in T : \A m \in T : n <= m
  <2> HIDE DEF T
  <2> QED BY <1>3, SmallestNat
<1>5. PICK r \in B : n = Len(r)
  OBVIOUS
<1>6. r # <<>> /\ Under(Parent(r), h) /\ Parent(r) \in DOMAIN t
  BY <1>1, <1>5, ParentUnder
<1>7. Under(q, Parent(r)) /\ Len(Parent(r)) = Len(r) - 1
  <2>1. /\ Under(r, Parent(r)) /\ Len(Parent(r)) = Len(r) - 1 /\ Parent(r) \in Seq(Name)
    BY <1>1, <1>6, ParentType
  <2> QED BY <1>1, <1>5, <2>1, UnderTransitive
<1>8. Parent(r) = h
  <2>1. SUFFICES ASSUME Parent(r) # h PROVE FALSE
    OBVIOUS
  <2>2. Parent(r) \in B
    BY <1>6, <1>7, <2>1
  <2>3. Len(Parent(r)) \in T
    BY <2>2
  <2>4. Len(r) <= Len(Parent(r)) /\ Len(r) \in Nat
    BY <1>1, <1>4, <1>5, <2>3, LenProperties
  <2> QED BY <1>7, <2>4
<1>9. r \in Children(t, h)
  BY <1>5, <1>6, <1>8 DEF Children
<1> QED BY <1>5, <1>9

-----------------------------------------------------------------------------
(* g is a walk through the tree t of which the first n are done: what was   *)
(* done comes before what waits, an item before those below it, all below   *)
(* it without a gap, and no node is forgotten.                              *)
Walk(g, n, t) ==
  /\ g \in Seq(DOMAIN t) /\ n \in 0 .. Len(g)
  /\ 0 < Len(g) /\ g[1] = <<>>
  /\ \A i, j \in 1 .. Len(g) : i < j => ~Under(g[i], g[j])
  /\ \A i, j, k \in 1 .. Len(g) :
       i <= j /\ j <= k /\ Under(g[k], g[i]) => Under(g[j], g[i])
  /\ \A i, j \in n + 1 .. Len(g) : Under(g[j], g[i]) => i = j
  /\ \A q \in DOMAIN t :
       \/ \E i \in 1 .. n : g[i] = q
       \/ \E i \in n + 1 .. Len(g) : Under(q, g[i])

(* One node more is done, and its children are put in its place.           *)
Walked(g, n, kids) ==
  [i \in 1 .. Len(g) + Len(kids) |->
     IF i <= n + 1 THEN g[i]
     ELSE IF i <= n + 1 + Len(kids) THEN kids[i - (n + 1)]
     ELSE g[i - Len(kids)]]

LEMMA ChildrenApart ==
  ASSUME NEW t, IsTree(t), NEW p \in DOMAIN t
  PROVE  /\ \A c \in Children(t, p) :
              /\ c \in Seq(Name) /\ c \in DOMAIN t /\ c # p
              /\ Under(c, p) /\ ~Under(p, c) /\ Len(c) = Len(p) + 1
         /\ \A c, d \in Children(t, p) : Under(c, d) => c = d
<1>1. \A q \in DOMAIN t : q \in Seq(Name)
  BY DEF IsTree
<1>2. ASSUME NEW c \in Children(t, p)
      PROVE  /\ c \in Seq(Name) /\ c \in DOMAIN t /\ c # p
             /\ Under(c, p) /\ ~Under(p, c) /\ Len(c) = Len(p) + 1
  <2>1. c \in DOMAIN t /\ c # <<>> /\ Parent(c) = p
    BY DEF Children
  <2>2. Len(p) = Len(c) - 1 /\ Under(c, p)
    BY <1>1, <2>1, ParentType
  <2>3. Len(p) \in Nat /\ Len(c) \in Nat
    BY <1>1, <2>1, LenProperties
  <2>4. ~Under(p, c)
    BY <2>2, <2>3 DEF Under
  <2> QED BY <1>1, <2>1, <2>2, <2>3, <2>4
<1>3. ASSUME NEW c \in Children(t, p), NEW d \in Children(t, p), Under(c, d)
      PROVE  c = d
  <2>1. Len(c) = Len(d)
    BY <1>2
  <2> QED BY <1>2, <1>3, <2>1, UnderSameLength
<1> QED BY <1>2, <1>3

(* A list of all of S names each of S once.                                *)
LEMMA OrderOfAll ==
  ASSUME NEW S, IsFiniteSet(S), NEW s \in Orders(S)
  PROVE  /\ Len(s) = Cardinality(S) /\ Len(s) \in Nat
         /\ s \in Seq(S) /\ DOMAIN s = 1 .. Len(s)
         /\ \A i \in 1 .. Len(s) : s[i] \in S
         /\ \A i, j \in 1 .. Len(s) : s[i] = s[j] => i = j
         /\ \A x \in S : \E i \in 1 .. Len(s) : s[i] = x
<1> DEFINE n == Cardinality(S)
<1>1. n \in Nat
  BY FS_CardinalityType
<1>2. s \in [1 .. n -> S] /\ \A i, j \in 1 .. n : s[i] = s[j] => i = j
  BY DEF Orders
<1>3. s \in Seq(S) /\ Len(s) = n
  BY <1>1, <1>2, SeqDef, LenProperties
<1>4. s \in Injection(1 .. n, S)
  BY <1>2 DEF Injection, IsInjective
<1>5. Cardinality(1 .. n) = n
  BY <1>1, FS_Interval
<1>6. s \in Surjection(1 .. n, S)
  BY <1>4, <1>5, FS_Injection
<1>7. \A x \in S : \E i \in 1 .. n : s[i] = x
  BY <1>6 DEF Surjection
<1> HIDE DEF n
<1> QED BY <1>1, <1>2, <1>3, <1>7 DEF n

LEMMA ChildrenFinite ==
  ASSUME NEW t, IsTree(t), NEW p
  PROVE  IsFiniteSet(Children(t, p)) /\ Children(t, p) \subseteq DOMAIN t
BY FS_Subset DEF Children, IsTree

LEMMA WalkStep ==
  ASSUME NEW t, IsTree(t), NEW n \in Nat, NEW g, Walk(g, n, t), n < Len(g),
         NEW kids \in Orders(Children(t, g[n + 1]))
  PROVE  Walk(Walked(g, n, kids), n + 1, t)
<1> DEFINE m == Len(kids)
           u == Walked(g, n, kids)
           h == g[n + 1]
           L == Len(g)
<1>1. L \in Nat /\ n + 1 \in 1 .. L /\ g \in Seq(DOMAIN t)
  BY LenProperties DEF Walk
<1>2. \A i \in 1 .. L : g[i] \in DOMAIN t /\ g[i] \in Seq(Name)
  BY <1>1, ElementOfSeq DEF IsTree
<1>3. h \in DOMAIN t /\ h \in Seq(Name)
  BY <1>1, <1>2
<1>4. /\ m \in Nat /\ \A k \in 1 .. m : kids[k] \in Children(t, h)
      /\ \A k, l \in 1 .. m : kids[k] = kids[l] => k = l
      /\ \A c \in Children(t, h) : \E k \in 1 .. m : kids[k] = c
  <2>1. IsFiniteSet(Children(t, h))
    BY ChildrenFinite
  <2>2. kids \in Orders(Children(t, h))
    BY DEF h
  <2> HIDE DEF h
  <2> QED BY <2>1, <2>2, OrderOfAll
<1> HIDE DEF m, h, L
<1>5. /\ u \in Seq(DOMAIN t) /\ Len(u) = L + m
      /\ \A i \in 1 .. n + 1 : u[i] = g[i]
      /\ \A i \in n + 2 .. n + 1 + m : u[i] = kids[i - (n + 1)]
      /\ \A i \in n + 2 + m .. L + m : u[i] = g[i - m]
  <2>1. u = [i \in 1 .. L + m |-> IF i <= n + 1 THEN g[i]
                                  ELSE IF i <= n + 1 + m THEN kids[i - (n + 1)]
                                  ELSE g[i - m]]
    BY DEF Walked, m, L
  <2>2. /\ \A i \in 1 .. n + 1 : u[i] = g[i]
        /\ \A i \in n + 2 .. n + 1 + m : u[i] = kids[i - (n + 1)]
        /\ \A i \in n + 2 + m .. L + m : u[i] = g[i - m]
    BY <1>1, <1>4, <2>1
  <2>3. \A i \in 1 .. L + m : u[i] \in DOMAIN t
    <3> SUFFICES ASSUME NEW i \in 1 .. L + m PROVE u[i] \in DOMAIN t
      OBVIOUS
    <3>1. CASE i <= n + 1
      BY <1>1, <1>2, <2>2, <3>1
    <3>2. CASE i > n + 1 /\ i <= n + 1 + m
      <4>1. i - (n + 1) \in 1 .. m /\ i \in n + 2 .. n + 1 + m
        BY <1>4, <3>2
      <4> QED BY <1>4, <2>2, <4>1 DEF Children
    <3>3. CASE i > n + 1 + m
      <4>1. i - m \in 1 .. L /\ i \in n + 2 + m .. L + m
        BY <1>1, <1>4, <3>3
      <4> QED BY <1>2, <2>2, <4>1
    <3> QED BY <1>1, <1>4, <3>1, <3>2, <3>3
  <2>4. L + m \in Nat
    BY <1>1, <1>4
  <2>5. u \in [1 .. L + m -> DOMAIN t]
    BY <2>1, <2>3
  <2>6. u \in Seq(DOMAIN t)
    BY <2>4, <2>5, SeqDef
  <2>7. Len(u) = L + m
    BY <2>4, <2>5, <2>6, LenProperties
  <2> QED BY <2>2, <2>6, <2>7
<1> HIDE DEF u
\* What Walk says of g.
<1>6. /\ \A i, j \in 1 .. L : i < j => ~Under(g[i], g[j])
      /\ \A i, j, k \in 1 .. L :
           i <= j /\ j <= k /\ Under(g[k], g[i]) => Under(g[j], g[i])
      /\ \A i, j \in n + 1 .. L : Under(g[j], g[i]) => i = j
      /\ \A q \in DOMAIN t : \/ \E i \in 1 .. n : g[i] = q
                             \/ \E i \in n + 1 .. L : Under(q, g[i])
      /\ g[1] = <<>>
  BY DEF Walk, L
<1>7. \A k \in 1 .. m : /\ kids[k] \in Seq(Name) /\ Under(kids[k], h)
                        /\ ~Under(h, kids[k]) /\ Len(kids[k]) = Len(h) + 1
  BY <1>3, <1>4, ChildrenApart
<1>8. \A k, l \in 1 .. m : Under(kids[k], kids[l]) => k = l
  BY <1>3, <1>4, ChildrenApart
<1>9. \A j \in n + 2 .. L : ~Under(g[j], h) /\ ~Under(h, g[j])
  BY <1>1, <1>6 DEF h
\* Children of h and what waits behind h.
<1>10. ASSUME NEW j \in n + 2 .. L, NEW k \in 1 .. m
       PROVE  ~Under(g[j], kids[k]) /\ ~Under(kids[k], g[j])
  <2>1. g[j] \in Seq(Name) /\ Len(g[j]) \in Nat /\ Len(h) \in Nat
    BY <1>1, <1>2, <1>3, LenProperties
  <2>2. ~Under(g[j], kids[k])
    BY <1>3, <1>7, <1>9, <2>1, UnderTransitive
  <2>3. Under(kids[k], g[j]) => Under(h, g[j]) \/ Under(g[j], h)
    BY <1>3, <1>7, <2>1, UnderBoth
  <2> QED BY <1>9, <2>2, <2>3
\* Children of h and what was done.
<1>11. ASSUME NEW i \in 1 .. n + 1, NEW k \in 1 .. m
       PROVE  /\ ~Under(g[i], kids[k])
              /\ Under(kids[k], g[i]) => Under(h, g[i])
  <2>1. g[i] \in Seq(Name) /\ Len(g[i]) \in Nat /\ Len(h) \in Nat
    BY <1>1, <1>2, <1>3, LenProperties
  <2>2. CASE i = n + 1
    BY <1>3, <1>7, <2>2, UnderItself DEF h
  <2>3. CASE i # n + 1
    <3>1. ~Under(g[i], h)
      BY <1>1, <1>6, <2>3 DEF h
    <3>2. ~Under(g[i], kids[k])
      BY <1>3, <1>7, <2>1, <3>1, UnderTransitive
    <3>3. Under(kids[k], g[i]) => Under(h, g[i]) \/ Under(g[i], h)
      BY <1>3, <1>7, <2>1, UnderBoth
    <3> QED BY <3>1, <3>2, <3>3
  <2> QED BY <2>2, <2>3
\* The three parts of u.
<1> DEFINE isDone(i) == i \in 1 .. n + 1 /\ i \in 1 .. L /\ u[i] = g[i]
           isKid(i) == i - (n + 1) \in 1 .. m /\ u[i] = kids[i - (n + 1)]
           waits(i) == i - m \in n + 2 .. L /\ i - m \in 1 .. L /\ u[i] = g[i - m]
<1>12. ASSUME NEW i \in 1 .. L + m PROVE isDone(i) \/ isKid(i) \/ waits(i)
  <2>1. i <= n + 1 => isDone(i)
    BY <1>1, <1>5
  <2>2. n + 1 < i /\ i <= n + 1 + m => isKid(i)
    BY <1>4, <1>5
  <2>3. n + 1 + m < i => waits(i)
    BY <1>1, <1>4, <1>5
  <2> QED BY <1>1, <1>4, <2>1, <2>2, <2>3
<1>13. ASSUME NEW i \in 1 .. L + m, NEW j \in 1 .. L + m, i < j
       PROVE  ~Under(u[i], u[j])
  <2>1. CASE isDone(i)
    <3>1. isDone(j) => ~Under(u[i], u[j])
      BY <1>6, <1>13, <2>1
    <3>2. isKid(j) => ~Under(u[i], u[j])
      BY <1>11, <2>1
    <3>3. waits(j) => ~Under(u[i], u[j])
      BY <1>1, <1>4, <1>6, <2>1
    <3> QED BY <1>12, <3>1, <3>2, <3>3
  <2>2. CASE isKid(i)
    <3>1. ~isDone(j)
      BY <1>1, <1>4, <1>13, <2>2
    <3>2. isKid(j) => ~Under(u[i], u[j])
      BY <1>1, <1>4, <1>8, <1>13, <2>2
    <3>3. waits(j) => ~Under(u[i], u[j])
      BY <1>10, <2>2
    <3> QED BY <1>12, <3>1, <3>2, <3>3
  <2>3. CASE waits(i)
    BY <1>1, <1>4, <1>6, <1>12, <1>13, <2>3
  <2> QED BY <1>12, <2>1, <2>2, <2>3
<1>14. ASSUME NEW i \in 1 .. L + m, NEW j \in 1 .. L + m, NEW k \in 1 .. L + m,
              i <= j, j <= k, Under(u[k], u[i])
       PROVE  Under(u[j], u[i])
  <2>1. u[i] \in Seq(Name) /\ u[j] \in Seq(Name) /\ u[k] \in Seq(Name)
    BY <1>5, ElementOfSeq DEF IsTree
  <2>2. ASSUME isKid(j), Under(h, u[i]) PROVE Under(u[j], u[i])
    BY <1>3, <1>7, <2>1, <2>2, UnderTransitive
  <2>3. CASE isDone(k)
    BY <1>1, <1>4, <1>6, <1>12, <1>14, <2>3
  <2>4. CASE isKid(k) /\ isDone(i)
    <3>1. Under(h, u[i])
      BY <1>11, <1>14, <2>4
    <3>2. isDone(j) => Under(u[j], u[i])
      BY <1>1, <1>6, <1>14, <2>4, <3>1 DEF h
    <3>3. isDone(j) \/ isKid(j)
      BY <1>1, <1>4, <1>12, <1>14, <2>4
    <3> QED BY <2>2, <3>1, <3>2, <3>3
  <2>5. CASE isKid(k) /\ isKid(i)
    <3>1. i = k
      BY <1>1, <1>4, <1>8, <1>14, <2>5
    <3> QED BY <1>1, <1>4, <1>14, <3>1
  <2>6. CASE waits(k) /\ isDone(i)
    <3>1. Under(g[k - m], g[i]) /\ i <= n + 1 /\ n + 1 <= k - m
      BY <1>1, <1>4, <1>14, <2>6
    <3>2. Under(h, u[i])
      BY <1>1, <1>6, <2>6, <3>1 DEF h
    <3>3. isDone(j) => Under(u[j], u[i])
      BY <1>1, <1>4, <1>6, <1>14, <2>6, <3>1
    <3>4. waits(j) => Under(u[j], u[i])
      BY <1>1, <1>4, <1>6, <1>14, <2>6, <3>1
    <3> QED BY <1>12, <2>2, <3>2, <3>3, <3>4
  <2>7. CASE waits(k) /\ isKid(i)
    BY <1>10, <1>14, <2>7
  <2>8. CASE waits(k) /\ waits(i)
    BY <1>1, <1>4, <1>6, <1>12, <1>14, <2>8
  <2>9. ~(isKid(k) /\ waits(i))
    BY <1>1, <1>4, <1>14, SMTT(30)
  <2> QED BY <1>12, <2>3, <2>4, <2>5, <2>6, <2>7, <2>8, <2>9
<1>15. ASSUME NEW i \in n + 2 .. L + m, NEW j \in n + 2 .. L + m, Under(u[j], u[i])
       PROVE  i = j
  <2>1. (isKid(i) \/ waits(i)) /\ (isKid(j) \/ waits(j))
    <3>1. i \in 1 .. L + m /\ j \in 1 .. L + m
      BY <1>1, <1>4
    <3>2. ~isDone(i) /\ ~isDone(j)
      BY <1>1
    <3>3. \A k \in 1 .. L + m : ~isDone(k) => isKid(k) \/ waits(k)
      BY <1>12
    <3> HIDE DEF isDone, isKid, waits
    <3> QED BY <3>1, <3>2, <3>3
  <2>2. ASSUME isKid(i), isKid(j) PROVE i = j
    <3>1. i - (n + 1) = j - (n + 1)
      BY <1>8, <1>15, <2>2
    <3> QED BY <1>1, <1>4, <3>1
  <2>3. waits(i) /\ waits(j) => i = j
    BY <1>1, <1>4, <1>6, <1>15
  <2> QED BY <1>10, <1>15, <2>1, <2>2, <2>3
<1>16. ASSUME NEW q \in DOMAIN t
       PROVE  \/ \E i \in 1 .. n + 1 : u[i] = q
              \/ \E i \in n + 2 .. L + m : Under(q, u[i])
  <2>1. ASSUME NEW i \in 1 .. n, g[i] = q PROVE u[i] = q /\ i \in 1 .. n + 1
    BY <1>5, <2>1
  <2>2. CASE Under(q, h)
    <3>1. CASE q = h
      BY <1>1, <1>5, <3>1 DEF h
    <3>2. CASE q # h
      <4>1. PICK c \in Children(t, h) : Under(q, c)
        BY <1>3, <2>2, <3>2, ChildBetween
      <4>2. PICK k \in 1 .. m : kids[k] = c
        BY <1>4
      <4>3. n + 1 + k \in n + 2 .. n + 1 + m /\ n + 1 + k \in n + 2 .. L + m
            /\ (n + 1 + k) - (n + 1) = k
        BY <1>1, <1>4
      <4>4. u[n + 1 + k] = c
        BY <1>5, <4>2, <4>3
      <4> QED BY <4>1, <4>3, <4>4
    <3> QED BY <3>1, <3>2
  <2>3. ASSUME NEW i \in n + 2 .. L, Under(q, g[i])
        PROVE  i + m \in n + 2 .. L + m /\ Under(q, u[i + m])
    <3>1. PICK w \in Int : w = i + m
      BY <1>1, <1>4
    <3>2. w \in n + 2 + m .. L + m /\ w \in n + 2 .. L + m /\ w - m = i
      BY <1>1, <1>4, <3>1
    <3>3. u[w] = g[w - m]
      BY <1>5, <3>2
    <3>4. u[w] = g[i]
      BY <3>2, <3>3
    <3> QED BY <2>3, <3>1, <3>2, <3>4
  <2>4. \A i \in n + 1 .. L : i = n + 1 \/ i \in n + 2 .. L
    BY <1>1
  <2> QED BY <1>6, <2>1, <2>2, <2>3, <2>4 DEF h
<1>17. n + 1 \in 0 .. Len(u) /\ 0 < Len(u) /\ u[1] = <<>>
  BY <1>1, <1>4, <1>5, <1>6
<1>18. n + 1 + 1 = n + 2
  OBVIOUS
<1> QED BY <1>5, <1>13, <1>14, <1>15, <1>16, <1>17, <1>18 DEF Walk, u

LEMMA WalkStart ==
  ASSUME NEW t, IsTree(t), Rooted(t)
  PROVE  Walk(<<<<>>>>, 0, t)
<1> DEFINE g == <<<<>>>>
<1>1. g \in Seq(DOMAIN t) /\ Len(g) = 1 /\ g[1] = <<>>
  BY DEF Rooted
<1>2. \A q \in DOMAIN t : q \in Seq(Name) /\ Under(q, <<>>)
  <2>1. \A q \in DOMAIN t : q \in Seq(Name)
    BY DEF IsTree
  <2>2. <<>> \in Seq(Name) /\ Len(<<>>) = 0
    BY EmptySeq
  <2>3. ASSUME NEW q \in DOMAIN t PROVE Under(q, <<>>)
    <3>1. Len(q) \in Nat
      BY <2>1, LenProperties
    <3>2. Len(<<>>) <= Len(q) /\ \A k \in 1 .. Len(<<>>) : q[k] = <<>>[k]
      BY <2>2, <3>1
    <3> QED BY <2>1, <2>2, <3>2, UnderLayers
  <2> QED BY <2>1, <2>3
<1> HIDE DEF g
<1>3. \A i \in 1 .. 1 : i = 1
  OBVIOUS
<1>4. Under(<<>>, <<>>)
  BY <1>2 DEF Rooted
<1> QED BY <1>1, <1>2, <1>3, <1>4 DEF Walk, g

\* The record write_item makes of a node.
RecordOf(t, p) ==
  [name |-> NameOf(p), item |-> t[p], children |-> Cardinality(Children(t, p))]

(* What lies between the first of a stretch and the end of it.             *)
LEMMA Stretch ==
  ASSUME NEW L \in Nat, NEW i \in 1 .. L, NEW B \in SUBSET (i .. L), i \in B,
         \A j \in i .. L, k \in B : j <= k => j \in B
  PROVE  B = i .. i + Cardinality(B) - 1
<1> DEFINE T == (i .. L + 1) \ B
<1>1. T \subseteq Nat /\ L + 1 \in T
  OBVIOUS
<1>2. PICK m \in T : \A n \in T : m <= n
  <2> HIDE DEF T
  <2> QED BY <1>1, SmallestNat
<1>3. m \in Nat /\ i <= m /\ m <= L + 1 /\ m \notin B
  OBVIOUS
<1>4. B = i .. m - 1
  <2>1. ASSUME NEW k \in i .. m - 1 PROVE k \in B
    <3>1. k \notin T
      BY <1>2, <1>3, <2>1
    <3>2. k \in i .. L + 1
      BY <1>3
    <3> QED BY <3>1, <3>2
  <2>2. ASSUME NEW k \in B PROVE k \in i .. m - 1
    <3>1. k \in i .. L
      OBVIOUS
    <3>2. m <= k => m \in i .. L
      BY <1>3, <3>1
    <3>3. ~(m <= k)
      BY <1>3, <3>1, <3>2
    <3> QED BY <1>3, <3>1, <3>3
  <2> QED BY <2>1, <2>2
<1>5. Cardinality(i .. m - 1) = m - i
  <2>1. i # m
    BY <1>3
  <2>2. ~(i > m - 1)
    BY <1>3, <2>1
  <2>3. Cardinality(i .. m - 1) = m - 1 - i + 1
    BY <1>3, <2>2, FS_Interval
  <2> QED BY <1>3, <2>3
<1> QED BY <1>3, <1>4, <1>5

(* A walk that has come to its end has written the tree.                   *)
LEMMA WalkEnds ==
  ASSUME NEW t, IsTree(t), NEW g, Walk(g, Len(g), t), NEW d \in Seq(Record),
         Len(d) = Len(g), \A i \in 1 .. Len(g) : d[i] = RecordOf(t, g[i])
  PROVE  HoldsTree(d, t) /\ Rooted(t)
<1> DEFINE L == Len(g)
<1>1. L \in Nat /\ g \in Seq(DOMAIN t) /\ 0 < L /\ g[1] = <<>>
  BY LenProperties DEF Walk
<1>2. g \in [1 .. L -> DOMAIN t] /\ DOMAIN g = 1 .. L /\ DOMAIN d = 1 .. L
  BY <1>1, LenProperties
<1>3. \A i \in 1 .. L : g[i] \in DOMAIN t /\ g[i] \in Seq(Name)
  BY <1>2 DEF IsTree
<1>4. \A i, j \in 1 .. L : g[i] = g[j] => i = j
  <2>1. \A i, j \in 1 .. L : i < j => ~Under(g[i], g[j])
    BY DEF Walk
  <2> SUFFICES ASSUME NEW i \in 1 .. L, NEW j \in 1 .. L, g[i] = g[j] PROVE i = j
    OBVIOUS
  <2>2. Under(g[i], g[j]) /\ Under(g[j], g[i])
    BY <1>3, UnderItself
  <2>3. ~(i < j) /\ ~(j < i)
    BY <2>1, <2>2
  <2> QED BY <1>1, <2>3
<1>5. \A q \in DOMAIN t : \E i \in 1 .. L : g[i] = q
  <2>1. \A i \in L + 1 .. L : FALSE
    BY <1>1
  <2> QED BY <2>1 DEF Walk
<1>6. L = Cardinality(DOMAIN t)
  <2>1. g \in Bijection(1 .. L, DOMAIN t)
    BY <1>2, <1>4, <1>5 DEF Bijection, Injection, IsInjective, Surjection
  <2>2. ExistsBijection(1 .. L, DOMAIN t)
    BY <2>1 DEF ExistsBijection
  <2> HIDE DEF L
  <2> QED BY <1>1, <2>2, FS_CountingElements
<1>7. g \in Orders(DOMAIN t)
  BY <1>2, <1>4, <1>6 DEF Orders
<1>8. ASSUME NEW i \in 1 .. L
      PROVE  LET below == {j \in DOMAIN g : Under(g[j], g[i])}
             IN  below = i .. i + Cardinality(below) - 1
  <2> DEFINE below == {j \in DOMAIN g : Under(g[j], g[i])}
  <2>1. below \subseteq i .. L
    <3>1. \A j \in 1 .. L : j < i => ~Under(g[j], g[i])
      BY DEF Walk
    <3> QED BY <1>1, <1>2, <3>1
  <2>2. i \in below
    BY <1>2, <1>3, UnderItself
  <2>3. ASSUME NEW j \in i .. L, NEW k \in below, j <= k PROVE j \in below
    <3>1. j \in 1 .. L /\ k \in 1 .. L /\ i <= j
      BY <1>1, <1>2
    <3>2. Under(g[k], g[i])
      OBVIOUS
    <3>3. Under(g[j], g[i])
      BY <2>3, <3>1, <3>2 DEF Walk
    <3> QED BY <1>2, <3>1, <3>3
  <2> HIDE DEF below, L
  <2>4. below = i .. i + Cardinality(below) - 1
    BY <1>1, <2>1, <2>2, <2>3, Stretch
  <2> QED BY <2>4 DEF below
<1>9. HoldsTree(d, t)
  BY <1>1, <1>2, <1>7, <1>8 DEF HoldsTree, RecordOf
<1>10. Rooted(t)
  BY <1>1, <1>3 DEF Rooted
<1> QED BY <1>9, <1>10

-----------------------------------------------------------------------------
(* The writer is somewhere on a walk through the tree: the records of what  *)
(* is done are handed out, the rest of the walk is still to be written.     *)
Written ==
  \E g : /\ Walk(g, Len(out), mem)
         /\ \A i \in 1 .. Len(out) : out[i] = RecordOf(mem, g[i])
         /\ Len(g) = Len(out) + Len(todo)
         /\ \A i \in 1 .. Len(todo) : g[Len(out) + i] = todo[i]

Here == <<itemstore, 0>>
Whole(s) == <<s, 0>> \in exists \ torn

SavedInv ==
  /\ Writing => Written
  /\ phase = "saving" => target = Here /\ game = mem
  /\ phase \in {"saving", "backup"} => target \in torn
  /\ \A s \in Store : Whole(s) => HoldsTree(disk[s], kept[s]) /\ Rooted(kept[s])
  /\ ended = "saved" => /\ phase = "off" /\ itemstore \in Store
                        /\ HoldsTree(disk[itemstore], game) /\ Here \notin torn

LEMMA SavedInit == Init => SavedInv
BY DEF Init, SavedInv, Writing, Whole

LEMMA WrittenStart ==
  ASSUME TreeInv, NEW f, Emptied(f), UNCHANGED mem, Writing'
  PROVE  Written'
<1>1. IsTree(mem)
  BY DEF TreeInv, TypeOK
<1>2. Rooted(mem)
  BY DEF Writing, Emptied
<1>3. out' = <<>> /\ todo' = <<<<>>>>
  BY <1>2 DEF Emptied
<1> DEFINE g == <<<<>>>>
<1>4. Walk(g, 0, mem)
  BY <1>1, <1>2, WalkStart
<1>5. Len(out') = 0 /\ Len(todo') = 1 /\ Len(g) = 1 /\ g[1] = <<>> /\ todo'[1] = <<>>
  BY <1>3
<1> HIDE DEF g
<1>6. Walk(g, Len(out'), mem')
  BY <1>4, <1>5
<1>7. \A i \in 1 .. 0 : out'[i] = RecordOf(mem', g[i])
  OBVIOUS
<1>8. \A i \in 1 .. 1 : g[0 + i] = todo'[i]
  BY <1>5
<1> QED BY <1>5, <1>6, <1>7, <1>8 DEF Written

LEMMA WrittenStep ==
  ASSUME TreeInv, WriteItem, Written
  PROVE  Written'
<1>1. IsTree(mem) /\ todo \in Seq(DOMAIN mem) /\ out \in Seq(Record) /\ todo # <<>>
      /\ mem' = mem
  BY DEF TreeInv, TypeOK, WriteItem
<1>2. PICK g : /\ Walk(g, Len(out), mem)
               /\ \A i \in 1 .. Len(out) : out[i] = RecordOf(mem, g[i])
               /\ Len(g) = Len(out) + Len(todo)
               /\ \A i \in 1 .. Len(todo) : g[Len(out) + i] = todo[i]
  BY DEF Written
<1> DEFINE h == Head(todo)
           n == Len(out)
<1>3. PICK kids \in Orders(Children(mem, h)) :
        /\ out' = Append(out, [name |-> NameOf(h), item |-> mem[h], children |-> Len(kids)])
        /\ todo' = kids \o Tail(todo)
  BY DEF WriteItem, Then
<1>4. n \in Nat /\ Len(todo) \in Nat /\ Len(todo) > 0
  BY <1>1, EmptySeq, LenProperties
<1>5. h = todo[1] /\ h = g[n + 1] /\ n < Len(g)
  BY <1>1, <1>2, <1>4
<1>6. h \in DOMAIN mem /\ h \in Seq(Name) /\ mem[h] \in Item
  BY <1>1, <1>4, <1>5, ElementOfSeq DEF IsTree
<1>7. /\ Len(kids) \in Nat /\ kids \in Seq(DOMAIN mem)
      /\ Len(kids) = Cardinality(Children(mem, h))
  BY <1>1, <1>3, ChildrenFinite, ChildrenNodes, OrderOfAll
<1> DEFINE m == Len(kids)
           u == Walked(g, n, kids)
           r == [name |-> NameOf(h), item |-> mem[h], children |-> m]
<1>8. /\ Tail(todo) \in Seq(DOMAIN mem) /\ Len(Tail(todo)) = Len(todo) - 1
      /\ \A i \in 1 .. Len(todo) - 1 : Tail(todo)[i] = todo[i + 1]
  BY <1>1, HeadTailProperties
<1>9. /\ Len(todo') = m + (Len(todo) - 1)
      /\ \A i \in 1 .. m + (Len(todo) - 1) :
           todo'[i] = IF i <= m THEN kids[i] ELSE Tail(todo)[i - m]
  <2>1. /\ Len(todo') = Len(kids) + Len(Tail(todo))
        /\ \A i \in 1 .. Len(kids) + Len(Tail(todo)) :
             todo'[i] = IF i <= Len(kids) THEN kids[i] ELSE Tail(todo)[i - Len(kids)]
    BY <1>3, <1>7, <1>8, ConcatProperties
  <2> QED BY <1>8, <2>1
<1>10. r \in Record /\ r = RecordOf(mem, h)
  BY <1>6, <1>7, NameType DEF Record, RecordOf
<1>11. /\ Len(out') = n + 1 /\ out'[n + 1] = r
       /\ \A i \in 1 .. n : out'[i] = out[i]
  BY <1>1, <1>3, <1>10, AppendProperties
<1> HIDE DEF h, r
<1>12. Walk(u, n + 1, mem)
  BY <1>1, <1>2, <1>3, <1>4, <1>5, WalkStep
<1>13. u = [i \in 1 .. Len(g) + m |-> IF i <= n + 1 THEN g[i]
                                      ELSE IF i <= n + 1 + m THEN kids[i - (n + 1)]
                                      ELSE g[i - m]]
  BY DEF Walked
<1>14. u \in Seq(DOMAIN mem) /\ Len(u) \in Nat
  BY <1>12, LenProperties DEF Walk
<1> HIDE DEF m, n
<1>15. Len(g) + m \in Nat /\ DOMAIN u = 1 .. Len(g) + m
  BY <1>2, <1>4, <1>7, <1>13 DEF m, n
<1> HIDE DEF u
<1>16. Len(u) = Len(g) + m
  BY <1>14, <1>15, LenProperties
<1>17. Len(u) = Len(out') + Len(todo')
  BY <1>2, <1>4, <1>7, <1>9, <1>11, <1>16 DEF m, n
<1>18. \A i \in 1 .. Len(out') : out'[i] = RecordOf(mem', u[i])
  <2> SUFFICES ASSUME NEW i \in 1 .. n + 1 PROVE out'[i] = RecordOf(mem, u[i])
    BY <1>1, <1>11
  <2>1. u[i] = g[i]
    BY <1>2, <1>4, <1>5, <1>7, <1>13 DEF m, n
  <2>2. CASE i = n + 1
    BY <1>5, <1>10, <1>11, <2>1, <2>2
  <2>3. CASE i # n + 1
    <3>1. i \in 1 .. n
      BY <1>4, <2>3
    <3> QED BY <1>2, <1>11, <2>1, <3>1 DEF n
  <2> QED BY <2>2, <2>3
<1>19. \A i \in 1 .. Len(todo') : u[Len(out') + i] = todo'[i]
  <2> DEFINE l == Len(todo)
  <2>0. l \in Nat /\ l > 0 /\ Len(g) = n + l /\ n \in Nat /\ m \in Nat
    BY <1>2, <1>4, <1>7 DEF n, m
  <2> SUFFICES ASSUME NEW i \in 1 .. m + (l - 1), NEW k \in Nat, k = n + 1 + i
               PROVE  u[k] = todo'[i]
    BY <1>4, <1>7, <1>9, <1>11 DEF n, m
  <2> HIDE DEF l
  <2>1. k \in 1 .. Len(g) + m
    BY <2>0
  <2>2. CASE i <= m
    <3>1. u[k] = kids[k - (n + 1)] /\ k - (n + 1) = i
      BY <1>13, <2>0, <2>1, <2>2
    <3> QED BY <1>9, <2>0, <2>2, <3>1 DEF l
  <2>3. CASE i > m
    <3>1. u[k] = g[k - m]
      BY <1>13, <2>0, <2>1, <2>3
    <3>2. i - m \in 1 .. l - 1 /\ i - m + 1 \in 1 .. l
      BY <2>0, <2>3
    <3>3. todo'[i] = todo[i - m + 1]
      BY <1>8, <1>9, <2>0, <2>3, <3>2 DEF l
    <3>4. k - m = n + (i - m + 1)
      BY <2>0
    <3>5. g[n + (i - m + 1)] = todo[i - m + 1]
      BY <1>2, <3>2 DEF n, l
    <3> QED BY <3>1, <3>3, <3>4, <3>5
  <2> QED BY <2>0, <2>2, <2>3
<1>20. Walk(u, Len(out'), mem')
  BY <1>1, <1>11, <1>12
<1> QED BY <1>17, <1>18, <1>19, <1>20 DEF Written

(* What neither opens nor closes a file, and is not the end of the writing. *)
LEMMA SavedQuiet ==
  ASSUME SavedInv, UNCHANGED files, phase' \notin {"saving", "backup"},
         ended' # "saved"
  PROVE  SavedInv'
<1>1. UNCHANGED <<disk, exists, kept, torn>>
  BY DEF files
<1>2. \A s \in Store : Whole(s)' = Whole(s)
  BY <1>1 DEF Whole
<1> QED BY <1>1, <1>2 DEF SavedInv, Writing

LEMMA KeepFiles ==
  ASSUME SavedInv, FilesInv, TreeInv,
         \/ Start \/ GiveBootOnly \/ Refuse \/ Boot
         \/ \E s \in Store : GiveStore(s)
         \/ \E p \in Path : GiveInput(p)
         \/ ReadItem \/ ReadReturn \/ ReadPastEnd \/ NoRoot
         \/ \E p \in Path : Delete(p) \/ (\E v \in Value : Assign(p, v))
                                      \/ (\E c \in Code : AssignCode(p, c))
         \/ Shutdown \/ Abort \/ EndBoot \/ NoInput \/ EndLoop
         \/ CannotWrite \/ Discard
  PROVE  SavedInv'
<1> USE SavedQuiet
<1>1. CASE Start
  BY <1>1 DEF Start
<1>2. CASE GiveBootOnly \/ Refuse \/ Boot
  BY <1>2 DEF GiveBootOnly, Refuse, Boot, OpenStore, Gone, FilesInv, last
<1>3. ASSUME NEW s \in Store, GiveStore(s) PROVE SavedInv'
  BY <1>3 DEF GiveStore, OpenStore, FilesInv
<1>4. ASSUME NEW p \in Path, GiveInput(p) PROVE SavedInv'
  BY <1>4 DEF GiveInput, Gone, FilesInv
<1>5. CASE ReadItem \/ ReadPastEnd
  BY <1>5 DEF ReadItem, ReadPastEnd, Reading, FilesInv, last
<1>6. CASE ReadReturn
  BY <1>6 DEF ReadReturn, Reading, FilesInv, TreeInv, last
<1>7. CASE NoRoot \/ Shutdown \/ Abort \/ EndBoot \/ NoInput \/ EndLoop
  BY <1>7 DEF NoRoot, Shutdown, Abort, EndBoot, NoInput, EndLoop, Coding, Gone, FilesInv, last
<1>8. ASSUME NEW p \in Path,
             Delete(p) \/ (\E v \in Value : Assign(p, v)) \/ (\E c \in Code : AssignCode(p, c))
      PROVE  SavedInv'
  BY <1>8 DEF Delete, Assign, AssignCode, Coding, FilesInv, last
<1>9. CASE CannotWrite \/ Discard
  BY <1>9 DEF CannotWrite, Discard, Gone
<1> QED BY <1>1, <1>2, <1>3, <1>4, <1>5, <1>6, <1>7, <1>8, <1>9

(* Writing to one file leaves the item files of the other stores alone.     *)
LEMMA OtherStores ==
  ASSUME TypeOK, NEW f \in File, NEW s \in Store, <<s, 0>> # f, NEW r, NEW t
  PROVE  Holding(f, r)[s] = disk[s] /\ Keeping(f, t)[s] = kept[s]
<1>1. CASE f[2] = 0
  <2>1. f[1] # s
    BY <1>1 DEF File
  <2> QED BY <1>1, <2>1 DEF Holding, Keeping, TypeOK
<1>2. CASE f[2] # 0
  BY <1>2 DEF Holding, Keeping
<1> QED BY <1>1, <1>2

(* The file that is opened for writing is not whole any more; the others    *)
(* are as they were.                                                       *)
LEMMA EmptiedOthers ==
  ASSUME TypeOK, NEW f \in File, Emptied(f), NEW s \in Store, Whole(s)'
  PROVE  Whole(s) /\ disk'[s] = disk[s] /\ kept'[s] = kept[s]
<1>1. /\ disk' = Holding(f, <<>>) /\ kept' = Keeping(f, NoTree)
      /\ exists' = exists \cup {f} /\ torn' = torn \cup {f}
  BY DEF Emptied
<1>2. <<s, 0>> # f /\ Whole(s)
  BY <1>1 DEF Whole
<1> QED BY <1>1, <1>2, OtherStores

LEMMA BeginSaving ==
  ASSUME SavedInv, FilesInv, TreeInv, Save \/ \E t \in 1 .. MaxSecond : Backup(t)
  PROVE  SavedInv'
<1>1. TypeOK
  BY DEF TreeInv
<1>2. ASSUME NEW f \in File, Emptied(f), UNCHANGED <<mem, itemstore, ended>>, ended = "no",
             phase' \in {"saving", "backup"},
             phase' = "saving" => f = Here /\ game' = mem
      PROVE  SavedInv'
  <2>1. Writing' => Written'
    BY <1>2, WrittenStart
  <2>2. target' = f /\ target' \in torn'
    BY <1>2 DEF Emptied
  <2>3. \A s \in Store : Whole(s)' => HoldsTree(disk[s], kept[s])' /\ Rooted(kept[s])'
    BY <1>1, <1>2, EmptiedOthers DEF SavedInv
  <2> QED BY <1>2, <2>1, <2>2, <2>3 DEF SavedInv, Here
<1>3. CASE Save
  <2>1. /\ phase = "down" /\ phase' = "saving" /\ Emptied(Here) /\ game' = mem
        /\ UNCHANGED <<mem, itemstore, ended>>
    BY <1>3 DEF Save, Here, config
  <2>2. Here \in File
    BY <2>1, SecondAssumption DEF TreeInv, File, Here
  <2>3. ended = "no"
    BY <2>1 DEF FilesInv
  <2> QED BY <1>2, <2>1, <2>2, <2>3
<1>4. ASSUME NEW t \in 1 .. MaxSecond, Backup(t) PROVE SavedInv'
  <2>1. /\ phase \in {"boot", "running"} /\ phase' = "backup" /\ Emptied(BackupFile(t))
        /\ UNCHANGED <<mem, itemstore, ended>>
    BY <1>4 DEF Backup, Coding, config, last
  <2>2. BackupFile(t) \in File
    BY <2>1, SecondAssumption DEF TreeInv, File, BackupFile
  <2>3. ended = "no"
    BY <2>1 DEF FilesInv
  <2> QED BY <1>2, <2>1, <2>2, <2>3
<1> QED BY <1>3, <1>4

LEMMA WriteItemSaves ==
  ASSUME SavedInv, TreeInv, WriteItem
  PROVE  SavedInv'
<1>1. Writing /\ UNCHANGED <<target, phase, mem, itemstore, disk, exists, kept, torn,
                             game, ended>>
  BY DEF WriteItem, config, files, last
<1>2. Written'
  BY <1>1, WrittenStep DEF SavedInv
<1>3. \A s \in Store : Whole(s)' = Whole(s)
  BY <1>1 DEF Whole
<1>4. Here' = Here
  BY <1>1 DEF Here
<1> QED BY <1>1, <1>2, <1>3, <1>4 DEF SavedInv

(* When nothing is left to write, the whole tree is in the file.           *)
LEMMA WrittenAll ==
  ASSUME TypeOK, Written, todo = <<>>
  PROVE  HoldsTree(out, mem) /\ Rooted(mem)
<1>1. PICK g : /\ Walk(g, Len(out), mem)
               /\ \A i \in 1 .. Len(out) : out[i] = RecordOf(mem, g[i])
               /\ Len(g) = Len(out) + Len(todo)
  BY DEF Written
<1>2. Len(out) \in Nat /\ Len(todo) = 0 /\ out \in Seq(Record) /\ IsTree(mem)
  BY LenProperties DEF TypeOK
<1>3. Len(g) = Len(out)
  BY <1>1, <1>2
<1> QED BY <1>1, <1>2, <1>3, WalkEnds

LEMMA CloseSaves ==
  ASSUME SavedInv, FilesInv, TreeInv, Close
  PROVE  SavedInv'
<1>1. /\ Writing /\ todo = <<>> /\ phase \in {"saving", "backup"}
      /\ disk' = Holding(target, out) /\ kept' = Keeping(target, mem)
      /\ torn' = torn \ {target} /\ UNCHANGED <<itemstore, exists, game>>
  BY DEF Close, Finished, Writing, config
<1>2. TypeOK /\ target \in File /\ itemstore \in Store
  BY <1>1 DEF TreeInv
<1>3. HoldsTree(out, mem) /\ Rooted(mem)
  BY <1>1, <1>2, WrittenAll DEF SavedInv
<1>4. ASSUME target[2] = 0
      PROVE  /\ target[1] \in Store /\ target = <<target[1], 0>>
             /\ disk'[target[1]] = out /\ kept'[target[1]] = mem
  BY <1>1, <1>2, <1>4 DEF File, Holding, Keeping, TypeOK
<1>5. ASSUME NEW s \in Store, Whole(s)'
      PROVE  HoldsTree(disk[s], kept[s])' /\ Rooted(kept[s])'
  <2>1. CASE <<s, 0>> = target
    BY <1>3, <1>4, <2>1
  <2>2. CASE <<s, 0>> # target
    <3>1. Whole(s)
      BY <1>1, <1>5, <2>2 DEF Whole
    <3> QED BY <1>1, <1>2, <2>2, <3>1, OtherStores DEF SavedInv
  <2> QED BY <2>1, <2>2
<1>6. CASE phase = "saving"
  <2>1. target = Here /\ game = mem
    BY <1>6 DEF SavedInv
  <2>2. disk'[itemstore] = out /\ Here \notin torn'
    BY <1>1, <1>4, <2>1 DEF Here
  <2>3. phase' = "off" /\ ended' = "saved"
    BY <1>6 DEF Close, Finished, Gone
  <2>4. HoldsTree(disk[itemstore], game)'
    BY <1>1, <1>3, <2>1, <2>2
  <2> QED BY <1>1, <1>2, <1>5, <2>2, <2>3, <2>4 DEF SavedInv, Writing, Here
<1>7. CASE phase = "backup"
  <2>1. phase' = back /\ ended' = ended /\ back \in {"boot", "running"} /\ ended = "no"
    BY <1>7 DEF Close, Finished, TreeInv, FilesInv
  <2> QED BY <1>5, <2>1 DEF SavedInv, Writing
<1> QED BY <1>1, <1>6, <1>7

LEMMA CrashSaves ==
  ASSUME SavedInv, TreeInv, Crash
  PROVE  SavedInv'
<1>1. /\ phase' = "off" /\ ended' = "crashed" /\ UNCHANGED <<exists, kept, torn>>
  BY DEF Crash, Gone
<1>2. TypeOK
  BY DEF TreeInv
<1>3. ASSUME NEW s \in Store, Whole(s)'
      PROVE  HoldsTree(disk[s], kept[s])' /\ Rooted(kept[s])'
  <2>1. Whole(s)
    BY <1>1, <1>3 DEF Whole
  <2>2. disk'[s] = disk[s]
    <3>1. CASE Writing
      <4>1. target \in File /\ target \in torn
        BY <3>1 DEF Writing, TreeInv, SavedInv
      <4>2. <<s, 0>> # target
        BY <2>1, <4>1 DEF Whole
      <4>3. PICK n \in 0 .. Len(out) : disk' = Holding(target, SubSeq(out, 1, n))
        BY <3>1 DEF Crash
      <4> QED BY <1>2, <4>1, <4>2, <4>3, OtherStores
    <3>2. CASE ~Writing
      BY <3>2 DEF Crash
    <3> QED BY <3>1, <3>2
  <2> QED BY <1>1, <2>1, <2>2 DEF SavedInv
<1> QED BY <1>1, <1>3 DEF SavedInv, Writing

LEMMA CloseShortSaves ==
  ASSUME SavedInv, FilesInv, TreeInv, CloseShort
  PROVE  SavedInv'
<1>1. /\ Writing /\ phase \in {"saving", "backup"}
      /\ UNCHANGED <<itemstore, exists, game, kept, torn>>
  BY DEF CloseShort, Finished, Writing, config
<1>2. TypeOK /\ target \in File /\ target \in torn
  BY <1>1 DEF Writing, TreeInv, SavedInv
<1>3. ASSUME NEW s \in Store, Whole(s)'
      PROVE  HoldsTree(disk[s], kept[s])' /\ Rooted(kept[s])'
  <2>1. Whole(s)
    BY <1>1, <1>3 DEF Whole
  <2>2. <<s, 0>> # target
    BY <1>2, <2>1 DEF Whole
  <2>3. PICK n \in 0 .. Len(out) - 1 : disk' = Holding(target, SubSeq(out, 1, n))
    BY DEF CloseShort
  <2>4. disk'[s] = disk[s]
    BY <1>2, <2>2, <2>3, OtherStores
  <2> QED BY <1>1, <2>1, <2>4 DEF SavedInv
<1>4. CASE phase = "saving"
  <2>1. phase' = "off" /\ ended' = "short"
    BY <1>4 DEF CloseShort, Finished, Gone
  <2> QED BY <1>1, <1>3, <2>1 DEF SavedInv, Writing
<1>5. CASE phase = "backup"
  <2>1. phase' = back /\ ended' = ended /\ back \in {"boot", "running"} /\ ended = "no"
    BY <1>5 DEF CloseShort, Finished, TreeInv, FilesInv
  <2> QED BY <1>3, <2>1 DEF SavedInv, Writing
<1> QED BY <1>1, <1>4, <1>5

LEMMA SavedStep == SavedInv /\ FilesInv /\ TreeInv /\ [Next]_vars => SavedInv'
<1> SUFFICES ASSUME SavedInv, FilesInv, TreeInv, [Next]_vars PROVE SavedInv'
  OBVIOUS
<1>1. CASE UNCHANGED vars
  <2>1. UNCHANGED <<phase, fault, mem, out, todo, target, torn, exists, disk, kept,
                    itemstore, game, ended>>
    BY <1>1 DEF vars, files, writer, last, config
  <2>2. Written' = Written /\ Writing' = Writing /\ Here' = Here
    BY <2>1 DEF Written, Writing, Here
  <2>3. \A s \in Store : Whole(s)' = Whole(s)
    BY <2>1 DEF Whole
  <2> QED BY <2>1, <2>2, <2>3 DEF SavedInv
<1>2. CASE Next
  BY <1>2, KeepFiles, BeginSaving, WriteItemSaves, CloseSaves,
     CloseShortSaves, CrashSaves DEF Next
<1> QED BY <1>1, <1>2

\* An orderly end leaves the whole game in the item file: every item once, with
\* the number of its children, and all below it behind it without a gap
\* (save_itemstore, write_item).
THEOREM ShutdownSavesHolds == Spec => []ShutdownSaves
<1>1. SavedInv => ShutdownSaves
  BY DEF SavedInv, ShutdownSaves, Here
<1> QED BY <1>1, FilesInit, FilesStep, TreeInit, TreeStep, SavedInit, SavedStep, PTL DEF Spec

-----------------------------------------------------------------------------
(* What the reader makes of it.                                            *)

(* The trees are functions on the paths of their items, so that two of them *)
(* are the same when they hold the same.                                   *)
Mapping(t) == t = [p \in DOMAIN t |-> t[p]]

MapInv == Mapping(mem) /\ \A s \in Store : Mapping(kept[s])

LEMMA NoTreeMaps == Mapping(NoTree)
BY DEF Mapping, NoTree

LEMMA TreesMap ==
  /\ \A i : Mapping(RootOnly(i))
  /\ \A t, p, i : Mapping(Placed(t, p, i)) /\ Mapping(Created(t, p, i))
  /\ \A t, D : Mapping([q \in D |-> t[q]])
BY DEF Mapping, RootOnly, Placed, Created

LEMMA KeepingMaps ==
  ASSUME TypeOK, MapInv, NEW f \in File, NEW t, Mapping(t)
  PROVE  \A s \in Store : Mapping(Keeping(f, t)[s])
<1>1. CASE f[2] = 0
  BY <1>1 DEF Keeping, TypeOK, MapInv, File
<1>2. CASE f[2] # 0
  BY <1>2 DEF Keeping, MapInv
<1> QED BY <1>1, <1>2

LEMMA MapInit == Init => MapInv
BY NoTreeMaps DEF Init, MapInv

LEMMA MapStep == MapInv /\ TreeInv /\ [Next]_vars => MapInv'
<1> SUFFICES ASSUME MapInv, TreeInv, [Next]_vars PROVE MapInv'
  OBVIOUS
<1> USE NoTreeMaps, TreesMap
<1>0. TypeOK
  BY DEF TreeInv
<1>1. ASSUME UNCHANGED kept, Mapping(mem') PROVE MapInv'
  BY <1>1 DEF MapInv
<1>2. Mapping(mem)
  BY DEF MapInv
<1>3. CASE UNCHANGED vars
  BY <1>1, <1>2, <1>3 DEF vars, files
<1>4. CASE Start \/ GiveBootOnly \/ Refuse \/ Boot
  BY <1>1, <1>2, <1>4 DEF Start, GiveBootOnly, Refuse, Boot, OpenStore, Gone, files
<1>5. ASSUME NEW s \in Store, GiveStore(s) PROVE MapInv'
  BY <1>1, <1>2, <1>5 DEF GiveStore, OpenStore, files
<1>6. ASSUME NEW p \in Path, GiveInput(p) PROVE MapInv'
  BY <1>1, <1>2, <1>6 DEF GiveInput, Gone, files
<1>7. CASE ReadItem
  BY <1>1, <1>7 DEF ReadItem, files
<1>8. CASE ReadReturn \/ ReadPastEnd \/ NoRoot
  BY <1>1, <1>2, <1>8 DEF ReadReturn, ReadPastEnd, NoRoot, files
<1>9. ASSUME NEW p \in Path,
             Delete(p) \/ (\E v \in Value : Assign(p, v)) \/ (\E c \in Code : AssignCode(p, c))
      PROVE  MapInv'
  <2>1. UNCHANGED kept
    BY <1>9 DEF Delete, Assign, AssignCode, files
  <2>2. CASE Delete(p)
    BY <1>1, <2>1, <2>2 DEF Delete
  <2>3. ASSUME NEW v \in Value, Assign(p, v) PROVE MapInv'
    BY <1>1, <1>2, <2>1, <2>3 DEF Assign
  <2>4. ASSUME NEW c \in Code, AssignCode(p, c) PROVE MapInv'
    BY <1>1, <2>1, <2>4 DEF AssignCode
  <2> QED BY <1>9, <2>2, <2>3, <2>4
<1>10. CASE Shutdown \/ Abort \/ EndBoot \/ NoInput \/ EndLoop \/ CannotWrite \/ Discard
            \/ WriteItem
  BY <1>1, <1>2, <1>10 DEF Shutdown, Abort, EndBoot, NoInput, EndLoop, CannotWrite,
                           Discard, WriteItem, Gone, files
<1>11. ASSUME NEW f \in File, Emptied(f), UNCHANGED mem PROVE MapInv'
  <2>1. kept' = Keeping(f, NoTree)
    BY <1>11 DEF Emptied
  <2> QED BY <1>0, <1>2, <1>11, <2>1, KeepingMaps DEF MapInv
<1>12. CASE Save
  <2>1. phase = "down" /\ Emptied(<<itemstore, 0>>) /\ UNCHANGED mem
    BY <1>12 DEF Save
  <2>2. <<itemstore, 0>> \in File
    BY <2>1, SecondAssumption DEF TreeInv, File
  <2> QED BY <1>11, <2>1, <2>2
<1>13. ASSUME NEW t \in 1 .. MaxSecond, Backup(t) PROVE MapInv'
  <2>1. phase \in {"boot", "running"} /\ Emptied(BackupFile(t)) /\ UNCHANGED mem
    BY <1>13 DEF Backup, Coding
  <2>2. BackupFile(t) \in File
    BY <2>1, SecondAssumption DEF TreeInv, File, BackupFile
  <2> QED BY <1>11, <2>1, <2>2
<1>14. CASE Close \/ CloseShort
  <2>1. target \in File /\ kept' \in {kept, Keeping(target, mem)}
    BY <1>14 DEF Close, CloseShort, Writing, TreeInv
  <2>2. Mapping(mem')
    BY <1>2, <1>14 DEF Close, CloseShort, Finished, Gone
  <2> QED BY <1>0, <1>2, <2>1, <2>2, KeepingMaps DEF MapInv
<1>15. CASE Crash
  BY <1>1, <1>15 DEF Crash, Gone
<1> QED BY <1>3, <1>4, <1>5, <1>6, <1>7, <1>8, <1>9, <1>10, <1>12, <1>13, <1>14, <1>15
        DEF Next

-----------------------------------------------------------------------------
(* f is the order in which the records d hold the items of t.              *)
InOrder(f, d, t) ==
  /\ f \in Seq(DOMAIN t) /\ Len(f) = Len(d) /\ 0 < Len(f) /\ f[1] = <<>>
  /\ \A i, j \in 1 .. Len(f) : f[i] = f[j] => i = j
  /\ \A p \in DOMAIN t : \E i \in 1 .. Len(f) : f[i] = p
  /\ \A i \in 1 .. Len(f) : d[i] = RecordOf(t, f[i])
  /\ \A i, j \in 1 .. Len(f) : i < j => ~Under(f[i], f[j])
  /\ \A i, j, k \in 1 .. Len(f) :
       i <= j /\ j <= k /\ Under(f[k], f[i]) => Under(f[j], f[i])

LEMMA HeldInOrder ==
  ASSUME NEW t, IsTree(t), Rooted(t), NEW d \in Seq(Record), HoldsTree(d, t)
  PROVE  \E f : InOrder(f, d, t)
<1>1. PICK f \in Orders(DOMAIN t) :
        /\ DOMAIN f = DOMAIN d /\ f[1] = <<>>
        /\ \A i \in DOMAIN f :
             /\ d[i] = [name |-> NameOf(f[i]), item |-> t[f[i]],
                        children |-> Cardinality(Children(t, f[i]))]
             /\ LET below == {j \in DOMAIN f : Under(f[j], f[i])}
                IN  below = i .. i + Cardinality(below) - 1
  BY DEF HoldsTree
<1> DEFINE L == Len(f)
<1>2. /\ L \in Nat /\ f \in Seq(DOMAIN t) /\ DOMAIN f = 1 .. L
      /\ \A i \in 1 .. L : f[i] \in DOMAIN t
      /\ \A i, j \in 1 .. L : f[i] = f[j] => i = j
      /\ \A p \in DOMAIN t : \E i \in 1 .. L : f[i] = p
  BY OrderOfAll DEF IsTree
<1> HIDE DEF L
<1>3. Len(f) = Len(d) /\ 0 < L
  <2>1. DOMAIN d = 1 .. Len(d) /\ Len(d) \in Nat
    BY LenProperties
  <2>2. \E i \in 1 .. L : f[i] = <<>>
    BY <1>2 DEF Rooted
  <2>3. 0 < L
    BY <1>2, <2>2
  <2>4. 1 .. L = 1 .. Len(d)
    BY <1>1, <1>2, <2>1
  <2>5. L = Len(d)
    <3>1. L \in 1 .. Len(d)
      BY <1>2, <2>3, <2>4
    <3>2. Len(d) \in 1 .. L
      <4>1. Len(d) \in 1 .. Len(d)
        BY <1>2, <2>1, <3>1
      <4> QED BY <2>4, <4>1
    <3> QED BY <1>2, <2>1, <3>1, <3>2
  <2> QED BY <2>3, <2>5 DEF L
<1> DEFINE below(i) == {j \in 1 .. L : Under(f[j], f[i])}
           c(i) == Cardinality(below(i))
<1>4. \A i \in 1 .. L : below(i) = i .. i + c(i) - 1 /\ c(i) \in Nat
  <2>1. \A i \in 1 .. L : {j \in DOMAIN f : Under(f[j], f[i])}
                              = i .. i + Cardinality({j \in DOMAIN f : Under(f[j], f[i])}) - 1
    BY <1>1, <1>2
  <2>2. ASSUME NEW i \in 1 .. L PROVE c(i) \in Nat
    <3>1. below(i) \subseteq 1 .. L /\ IsFiniteSet(1 .. L)
      BY <1>2, FS_Interval
    <3>2. IsFiniteSet(below(i))
      BY <3>1, FS_Subset
    <3> HIDE DEF below
    <3> QED BY <3>2, FS_CardinalityType
  <2>3. \A i \in 1 .. L : below(i) = {j \in DOMAIN f : Under(f[j], f[i])}
    BY <1>2
  <2>4. \A i \in 1 .. L : below(i) = i .. i + c(i) - 1
    BY <2>1, <2>3
  <2> QED BY <2>2, <2>4
<1>5. ASSUME NEW i \in 1 .. L, NEW j \in 1 .. L, i < j PROVE ~Under(f[i], f[j])
  <2>1. i \notin j .. j + c(j) - 1
    BY <1>2, <1>4, <1>5
  <2>2. i \notin below(j)
    BY <1>4, <2>1
  <2> QED BY <2>2
<1>6. ASSUME NEW i \in 1 .. L, NEW j \in 1 .. L, NEW k \in 1 .. L,
             i <= j, j <= k, Under(f[k], f[i])
      PROVE  Under(f[j], f[i])
  <2>1. k \in below(i)
    BY <1>6
  <2> HIDE DEF c
  <2>2. k \in i .. i + c(i) - 1
    BY <1>4, <2>1
  <2>3. j \in i .. i + c(i) - 1
    BY <1>2, <1>4, <1>6, <2>2
  <2>4. j \in below(i)
    BY <1>4, <2>3
  <2> QED BY <2>4
<1>7. \A i \in 1 .. L : d[i] = RecordOf(t, f[i])
  BY <1>1, <1>2 DEF RecordOf
<1> QED BY <1>1, <1>2, <1>3, <1>5, <1>6, <1>7 DEF InOrder, L

ReadOf(f, n) == {f[i] : i \in 1 .. n}

(* An item is read after the one it lies below.                            *)
LEMMA ParentBefore ==
  ASSUME NEW t, IsTree(t), NEW d, NEW f, InOrder(f, d, t), NEW k \in 1 .. Len(f),
         f[k] # <<>>
  PROVE  \E j \in 1 .. k - 1 : f[j] = Parent(f[k]) /\ f[k] \in Children(t, f[j])
<1>1. Len(f) \in Nat /\ f[k] \in DOMAIN t /\ f[k] \in Seq(Name) /\ Parent(f[k]) \in DOMAIN t
  BY LenProperties, ElementOfSeq DEF InOrder, IsTree
<1>2. PICK j \in 1 .. Len(f) : f[j] = Parent(f[k])
  BY <1>1 DEF InOrder
<1>3. Len(f[j]) = Len(f[k]) - 1 /\ Len(f[k]) \in Nat /\ Under(f[k], f[j])
  BY <1>1, <1>2, ParentType, LenProperties
<1>4. j # k
  BY <1>3
<1>5. ~(k < j)
  BY <1>3 DEF InOrder
<1>6. j \in 1 .. k - 1
  BY <1>1, <1>4, <1>5
<1> QED BY <1>1, <1>2, <1>6 DEF Children

LEMMA NotReadYet ==
  ASSUME NEW t, NEW d, NEW f, InOrder(f, d, t), NEW n \in 0 .. Len(f), NEW k \in 1 .. Len(f)
  PROVE  f[k] \in ReadOf(f, n) <=> k <= n
<1>1. Len(f) \in Nat
  BY LenProperties DEF InOrder
<1>2. ASSUME k <= n PROVE f[k] \in ReadOf(f, n)
  BY <1>1, <1>2 DEF ReadOf
<1>3. ASSUME f[k] \in ReadOf(f, n) PROVE k <= n
  <2>1. PICK i \in 1 .. n : f[i] = f[k]
    BY <1>3 DEF ReadOf
  <2>2. i \in 1 .. Len(f)
    BY <1>1
  <2>3. i = k
    BY <2>1, <2>2 DEF InOrder
  <2> QED BY <1>1, <2>3
<1> QED BY <1>2, <1>3

(* If a child of a is still to come and all below a that was read is        *)
(* complete, the next record is that of a child of a.                      *)
LEMMA NextIsChild ==
  ASSUME NEW t, IsTree(t), NEW d, NEW f, InOrder(f, d, t), NEW n \in 1 .. Len(f),
         NEW a \in ReadOf(f, n), NEW b \in Children(t, a), b \notin ReadOf(f, n),
         \A p \in ReadOf(f, n) : Len(p) > Len(a) => Children(t, p) \subseteq ReadOf(f, n)
  PROVE  n < Len(f) /\ f[n + 1] \in Children(t, a)
<1> DEFINE L == Len(f)
           q == f[n + 1]
<1>1. L \in Nat /\ \A i \in 1 .. L : f[i] \in DOMAIN t
  BY LenProperties, ElementOfSeq DEF InOrder
<1>2. \A p \in DOMAIN t : p \in Seq(Name) /\ Len(p) \in Nat
  BY LenProperties DEF IsTree
<1>3. PICK i \in 1 .. n : f[i] = a
  BY DEF ReadOf
<1>4. b \in DOMAIN t
  BY DEF Children
<1>5. PICK k \in 1 .. L : f[k] = b
  BY <1>4 DEF InOrder
<1>6. k > n
  <2>1. ~(k <= n)
    BY <1>1, <1>5, NotReadYet
  <2> QED BY <1>1, <2>1
<1>7. n < L /\ n + 1 \in 1 .. L /\ i \in 1 .. L /\ i <= n + 1 /\ n + 1 <= k /\ i # n + 1
  BY <1>1, <1>3, <1>6
<1>8. a \in DOMAIN t /\ a \in Seq(Name) /\ q \in DOMAIN t /\ q \in Seq(Name)
  BY <1>1, <1>2, <1>3, <1>7
<1>9. Under(b, a)
  BY <1>8, ChildrenApart
<1>10. Under(q, a) /\ q # a
  BY <1>3, <1>5, <1>7, <1>9 DEF InOrder
<1>11. q # <<>> /\ Under(Parent(q), a) /\ Len(a) <= Len(Parent(q))
  BY <1>8, <1>10, ParentUnder
<1>12. PICK j \in 1 .. n + 1 - 1 : f[j] = Parent(q) /\ q \in Children(t, f[j])
  BY <1>7, <1>11, ParentBefore
<1>13. f[j] \in ReadOf(f, n) /\ f[j] \in DOMAIN t
  BY <1>1, <1>12 DEF ReadOf
<1>14. q \notin ReadOf(f, n)
  BY <1>1, <1>7, NotReadYet
<1>15. ~(Len(f[j]) > Len(a))
  BY <1>12, <1>13, <1>14
<1>16. Len(f[j]) = Len(a)
  BY <1>2, <1>8, <1>11, <1>12, <1>13, <1>15
<1>17. f[j] = a
  BY <1>2, <1>8, <1>11, <1>12, <1>13, <1>16, UnderSameLength
<1> QED BY <1>7, <1>12, <1>17

(* If all that was read is complete, all was read.                         *)
LEMMA AllIsRead ==
  ASSUME NEW t, IsTree(t), NEW d, NEW f, InOrder(f, d, t), NEW n \in 1 .. Len(f),
         \A p \in ReadOf(f, n) : Children(t, p) \subseteq ReadOf(f, n)
  PROVE  n = Len(f) /\ ReadOf(f, n) = DOMAIN t
<1>1. Len(f) \in Nat /\ \A i \in 1 .. Len(f) : f[i] \in DOMAIN t
  BY LenProperties, ElementOfSeq DEF InOrder
<1>2. n = Len(f)
  <2> SUFFICES ASSUME n # Len(f) PROVE FALSE
    OBVIOUS
  <2>1. n + 1 \in 1 .. Len(f) /\ 1 \in 1 .. Len(f) /\ n + 1 # 1
    BY <1>1
  <2>2. f[n + 1] # <<>>
    <3>1. f[1] = <<>> /\ (f[n + 1] = f[1] => n + 1 = 1)
      BY <2>1 DEF InOrder
    <3> QED BY <2>1, <3>1
  <2>3. PICK j \in 1 .. n + 1 - 1 : f[n + 1] \in Children(t, f[j])
    BY <2>1, <2>2, ParentBefore
  <2>4. f[j] \in ReadOf(f, n)
    BY <2>3 DEF ReadOf
  <2>5. f[n + 1] \notin ReadOf(f, n)
    BY <2>1, NotReadYet
  <2> QED BY <2>3, <2>4, <2>5
<1>3. ReadOf(f, n) = DOMAIN t
  <2>1. \A p \in DOMAIN t : \E i \in 1 .. n : f[i] = p
    BY <1>2 DEF InOrder
  <2>2. \A i \in 1 .. n : f[i] \in DOMAIN t
    BY <1>1, <1>2
  <2> QED BY <2>1, <2>2 DEF ReadOf
<1> QED BY <1>2, <1>3

LEMMA ParentAndName ==
  ASSUME NEW q \in Seq(Name), q # <<>>
  PROVE  q = Append(Parent(q), NameOf(q))
<1>1. Len(q) \in Nat /\ Len(q) > 0
  BY EmptySeq, LenProperties
<1>2. /\ Parent(q) \in Seq(Name) /\ Len(Parent(q)) = Len(q) - 1
      /\ NameOf(q) \in Name /\ NameOf(q) = q[Len(q)]
  BY ParentType, NameType DEF NameOf
<1>3. \A i \in 1 .. Len(Parent(q)) : q[i] = Parent(q)[i]
  BY <1>2, ParentType, UnderLayers
<1> DEFINE a == Append(Parent(q), NameOf(q))
<1>4. /\ a \in Seq(Name) /\ Len(a) = Len(q) - 1 + 1
      /\ \A i \in 1 .. Len(q) - 1 : a[i] = Parent(q)[i]
      /\ a[Len(q) - 1 + 1] = NameOf(q)
  BY <1>2, AppendProperties
<1> HIDE DEF a
<1>5. Len(a) = Len(q) /\ a[Len(q)] = NameOf(q)
  <2>1. Len(q) - 1 + 1 = Len(q)
    BY <1>1
  <2> QED BY <1>4, <2>1
<1>6. \A i \in 1 .. Len(q) : a[i] = q[i]
  BY <1>1, <1>2, <1>3, <1>4, <1>5
<1>7. a = q
  BY <1>4, <1>5, <1>6, SeqEqual
<1> QED BY <1>7 DEF a

-----------------------------------------------------------------------------
(* The reader has read the first records of a file that is whole: mem is    *)
(* that part of the tree; the items on the way to the last one are open,    *)
(* each with the number of its children that are still to come, and every   *)
(* other item that was read is complete.                                   *)
HalfRead(f) ==
  LET t == kept[itemstore]
      R == ReadOf(f, pos)
  IN  /\ InOrder(f, disk[itemstore], t)
      /\ pos \in 0 .. Len(f)
      /\ pos = 0 <=> open = <<>>
      /\ mem = [q \in R |-> t[q]]
      /\ \A m \in 1 .. Len(open) :
           /\ open[m].at \in R /\ Len(open[m].at) = m - 1
           /\ open[m].left = Cardinality(Children(t, open[m].at) \ R)
      /\ \A p \in R : \/ Children(t, p) \subseteq R
                      \/ \E m \in 1 .. Len(open) : open[m].at = p

ReadInv ==
  phase = "reading" =>
    Here \in exists /\ (Here \notin torn => \E f : HalfRead(f))

LEMMA ReadInit == Init => ReadInv
BY DEF Init, ReadInv

(* A file is opened for reading when it is there.                          *)
LEMMA ReadStart ==
  ASSUME TypeOK, SavedInv, itemstore' \in Store, UNCHANGED files,
         Here' \in exists', pos' = 0, open' = <<>>, mem' = NoTree
  PROVE  ReadInv'
<1>1. UNCHANGED <<disk, exists, kept, torn>>
  BY DEF files
<1> DEFINE s == itemstore'
           t == kept[s]
<1>2. SUFFICES ASSUME Here' \notin torn PROVE (\E f : HalfRead(f))'
  BY <1>1 DEF ReadInv
<1>3. Whole(s)
  BY <1>1, <1>2 DEF Whole, Here
<1>4. IsTree(t) /\ Rooted(t) /\ HoldsTree(disk[s], t) /\ disk[s] \in Seq(Record)
  BY <1>3 DEF TypeOK, SavedInv
<1>5. PICK f : InOrder(f, disk[s], t)
  BY <1>4, HeldInOrder
<1>6. ReadOf(f, 0) = {}
  BY DEF ReadOf
<1>7. 0 \in 0 .. Len(f)
  BY LenProperties, <1>5 DEF InOrder
<1>8. mem' = [q \in ReadOf(f, 0) |-> t[q]]
  BY <1>6 DEF NoTree
<1>9. Len(<<>>) = 0 /\ 1 .. 0 = {}
  OBVIOUS
<1>10. HalfRead(f)'
  BY <1>1, <1>5, <1>6, <1>7, <1>8, <1>9 DEF HalfRead
<1> QED BY <1>10

(* The facts on what is open that ReadItem and ReadReturn need.            *)
LEMMA OpenTop ==
  ASSUME TypeOK, open # <<>>
  PROVE  /\ Len(open) \in Nat /\ Len(open) > 0 /\ Top = open[Len(open)]
         /\ \A m \in 1 .. Len(open) :
              open[m] = [at |-> open[m].at, left |-> open[m].left]
              /\ open[m].at \in DOMAIN mem /\ open[m].left \in Nat
<1>1. open \in Seq([at : DOMAIN mem, left : Nat])
  BY DEF TypeOK
<1>2. Len(open) \in Nat /\ Len(open) > 0
  BY <1>1, EmptySeq, LenProperties
<1>3. \A m \in 1 .. Len(open) : open[m] \in [at : DOMAIN mem, left : Nat]
  BY <1>1, ElementOfSeq
<1> QED BY <1>2, <1>3 DEF Top

LEMMA ReadItemReads ==
  ASSUME TypeOK, itemstore \in Store, ReadItem, NEW f, HalfRead(f)
  PROVE  HalfRead(f)'
<1> DEFINE t == kept[itemstore]
           d == disk[itemstore]
           R == ReadOf(f, pos)
           R1 == ReadOf(f, pos + 1)
           c == f[pos + 1]
           r == d[pos + 1]
           p == IF open = <<>> THEN <<>> ELSE Append(Top.at, r.name)
           N == Len(open)
<1>1. /\ IsTree(t) /\ d \in Seq(Record) /\ open \in Seq([at : DOMAIN mem, left : Nat])
  BY DEF TypeOK
<1>2. /\ InOrder(f, d, t) /\ pos \in 0 .. Len(f) /\ (pos = 0 <=> open = <<>>)
      /\ mem = [q \in R |-> t[q]]
      /\ \A m \in 1 .. N :
           /\ open[m].at \in R /\ Len(open[m].at) = m - 1
           /\ open[m].left = Cardinality(Children(t, open[m].at) \ R)
      /\ \A q \in R : \/ Children(t, q) \subseteq R
                      \/ \E m \in 1 .. N : open[m].at = q
  BY DEF HalfRead
<1>3. /\ pos < Len(d) /\ (open # <<>> => Top.left > 0)
      /\ mem' = Placed(mem, p, r.item)
      /\ open' = Append(OneCame, [at |-> p, left |-> r.children])
      /\ pos' = pos + 1 /\ UNCHANGED <<itemstore, disk, exists, kept, torn>>
  BY DEF ReadItem, config, files
<1>4. /\ Len(f) = Len(d) /\ Len(f) \in Nat /\ pos + 1 \in 1 .. Len(f)
      /\ \A i \in 1 .. Len(f) : f[i] \in DOMAIN t /\ f[i] \in Seq(Name)
  <2>1. f \in Seq(DOMAIN t) /\ Len(f) = Len(d)
    BY <1>2 DEF InOrder
  <2>2. Len(f) \in Nat /\ \A i \in 1 .. Len(f) : f[i] \in DOMAIN t
    BY <2>1, LenProperties, ElementOfSeq
  <2>3. \A q \in DOMAIN t : q \in Seq(Name)
    BY <1>1 DEF IsTree
  <2>4. pos + 1 \in 1 .. Len(f)
    BY <1>2, <1>3, <2>1, <2>2
  <2> QED BY <2>1, <2>2, <2>3, <2>4
<1>5. r = RecordOf(t, c) /\ c \in DOMAIN t /\ c \in Seq(Name)
  BY <1>2, <1>4 DEF InOrder
<1>6. R1 = R \cup {c}
  BY <1>2, <1>4 DEF ReadOf
<1>7. c \notin R
  <2>1. ~(pos + 1 <= pos)
    BY <1>2
  <2> QED BY <1>2, <1>4, <2>1, NotReadYet
<1>8. N \in Nat
  BY <1>1, LenProperties
<1>9. \A m \in 1 .. N : open[m] \in [at : DOMAIN mem, left : Nat]
  BY <1>1, ElementOfSeq
<1> HIDE DEF R, R1, c, d, r, t, N
\* The next record is that of a child of the item at the top.
<1>10. ASSUME open # <<>> PROVE c \in Children(t, Top.at) /\ N > 0
  <2>1. N > 0 /\ Top = open[N]
    BY <1>1, <1>10, EmptySeq DEF N, Top
  <2>2. N \in 1 .. N
    BY <1>8, <2>1
  <2>3. Top.at \in R /\ Len(Top.at) = N - 1
        /\ Top.left = Cardinality(Children(t, Top.at) \ R) /\ Top.left > 0
    BY <1>2, <1>3, <1>10, <2>1, <2>2
  <2>4. \E b \in Children(t, Top.at) : b \notin R
    <3>1. Children(t, Top.at) \ R # {}
      BY <2>3, FS_EmptySet
    <3> QED BY <3>1
  <2>5. \A q \in R : Len(q) > Len(Top.at) => Children(t, q) \subseteq R
    <3> SUFFICES ASSUME NEW q \in R, Len(q) > N - 1 PROVE Children(t, q) \subseteq R
      BY <2>3
    <3>1. ASSUME NEW m \in 1 .. N, open[m].at = q PROVE FALSE
      <4>1. Len(q) = m - 1
        BY <1>2, <3>1
      <4> QED BY <1>8, <4>1
    <3> QED BY <1>2, <3>1
  <2>6. pos \in 1 .. Len(f)
    BY <1>2, <1>4, <1>10
  <2>7. c \in Children(t, Top.at)
    BY <1>1, <1>2, <2>3, <2>4, <2>5, <2>6, NextIsChild DEF R, c
  <2> QED BY <2>1, <2>7
<1>11. p = c /\ Len(c) = N
  <2>1. CASE open = <<>>
    <3>1. pos = 0 /\ N = 0
      BY <1>2, <2>1 DEF N
    <3>2. c = <<>>
      BY <1>2, <3>1 DEF c, InOrder
    <3> QED BY <2>1, <3>1, <3>2
  <2>2. CASE open # <<>>
    <3>1. c \in Children(t, Top.at) /\ N > 0 /\ Top = open[N] /\ N \in 1 .. N
      BY <1>8, <1>10, <2>2 DEF Top, N
    <3>2. c # <<>> /\ Parent(c) = Top.at
      BY <3>1 DEF Children
    <3>3. c = Append(Top.at, NameOf(c)) /\ Len(Top.at) = Len(c) - 1
      BY <1>5, <3>2, ParentAndName, ParentType
    <3>4. r.name = NameOf(c)
      BY <1>5 DEF RecordOf
    <3>5. Len(Top.at) = N - 1 /\ Len(c) \in Nat
      BY <1>2, <1>5, <3>1, LenProperties
    <3> QED BY <1>8, <2>2, <3>3, <3>4, <3>5
  <2> QED BY <2>1, <2>2
<1>12. mem' = [q \in R1 |-> t[q]]
  <2>1. r.item = t[c]
    BY <1>5 DEF RecordOf
  <2>2. mem' = [q \in DOMAIN mem \cup {c} |-> IF q = c THEN t[c] ELSE mem[q]]
    BY <1>3, <1>11, <2>1 DEF Placed
  <2>3. DOMAIN mem = R /\ \A q \in R : mem[q] = t[q]
    BY <1>2
  <2> QED BY <1>6, <2>2, <2>3
\* None of its children was read.
<1>13. r.children = Cardinality(Children(t, c) \ R1)
  <2>1. ASSUME NEW b \in Children(t, c), b \in R1 PROVE FALSE
    <3>1. PICK i \in 1 .. pos + 1 : f[i] = b
      BY <2>1 DEF R1, ReadOf
    <3>2. i \in 1 .. Len(f) /\ Under(f[i], c) /\ b # c
      BY <1>1, <1>4, <1>5, <3>1, ChildrenApart
    <3>3. i # pos + 1 /\ i < pos + 1
      BY <1>2, <3>1, <3>2 DEF c
    <3>4. ~Under(f[i], f[pos + 1])
      BY <1>2, <1>4, <3>2, <3>3 DEF InOrder
    <3> QED BY <3>2, <3>4 DEF c
  <2>2. Children(t, c) \ R1 = Children(t, c)
    BY <2>1
  <2> QED BY <1>5, <2>2 DEF RecordOf
<1>14. /\ OneCame \in Seq([at : DOMAIN mem, left : Nat]) /\ Len(OneCame) = N
       /\ \A m \in 1 .. N :
            /\ OneCame[m].at = open[m].at
            /\ OneCame[m].left = Cardinality(Children(t, open[m].at) \ R1)
  <2>1. CASE open = <<>>
    BY <1>1, <2>1 DEF OneCame, N
  <2>2. CASE open # <<>>
    <3>1. c \in Children(t, Top.at) /\ N \in 1 .. N /\ Top = open[N] /\ Top.left > 0
          /\ Top.left = Cardinality(Children(t, Top.at) \ R) /\ Top.at = open[N].at
      BY <1>2, <1>3, <1>8, <1>10, <2>2 DEF Top, N
    <3> DEFINE e == [Top EXCEPT !.left = @ - 1]
    <3>2. Top \in [at : DOMAIN mem, left : Nat]
      BY <1>9, <3>1
    <3>3. e \in [at : DOMAIN mem, left : Nat] /\ e.at = Top.at /\ e.left = Top.left - 1
      BY <3>1, <3>2
    <3>4. OneCame = [open EXCEPT ![N] = e]
      BY <2>2 DEF OneCame, N, Top
    <3> HIDE DEF e
    <3>5. /\ OneCame \in Seq([at : DOMAIN mem, left : Nat]) /\ Len(OneCame) = N
          /\ \A m \in 1 .. N : OneCame[m] = IF m = N THEN e ELSE open[m]
      BY <1>1, <3>1, <3>3, <3>4, ExceptSeq DEF N
    <3>6. e.left = Cardinality(Children(t, Top.at) \ R1)
      <4>1. (Children(t, Top.at) \ R) \ {c} = Children(t, Top.at) \ R1
        BY <1>6
      <4>2. IsFiniteSet(Children(t, Top.at) \ R)
        BY <1>1, ChildrenFinite, FS_Difference
      <4>3. c \in Children(t, Top.at) \ R
        BY <1>7, <3>1
      <4> DEFINE S == Children(t, Top.at) \ R
      <4>4. Cardinality(S \ {c}) = Cardinality(S) - 1
        <5> HIDE DEF S
        <5>1. IsFiniteSet(S) /\ c \in S
          BY <4>2, <4>3 DEF S
        <5> QED BY <5>1, FS_RemoveElement
      <4>5. Cardinality(Children(t, Top.at) \ R1) = Cardinality(S) - 1
        BY <4>1, <4>4
      <4> QED BY <3>1, <3>3, <4>5
    <3>7. ASSUME NEW m \in 1 .. N, m # N
          PROVE  open[m].left = Cardinality(Children(t, open[m].at) \ R1)
      <4>1. Len(open[m].at) = m - 1 /\ Len(Top.at) = N - 1
        BY <1>2, <3>1
      <4>2. open[m].at # Top.at
        BY <1>8, <3>7, <4>1
      <4>3. c \notin Children(t, open[m].at)
        BY <3>1, <4>2 DEF Children
      <4>4. Children(t, open[m].at) \ R1 = Children(t, open[m].at) \ R
        BY <1>6, <4>3
      <4> QED BY <1>2, <4>4
    <3> QED BY <3>1, <3>3, <3>5, <3>6, <3>7
  <2> QED BY <2>1, <2>2
<1>15. [at |-> c, left |-> r.children] \in [at : DOMAIN mem', left : Nat]
  <2>1. c \in DOMAIN mem'
    BY <1>6, <1>12
  <2>2. IsFiniteSet(Children(t, c))
    BY <1>1, ChildrenFinite
  <2>3. r.children = Cardinality(Children(t, c)) /\ Cardinality(Children(t, c)) \in Nat
    BY <1>5, <2>2, FS_CardinalityType DEF RecordOf
  <2> QED BY <2>1, <2>3
<1>16. OneCame \in Seq([at : DOMAIN mem', left : Nat])
  <2>1. DOMAIN mem \subseteq DOMAIN mem'
    BY <1>2, <1>6, <1>12
  <2>2. [at : DOMAIN mem, left : Nat] \subseteq [at : DOMAIN mem', left : Nat]
    BY <2>1
  <2> QED BY <1>14, <2>2, SeqMonotonic
<1>17. /\ Len(open') = N + 1
       /\ \A m \in 1 .. N : open'[m] = OneCame[m]
       /\ open'[N + 1] = [at |-> c, left |-> r.children]
       /\ open' # <<>>
  <2> DEFINE e == [at |-> c, left |-> r.children]
             S == [at : DOMAIN mem', left : Nat]
  <2>1. open' = Append(OneCame, e)
    BY <1>3, <1>11
  <2>2. e \in S /\ OneCame \in Seq(S)
    BY <1>15, <1>16
  <2> HIDE DEF e, S
  <2>3. /\ Append(OneCame, e) # <<>>
        /\ Len(Append(OneCame, e)) = Len(OneCame) + 1
        /\ \A m \in 1 .. Len(OneCame) : Append(OneCame, e)[m] = OneCame[m]
        /\ Append(OneCame, e)[Len(OneCame) + 1] = e
    BY <2>2, AppendProperties
  <2> QED BY <1>14, <2>1, <2>3 DEF e
<1>18. ASSUME NEW m \in 1 .. N + 1
       PROVE  /\ open'[m].at \in R1 /\ Len(open'[m].at) = m - 1
              /\ open'[m].left = Cardinality(Children(t, open'[m].at) \ R1)
  <2>1. CASE m = N + 1
    <3>1. open'[m].at = c /\ open'[m].left = r.children
      BY <1>17, <2>1
    <3>2. m - 1 = N
      BY <1>8, <2>1
    <3> QED BY <1>6, <1>11, <1>13, <3>1, <3>2
  <2>2. CASE m # N + 1
    <3>1. m \in 1 .. N
      BY <1>8, <2>2
    <3>2. open'[m].at = open[m].at /\ open[m].at \in R /\ Len(open[m].at) = m - 1
          /\ open'[m].left = Cardinality(Children(t, open[m].at) \ R1)
      BY <1>2, <1>14, <1>17, <3>1
    <3> QED BY <1>6, <3>2
  <2> QED BY <2>1, <2>2
<1>19. ASSUME NEW q \in R1
       PROVE  \/ Children(t, q) \subseteq R1
              \/ \E m \in 1 .. N + 1 : open'[m].at = q
  <2>1. CASE q = c
    <3>1. N + 1 \in 1 .. N + 1 /\ open'[N + 1].at = c
      BY <1>8, <1>17
    <3> QED BY <2>1, <3>1
  <2>2. CASE q # c
    <3>1. q \in R
      BY <1>6, <2>2
    <3>2. ASSUME NEW m \in 1 .. N, open[m].at = q
          PROVE  m \in 1 .. N + 1 /\ open'[m].at = q
      <4>1. m \in 1 .. N + 1
        BY <1>8
      <4>2. open'[m].at = open[m].at
        BY <1>14, <1>17
      <4> QED BY <3>2, <4>1, <4>2
    <3> QED BY <1>2, <1>6, <3>1, <3>2
  <2> QED BY <2>1, <2>2
<1>20. /\ pos' \in 0 .. Len(f) /\ (pos' = 0 <=> open' = <<>>)
       /\ ReadOf(f, pos') = R1 /\ kept'[itemstore'] = t /\ disk'[itemstore'] = d
  BY <1>2, <1>3, <1>4, <1>17 DEF R1, t, d
<1> QED BY <1>2, <1>12, <1>17, <1>18, <1>19, <1>20 DEF HalfRead

(* An item with no child to come is complete, and is read no more.         *)
LEMMA ReadReturnReads ==
  ASSUME TypeOK, itemstore \in Store, ReadReturn, Len(open) # 1, NEW f, HalfRead(f)
  PROVE  HalfRead(f)'
<1> DEFINE t == kept[itemstore]
           R == ReadOf(f, pos)
           N == Len(open)
<1>1. /\ open # <<>> /\ Top.left = 0 /\ open' = SubSeq(open, 1, N - 1)
      /\ UNCHANGED <<itemstore, disk, kept, pos, mem>>
  BY DEF ReadReturn, config, files
<1>2. /\ InOrder(f, disk[itemstore], t) /\ pos \in 0 .. Len(f) /\ (pos = 0 <=> open = <<>>)
      /\ mem = [q \in R |-> t[q]]
      /\ \A m \in 1 .. N :
           /\ open[m].at \in R /\ Len(open[m].at) = m - 1
           /\ open[m].left = Cardinality(Children(t, open[m].at) \ R)
      /\ \A q \in R : \/ Children(t, q) \subseteq R
                      \/ \E m \in 1 .. N : open[m].at = q
  BY DEF HalfRead
<1>3. open \in Seq([at : DOMAIN mem, left : Nat]) /\ IsTree(t)
  BY DEF TypeOK
<1>4. N \in Nat /\ N > 1 /\ Top = open[N]
  <2>1. N \in Nat \ {0} /\ Top = open[N]
    BY <1>1, <1>3, EmptySeq DEF Top
  <2>2. N # 1
    OBVIOUS
  <2> HIDE DEF N
  <2> QED BY <2>1, <2>2
<1>5. \A i \in 1 .. N - 1 : open[i] \in [at : DOMAIN mem, left : Nat]
  <2> SUFFICES ASSUME NEW i \in 1 .. N - 1 PROVE open[i] \in [at : DOMAIN mem, left : Nat]
    OBVIOUS
  <2>1. i \in 1 .. Len(open)
    <3> HIDE DEF N
    <3>1. i \in 1 .. N
      BY <1>4
    <3> QED BY <3>1 DEF N
  <2> QED BY <1>3, <2>1, ElementOfSeq
<1> HIDE DEF R, N, t
<1>6. Len(open') = N - 1 /\ \A m \in 1 .. N - 1 : open'[m] = open[m]
  <2>1. /\ Len(open') = IF 1 <= N - 1 THEN N - 1 - 1 + 1 ELSE 0
        /\ \A m \in 1 .. N - 1 - 1 + 1 : open'[m] = open[1 + m - 1]
    BY <1>1, <1>4, <1>5, SubSeqProperties
  <2> QED BY <1>4, <2>1
<1>7. Children(t, Top.at) \subseteq R
  <2>1. Cardinality(Children(t, Top.at) \ R) = 0
    BY <1>1, <1>2, <1>4
  <2>2. IsFiniteSet(Children(t, Top.at) \ R)
    BY <1>3, ChildrenFinite, FS_Difference
  <2>3. Children(t, Top.at) \ R = {}
    BY <2>1, <2>2, FS_EmptySet
  <2> QED BY <2>3
<1>8. open' # <<>>
  BY <1>4, <1>6
<1>9. ASSUME NEW q \in R
      PROVE  Children(t, q) \subseteq R \/ \E m \in 1 .. N - 1 : open'[m].at = q
  <2>1. ASSUME NEW m \in 1 .. N, open[m].at = q, m # N
        PROVE  m \in 1 .. N - 1 /\ open'[m].at = q
    BY <1>4, <1>6, <2>1
  <2>2. open[N].at = q => Children(t, q) \subseteq R
    BY <1>4, <1>7
  <2> QED BY <1>2, <2>1, <2>2
<1>10. \A m \in 1 .. N - 1 : m \in 1 .. N
  BY <1>4
<1>11. kept'[itemstore'] = t /\ disk'[itemstore'] = disk[itemstore] /\ ReadOf(f, pos') = R
  BY <1>1 DEF t, R
<1>12. ASSUME NEW m \in 1 .. N - 1
       PROVE  /\ open'[m].at \in R /\ Len(open'[m].at) = m - 1
              /\ open'[m].left = Cardinality(Children(t, open'[m].at) \ R)
  BY <1>2, <1>6, <1>10
<1>13. pos' \in 0 .. Len(f) /\ (pos' = 0 <=> open' = <<>>) /\ mem' = [q \in R |-> t[q]]
  BY <1>1, <1>2, <1>8
<1> QED BY <1>2, <1>6, <1>9, <1>11, <1>12, <1>13 DEF HalfRead

LEMMA ReadStep ==
  ReadInv /\ SavedInv /\ TreeInv /\ [Next]_vars => ReadInv'
<1> SUFFICES ASSUME ReadInv, SavedInv, TreeInv, [Next]_vars PROVE ReadInv'
  OBVIOUS
<1>0. TypeOK
  BY DEF TreeInv
<1>1. ASSUME phase' # "reading" PROVE ReadInv'
  BY <1>1 DEF ReadInv
<1>2. ASSUME UNCHANGED <<phase, mem, itemstore, disk, exists, kept, torn, pos, open>>
      PROVE  ReadInv'
  <2>1. ASSUME NEW f, HalfRead(f) PROVE HalfRead(f)'
    BY <1>2, <2>1 DEF HalfRead
  <2>2. Here' = Here
    BY <1>2 DEF Here
  <2> QED BY <1>2, <2>1, <2>2 DEF ReadInv
<1>3. ASSUME NEW s \in Store, NEW then \in {"options", "boot"}, OpenStore(s, then),
             UNCHANGED files
      PROVE  ReadInv'
  <2>1. CASE phase' = "reading"
    <3>1. itemstore' = s /\ <<s, 0>> \in exists /\ pos' = 0 /\ open' = <<>> /\ mem' = NoTree
      BY <1>3, <2>1 DEF OpenStore
    <3>2. Here' \in exists'
      BY <1>3, <3>1 DEF Here, files
    <3> QED BY <1>0, <1>3, <3>1, <3>2, ReadStart
  <2> QED BY <1>1, <2>1
<1>4. CASE UNCHANGED vars
  BY <1>2, <1>4 DEF vars, config, files, reader
<1>5. CASE Start \/ GiveBootOnly \/ Refuse
  BY <1>1, <1>5 DEF Start, GiveBootOnly, Refuse, Gone
<1>6. CASE Boot
  <2>1. CASE Rooted(mem)
    BY <1>1, <1>6, <2>1 DEF Boot
  <2>2. CASE ~Rooted(mem)
    BY <1>3, <1>6, <2>2, StoreAssumption DEF Boot
  <2> QED BY <2>1, <2>2
<1>7. ASSUME NEW s \in Store, GiveStore(s) PROVE ReadInv'
  BY <1>3, <1>7 DEF GiveStore
<1>8. ASSUME NEW p \in Path, GiveInput(p) PROVE ReadInv'
  BY <1>1, <1>8 DEF GiveInput, Gone
<1>9. CASE ReadItem
  <2>1. phase = "reading" /\ itemstore \in Store
        /\ UNCHANGED <<phase, itemstore, disk, exists, kept, torn>>
    BY <1>9 DEF ReadItem, Reading, TreeInv, config, files
  <2>2. \A f : HalfRead(f) => HalfRead(f)'
    BY <1>0, <1>9, <2>1, ReadItemReads
  <2>3. Here' = Here
    BY <2>1 DEF Here
  <2> QED BY <2>1, <2>2, <2>3 DEF ReadInv
<1>10. CASE ReadReturn
  <2>1. phase = "reading" /\ itemstore \in Store /\ back \in {"options", "boot"}
        /\ UNCHANGED <<itemstore, disk, exists, kept, torn>>
        /\ phase' = IF Len(open) = 1 THEN back ELSE phase
    BY <1>10 DEF ReadReturn, Reading, TreeInv, config, files
  <2>2. CASE Len(open) = 1
    BY <1>1, <2>1, <2>2
  <2>3. CASE Len(open) # 1
    <3>1. \A f : HalfRead(f) => HalfRead(f)'
      BY <1>0, <1>10, <2>1, <2>3, ReadReturnReads
    <3>2. Here' = Here
      BY <2>1 DEF Here
    <3> QED BY <2>1, <2>3, <3>1, <3>2 DEF ReadInv
  <2> QED BY <2>2, <2>3
<1>11. CASE ReadPastEnd
  BY <1>2, <1>11 DEF ReadPastEnd, config, files, reader
<1>12. CASE NoRoot \/ Shutdown \/ Abort \/ EndBoot \/ NoInput \/ EndLoop
  BY <1>1, <1>12 DEF NoRoot, Shutdown, Abort, EndBoot, NoInput, EndLoop, Coding, Gone
<1>13. ASSUME NEW p \in Path,
              Delete(p) \/ (\E v \in Value : Assign(p, v)) \/ (\E c \in Code : AssignCode(p, c))
       PROVE  ReadInv'
  BY <1>1, <1>13 DEF Delete, Assign, AssignCode, Coding
<1>14. CASE \E t \in 1 .. MaxSecond : Backup(t)
  BY <1>1, <1>14 DEF Backup
<1>15. CASE Save \/ CannotWrite \/ Discard \/ WriteItem \/ Crash
  BY <1>1, <1>15 DEF Save, CannotWrite, Discard, WriteItem, Writing, Crash, Gone
<1>16. CASE Close \/ CloseShort
  BY <1>1, <1>16 DEF Close, CloseShort, Finished, Writing, Gone, TreeInv
<1> QED BY <1>4, <1>5, <1>6, <1>7, <1>8, <1>9, <1>10, <1>11, <1>12, <1>13, <1>14, <1>15,
           <1>16
        DEF Next

(* When the root returns, all that was saved is there.                     *)
LEMMA AllLoaded ==
  ASSUME TypeOK, itemstore \in Store, Mapping(kept[itemstore]),
         ReadReturn, Len(open) = 1, NEW f, HalfRead(f)
  PROVE  mem' = kept[itemstore]
<1> DEFINE t == kept[itemstore]
           R == ReadOf(f, pos)
<1>1. open # <<>> /\ Top.left = 0 /\ Top = open[1] /\ mem' = mem
  BY DEF ReadReturn, Top
<1>2. /\ InOrder(f, disk[itemstore], t) /\ pos \in 0 .. Len(f) /\ (pos = 0 <=> open = <<>>)
      /\ mem = [q \in R |-> t[q]]
      /\ \A m \in 1 .. 1 :
           /\ open[m].at \in R /\ Len(open[m].at) = m - 1
           /\ open[m].left = Cardinality(Children(t, open[m].at) \ R)
      /\ \A q \in R : \/ Children(t, q) \subseteq R
                      \/ \E m \in 1 .. 1 : open[m].at = q
  BY DEF HalfRead
<1>3. IsTree(t) /\ Mapping(t)
  BY DEF TypeOK
<1> HIDE DEF t, R
<1>4. Children(t, Top.at) \subseteq R
  <2>1. 1 \in 1 .. 1
    OBVIOUS
  <2>2. Cardinality(Children(t, Top.at) \ R) = 0
    BY <1>1, <1>2, <2>1
  <2>3. IsFiniteSet(Children(t, Top.at) \ R)
    BY <1>3, ChildrenFinite, FS_Difference
  <2>4. Children(t, Top.at) \ R = {}
    BY <2>2, <2>3, FS_EmptySet
  <2> QED BY <2>4
<1>5. \A q \in R : Children(t, q) \subseteq R
  <2>1. \A m \in 1 .. 1 : m = 1
    OBVIOUS
  <2> QED BY <1>1, <1>2, <1>4, <2>1
<1>6. pos \in 1 .. Len(f)
  <2>1. Len(f) \in Nat
    BY <1>2, LenProperties DEF InOrder
  <2> QED BY <1>1, <1>2, <2>1
<1>7. R = DOMAIN t
  BY <1>2, <1>3, <1>5, <1>6, AllIsRead DEF R
<1>8. mem = t
  BY <1>2, <1>3, <1>7 DEF Mapping
<1> QED BY <1>1, <1>8 DEF t

(* A whole file does not end before the last child.                        *)
LEMMA NothingPastEnd ==
  ASSUME TypeOK, itemstore \in Store, ReadPastEnd, NEW f, HalfRead(f)
  PROVE  FALSE
<1> DEFINE t == kept[itemstore]
           R == ReadOf(f, pos)
           N == Len(open)
<1>1. pos = Len(disk[itemstore]) /\ (open # <<>> => Top.left > 0)
  BY DEF ReadPastEnd
<1>2. /\ InOrder(f, disk[itemstore], t) /\ (pos = 0 <=> open = <<>>)
      /\ \A m \in 1 .. N :
           /\ open[m].at \in R /\ Len(open[m].at) = m - 1
           /\ open[m].left = Cardinality(Children(t, open[m].at) \ R)
  BY DEF HalfRead
<1>3. pos = Len(f) /\ 0 < Len(f)
  BY <1>1, <1>2 DEF InOrder
<1>4. open # <<>> /\ N \in Nat \ {0} /\ Top = open[N]
  <2>1. open # <<>>
    BY <1>2, <1>3
  <2> QED BY <2>1, EmptySeq DEF TypeOK, Top
<1> HIDE DEF N
<1>5. N \in 1 .. N
  BY <1>4
<1>6. DOMAIN t \subseteq R
  BY <1>2, <1>3 DEF InOrder, ReadOf
<1>7. Children(t, Top.at) \ R = {}
  BY <1>6 DEF Children
<1>8. Top.left = 0
  BY <1>2, <1>4, <1>5, <1>7, FS_EmptySet
<1> QED BY <1>1, <1>4, <1>8

LEMMA OnlyReaderFails ==
  ASSUME TreeInv, Next
  PROVE  /\ fault' = "read_past_end" => ReadPastEnd
         /\ phase = "reading" /\ phase' = back /\ phase' # "reading"
              => ReadReturn /\ Len(open) = 1
<1> DEFINE Goal == /\ fault' = "read_past_end" => ReadPastEnd
                   /\ phase = "reading" /\ phase' = back /\ phase' # "reading"
                        => ReadReturn /\ Len(open) = 1
<1>1. ASSUME fault' = "read_past_end" => FALSE, phase = "reading" => phase' = "off"
      PROVE  Goal
  BY <1>1 DEF TreeInv
<1>2. CASE Start \/ GiveBootOnly \/ Refuse \/ Boot
  BY <1>1, <1>2 DEF Start, GiveBootOnly, Refuse, Boot
<1>3. ASSUME NEW s \in Store, GiveStore(s) PROVE Goal
  BY <1>1, <1>3 DEF GiveStore
<1>4. ASSUME NEW p \in Path, GiveInput(p) PROVE Goal
  BY <1>1, <1>4 DEF GiveInput
<1>5. CASE ReadItem
  BY <1>5 DEF ReadItem, Reading
<1>6. CASE ReadReturn
  BY <1>6 DEF ReadReturn, Reading
<1>7. CASE ReadPastEnd
  BY <1>7 DEF ReadPastEnd
<1>8. CASE NoRoot \/ Shutdown \/ Abort \/ EndBoot \/ NoInput \/ EndLoop
  BY <1>1, <1>8 DEF NoRoot, Shutdown, Abort, EndBoot, NoInput, EndLoop, Coding
<1>9. ASSUME NEW p \in Path,
             Delete(p) \/ (\E v \in Value : Assign(p, v)) \/ (\E c \in Code : AssignCode(p, c))
      PROVE  Goal
  BY <1>1, <1>9 DEF Delete, Assign, AssignCode, Coding
<1>10. ASSUME NEW t \in 1 .. MaxSecond, Backup(t) PROVE Goal
  BY <1>1, <1>10 DEF Backup, Coding, Emptied
<1>11. CASE Save \/ CannotWrite \/ Discard \/ WriteItem \/ Close \/ CloseShort
  BY <1>1, <1>11
     DEF Save, Emptied, CannotWrite, Discard, WriteItem, Writing, Close, CloseShort, Finished
<1>12. CASE Crash
  BY <1>1, <1>12 DEF Crash, Gone
<1> QED BY <1>2, <1>3, <1>4, <1>5, <1>6, <1>7, <1>8, <1>9, <1>10, <1>11, <1>12 DEF Next

\* What is loaded is the tree that was saved last, item for item, in whatever
\* order the hash tables handed out the children: the numbers of children are
\* enough for read_item to find every parent again, and only a file whose
\* writing was cut short can end before the last child (read_item, write_item).
THEOREM LoadsWhatWasSavedHolds == Spec => LoadsWhatWasSaved
<1> DEFINE Loaded ==
      /\ phase = "reading" /\ phase' = back /\ phase' # "reading"
           => mem' = kept[itemstore] \/ <<itemstore, 0>> \in torn
      /\ fault' = "read_past_end" => <<itemstore, 0>> \in torn
<1>1. TreeInv /\ MapInv /\ ReadInv /\ [Next]_vars => [Loaded]_vars
  <2> SUFFICES ASSUME TreeInv, MapInv, ReadInv, Next PROVE Loaded
    OBVIOUS
  <2>1. TypeOK
    BY DEF TreeInv
  <2>2. ASSUME phase = "reading", <<itemstore, 0>> \notin torn
        PROVE  itemstore \in Store /\ Mapping(kept[itemstore]) /\ \E f : HalfRead(f)
    BY <2>2 DEF TreeInv, MapInv, ReadInv, Here
  <2>3. fault' = "read_past_end" => <<itemstore, 0>> \in torn
    BY <2>1, <2>2, OnlyReaderFails, NothingPastEnd DEF ReadPastEnd, Reading
  <2>4. phase = "reading" /\ phase' = back /\ phase' # "reading"
          => mem' = kept[itemstore] \/ <<itemstore, 0>> \in torn
    BY <2>1, <2>2, OnlyReaderFails, AllLoaded
  <2> QED BY <2>3, <2>4
<1> QED BY <1>1, FilesInit, FilesStep, TreeInit, TreeStep, MapInit, MapStep, SavedInit,
           SavedStep, ReadInit, ReadStep, PTL
        DEF Spec, LoadsWhatWasSaved
=============================================================================
