----------------------------- MODULE ItemsProofs -----------------------------
(***************************************************************************)
(* What holds of items: of Children for every set of names, every hash     *)
(* function and every size of table and array, of Expressions for every    *)
(* set of items and layers, and of the operators for every width.          *)
(*                                                                         *)
(* For Children the invariant is TypeOK and SameChildren together: that a  *)
(* name which is not found is not in the array is what keeps the array     *)
(* without duplicates, and that every entry is in the chain of its hash is *)
(* what makes delete_hashtable remove it.                                  *)
(*                                                                         *)
(* For Expressions a source is followed by the number of item buffers that *)
(* are open before each of its tokens (Leads), which shows that what is    *)
(* compiled is bytecode; and the strings on the stack are counted.         *)
(*                                                                         *)
(* The arithmetic of a number of bits is that of integers modulo Size.     *)
(***************************************************************************)
EXTENDS Children, Expressions, SequenceTheorems, FiniteSetTheorems,
        WellFoundedInduction, TLAPS

-----------------------------------------------------------------------------
(* Tables.                                                                 *)

LEMMA BucketRange ==
  ASSUME NEW n \in Name, NEW s \in Nat \ {0}
  PROVE  Bucket(n, s) \in 0 .. s - 1
<1>1. Hash[n] \in Nat
  BY ChildrenAssumption
<1> QED BY <1>1 DEF Bucket

\* The chains of a table hold names, each at its hash.
Sorted(t, s) ==
  /\ t \in [0 .. s - 1 -> SUBSET Name]
  /\ \A b \in 0 .. s - 1 : \A n \in t[b] : Bucket(n, s) = b

LEMMA InsertedSorted ==
  ASSUME NEW s \in Nat \ {0}, NEW t, Sorted(t, s), NEW n \in Name
  PROVE  /\ Sorted(Inserted(t, s, n), s)
         /\ \A m \in Name : m \in Inserted(t, s, n)[Bucket(m, s)]
                              <=> m = n \/ m \in t[Bucket(m, s)]
<1>1. \A m \in Name : Bucket(m, s) \in 0 .. s - 1
  BY BucketRange
<1>2. Inserted(t, s, n) \in [0 .. s - 1 -> SUBSET Name]
  BY <1>1 DEF Inserted, Sorted
<1>3. \A b \in 0 .. s - 1 : Inserted(t, s, n)[b] =
        IF b = Bucket(n, s) THEN t[b] \cup {n} ELSE t[b]
  BY <1>1 DEF Inserted, Sorted
<1>4. Sorted(Inserted(t, s, n), s)
  BY <1>2, <1>3 DEF Sorted
<1> QED BY <1>1, <1>3, <1>4

LEMMA RehashedSorted ==
  ASSUME NEW s \in Nat \ {0}, NEW t, Sorted(t, s), NEW new \in Nat \ {0}
  PROVE  /\ Sorted(Rehashed(t, s, new), new)
         /\ \A m \in Name : m \in Rehashed(t, s, new)[Bucket(m, new)]
                              <=> m \in t[Bucket(m, s)]
<1>1. \A m \in Name :
        Bucket(m, s) \in 0 .. s - 1 /\ Bucket(m, new) \in 0 .. new - 1
  BY BucketRange
<1>2. Entries(t, s) \subseteq Name
  BY DEF Entries, Sorted
<1>3. \A m \in Name : m \in Entries(t, s) <=> m \in t[Bucket(m, s)]
  BY <1>1 DEF Entries, Sorted
<1>4. \A b \in 0 .. new - 1 :
        Rehashed(t, s, new)[b] = {m \in Entries(t, s) : Bucket(m, new) = b}
  BY DEF Rehashed
<1>5. Sorted(Rehashed(t, s, new), new)
  BY <1>2, <1>4 DEF Sorted, Rehashed
<1>6. \A m \in Name : m \in Rehashed(t, s, new)[Bucket(m, new)]
                        <=> m \in Entries(t, s)
  BY <1>1, <1>4
<1> QED BY <1>3, <1>5, <1>6

-----------------------------------------------------------------------------
(* Arrays.                                                                 *)

Unique(s) == \A i, j \in 1 .. Len(s) : s[i] = s[j] => i = j

LEMMA WithoutElements ==
  ASSUME array \in Seq(Name), NEW i \in 1 .. Len(array)
  PROVE  /\ Without(i) \in Seq(Name)
         /\ Len(Without(i)) = Len(array) - 1
         /\ \A k \in 1 .. Len(array) - 1 :
              Without(i)[k] = IF k < i THEN array[k] ELSE array[k + 1]
<1> DEFINE len == Len(array)
<1>1. len \in Nat \ {0}
  OBVIOUS
<1>2. \A k \in 1 .. len : array[k] \in Name
  BY ElementOfSeq
<1>3. \A k \in 1 .. len - 1 : k \in 1 .. len /\ k + 1 \in 1 .. len
  BY <1>1
<1>4. Without(i) \in [1 .. len - 1 -> Name]
  BY <1>2, <1>3 DEF Without
<1>5. len - 1 \in Nat
  BY <1>1
<1> HIDE DEF len
<1>6. Without(i) \in Seq(Name) /\ Len(Without(i)) = len - 1
  BY <1>4, <1>5, IsASeq
<1> QED BY <1>6 DEF Without, len

LEMMA WithoutMembers ==
  ASSUME array \in Seq(Name), Unique(array), NEW i \in 1 .. Len(array)
  PROVE  /\ Unique(Without(i))
         /\ \A m : (\E k \in 1 .. Len(Without(i)) : Without(i)[k] = m)
                     <=> m # array[i] /\ \E k \in 1 .. Len(array) : array[k] = m
<1> DEFINE len == Len(array)
           w == Without(i)
<1>1. len \in Nat \ {0} /\ i \in Nat /\ i <= len
  OBVIOUS
<1>2. /\ Len(w) = len - 1
      /\ \A k \in 1 .. len - 1 : w[k] = IF k < i THEN array[k] ELSE array[k + 1]
  BY WithoutElements
<1>3. \A j, k \in 1 .. len : array[j] = array[k] => j = k
  BY DEF Unique
<1> HIDE DEF len, w
<1>4. Unique(w)
  BY <1>1, <1>2, <1>3 DEF Unique
<1>5. ASSUME NEW k \in 1 .. len - 1
      PROVE  w[k] # array[i] /\ \E j \in 1 .. len : array[j] = w[k]
  BY <1>1, <1>2, <1>3, i \in 1 .. len DEF len
<1>6. ASSUME NEW k \in 1 .. len, array[k] # array[i]
      PROVE  \E j \in 1 .. len - 1 : w[j] = array[k]
  <2>1. CASE k < i
    <3>1. k \in 1 .. len - 1 /\ w[k] = array[k]
      BY <1>1, <1>2, <2>1
    <3> QED BY <3>1
  <2>2. CASE i < k
    <3>1. k - 1 \in 1 .. len - 1 /\ ~(k - 1 < i) /\ (k - 1) + 1 = k
      BY <1>1, <2>2
    <3>2. w[k - 1] = array[k]
      BY <1>2, <3>1
    <3> QED BY <3>1, <3>2
  <2>3. k # i
    BY <1>6
  <2> QED BY <1>1, <2>1, <2>2, <2>3
<1>7. ASSUME NEW m
      PROVE  (\E k \in 1 .. len - 1 : w[k] = m)
               <=> m # array[i] /\ \E k \in 1 .. len : array[k] = m
  BY <1>5, <1>6
<1>8. \A m : (\E k \in 1 .. Len(w) : w[k] = m)
               <=> m # array[i] /\ \E k \in 1 .. len : array[k] = m
  BY <1>2, <1>7
<1> QED BY <1>4, <1>8 DEF len, w

-----------------------------------------------------------------------------
(* One step.                                                               *)

Inv == TypeOK /\ SameChildren

LEMMA ResizedType ==
  ASSUME TypeOK
  PROVE  Resized \in 0 .. Limit - 1
<1>1. /\ capacity \in Nat /\ Capacity \in Nat /\ Limit \in Nat /\ 0 < Limit
      /\ capacity \in 0 .. Limit - 1
  BY ChildrenAssumption DEF TypeOK
<1>2. (capacity + Capacity) % Limit \in 0 .. Limit - 1
  BY <1>1
<1> QED BY <1>1, <1>2 DEF Resized

LEMMA InvIsSorted ==
  Inv <=> /\ size \in Nat \ {0}
          /\ Sorted(table, size)
          /\ array \in Seq(Name) /\ Unique(array)
          /\ capacity \in 0 .. Limit - 1
          /\ overrun \in BOOLEAN
          /\ \A n \in Name : Found(n) <=> \E i \in 1 .. Len(array) : array[i] = n
BY DEF Inv, TypeOK, SameChildren, Sorted, Unique

LEMMA InitInv == ChildrenInit => Inv
<1> SUFFICES ASSUME ChildrenInit PROVE Inv
  OBVIOUS
<1>1. size \in Nat \ {0} /\ capacity \in 0 .. Limit - 1 /\ overrun \in BOOLEAN
  <2>1. size = InitSize /\ capacity = Capacity /\ overrun = FALSE
    BY DEF ChildrenInit
  <2>2. /\ InitSize \in Nat \ {0}
        /\ Capacity \in Nat /\ Limit \in Nat /\ Capacity < Limit
    BY ChildrenAssumption
  <2>3. Capacity \in 0 .. Limit - 1
    BY <2>2
  <2> QED BY <2>1, <2>2, <2>3, Zenon
<1>2. array \in Seq(Name) /\ Len(array) = 0
  BY DEF ChildrenInit
<1>3. Sorted(table, size)
  BY DEF ChildrenInit, Sorted
<1>4. \A n \in Name : Bucket(n, size) \in 0 .. size - 1
  BY <1>1, BucketRange
<1>5. \A n \in Name : ~Found(n)
  BY <1>4 DEF ChildrenInit, Found
<1> QED BY <1>1, <1>2, <1>3, <1>5, InvIsSorted DEF Unique

LEMMA MakeInv ==
  ASSUME Inv, NEW n \in Name, MakeItem(n)
  PROVE  Inv'
<1> DEFINE t == Inserted(table, size, n)
           len == Len(array)
<1>1. /\ size \in Nat \ {0} /\ Sorted(table, size)
      /\ array \in Seq(Name) /\ Unique(array)
      /\ \A m \in Name : Found(m) <=> \E i \in 1 .. Len(array) : array[i] = m
  BY InvIsSorted
<1>2. /\ Sorted(t, size)
      /\ \A m \in Name : m \in t[Bucket(m, size)]
                           <=> m = n \/ m \in table[Bucket(m, size)]
  BY <1>1, InsertedSorted
<1>3. /\ size' \in Nat \ {0} /\ Sorted(table', size')
      /\ \A m \in Name : m \in table'[Bucket(m, size')] <=> m \in t[Bucket(m, size)]
  <2>1. CASE Loaded(t, size)
    <3>1. size' = 2 * size + 1 /\ table' = Rehashed(t, size, 2 * size + 1)
      BY <2>1 DEF MakeItem
    <3>2. 2 * size + 1 \in Nat \ {0}
      BY <1>1
    <3> HIDE DEF t
    <3> QED BY <1>1, <1>2, <3>1, <3>2, RehashedSorted
  <2>2. CASE ~Loaded(t, size)
    BY <1>1, <1>2, <2>2 DEF MakeItem
  <2> QED BY <2>1, <2>2
<1>4. capacity' \in 0 .. Limit - 1 /\ overrun' \in BOOLEAN
  BY ResizedType DEF MakeItem, Inv
<1>5. array' = Append(array, n) /\ ~Found(n)
  BY DEF MakeItem, Absent
<1>6. /\ array' \in Seq(Name) /\ Len(array') = len + 1
      /\ \A i \in 1 .. len : array'[i] = array[i]
      /\ array'[len + 1] = n
      /\ len \in Nat
  BY <1>1, <1>5, AppendProperties
<1>7. \A i \in 1 .. len : array[i] # n
  BY <1>1, <1>5
<1>8. Unique(array')
  BY <1>1, <1>6, <1>7 DEF Unique
<1>9. \A m \in Name : Found(m)' <=> m = n \/ Found(m)
  BY <1>2, <1>3 DEF Found, Bucket
<1>10. \A m \in Name : (\E i \in 1 .. Len(array') : array'[i] = m)
                         <=> m = n \/ \E i \in 1 .. len : array[i] = m
  <2> HIDE DEF len
  <2> QED BY <1>6
<1>11. \A m \in Name : Found(m)' <=> \E i \in 1 .. Len(array') : array'[i] = m
  BY <1>1, <1>9, <1>10
<1>12. Sorted(table, size)'
  BY <1>3 DEF Sorted, Bucket
<1> QED BY <1>3, <1>4, <1>6, <1>8, <1>11, <1>12, InvIsSorted DEF Inv, TypeOK, SameChildren, Sorted, Unique

LEMMA DeleteInv ==
  ASSUME Inv, NEW n \in Name, DeleteItem(n)
  PROVE  /\ Inv'
         /\ \E i \in 1 .. Len(array) : array[i] = n /\ array' = Without(i)
<1> DEFINE chain == Bucket(n, size)
<1>1. /\ size \in Nat \ {0} /\ Sorted(table, size)
      /\ array \in Seq(Name) /\ Unique(array)
      /\ \A m \in Name : Found(m) <=> \E i \in 1 .. Len(array) : array[i] = m
  BY InvIsSorted
<1>2. PICK i \in 1 .. Len(array) : array[i] = n /\ array' = Without(i)
  BY <1>1 DEF DeleteItem
<1>3. /\ array' \in Seq(Name) /\ Unique(array')
      /\ \A m : (\E k \in 1 .. Len(array') : array'[k] = m)
                  <=> m # n /\ \E k \in 1 .. Len(array) : array[k] = m
  <2>1. Without(i) \in Seq(Name)
    BY <1>1, WithoutElements
  <2>2. /\ Unique(Without(i))
        /\ \A m : (\E k \in 1 .. Len(Without(i)) : Without(i)[k] = m)
             <=> m # array[i] /\ \E k \in 1 .. Len(array) : array[k] = m
    BY <1>1, WithoutMembers
  <2> QED BY <1>2, <2>1, <2>2, Zenon
<1>4. \A m \in Name : Bucket(m, size) \in 0 .. size - 1
  BY <1>1, BucketRange
<1>5. table' = [table EXCEPT ![chain] = @ \ {n}] /\ size' = size
  BY DEF DeleteItem
<1>6. table' \in [0 .. size - 1 -> SUBSET Name]
  BY <1>1, <1>5 DEF Sorted
<1>7. \A b \in 0 .. size - 1 :
        table'[b] = IF b = chain THEN table[b] \ {n} ELSE table[b]
  BY <1>1, <1>5 DEF Sorted
<1>8. \A b \in 0 .. size - 1 : \A m \in table'[b] : Bucket(m, size) = b
  BY <1>1, <1>7 DEF Sorted
<1>9. \A m \in Name : m \in table'[Bucket(m, size)] <=> m # n /\ Found(m)
  BY <1>4, <1>7 DEF Found
<1>10. capacity' = capacity /\ overrun' = overrun
  BY DEF DeleteItem
<1>11. Inv'
  <2>1. TypeOK'
    BY <1>3, <1>5, <1>6, <1>10 DEF Inv, TypeOK
  <2>2. (\A b \in 0 .. size - 1 : \A m \in table[b] : Bucket(m, size) = b)'
    BY <1>5, <1>8 DEF Bucket
  <2>3. (\A m \in Name : Found(m) <=> \E k \in 1 .. Len(array) : array[k] = m)'
    BY <1>1, <1>3, <1>5, <1>9 DEF Found, Bucket
  <2> QED BY <1>3, <2>1, <2>2, <2>3 DEF Inv, SameChildren, Unique
<1> QED BY <1>2, <1>11

LEMMA NextInv == Inv /\ [ChildrenNext]_ChildrenVars => Inv'
<1> SUFFICES ASSUME Inv, [ChildrenNext]_ChildrenVars PROVE Inv'
  OBVIOUS
<1>1. ASSUME NEW n \in Name, MakeItem(n) PROVE Inv'
  BY <1>1, MakeInv
<1>2. ASSUME NEW n \in Name, DeleteItem(n) PROVE Inv'
  BY <1>2, DeleteInv
<1>3. CASE UNCHANGED ChildrenVars
  BY <1>3 DEF ChildrenVars, Inv, TypeOK, SameChildren, Found, Bucket
<1> QED BY <1>1, <1>2, <1>3 DEF ChildrenNext

THEOREM InvHolds == ChildrenSpec => []Inv
BY InitInv, NextInv, PTL DEF ChildrenSpec

\* Table, array and their sizes keep their types, and ordered_capacity stays
\* an 8-bit number.
THEOREM TypeCorrect == ChildrenSpec => []TypeOK
<1>1. Inv => TypeOK
  BY DEF Inv
<1> QED BY <1>1, InvHolds, PTL

\* Children are found by name exactly when they are found by number, once
\* each, whatever the hash function and however often the table is resized
\* (search_hashtable, find_item_by_index).
THEOREM ChildrenAreSame == ChildrenSpec => []SameChildren
<1>1. Inv => SameChildren
  BY DEF Inv
<1> QED BY <1>1, InvHolds, PTL

-----------------------------------------------------------------------------
(* The array is long enough while the children are few enough that         *)
(* ordered_capacity does not wrap.                                         *)

Few == MaxChildren + Capacity <= Limit

Fits == Len(array) <= capacity /\ ~overrun

LEMMA FitsStep ==
  ASSUME Few, Inv, Inv', Fits, [ChildrenNext]_ChildrenVars
  PROVE  Fits'
<1> DEFINE len == Len(array)
<1>1. /\ capacity \in 0 .. Limit - 1 /\ array \in Seq(Name) /\ len \in Nat
      /\ Capacity \in Nat \ {0} /\ Limit \in Nat /\ MaxChildren \in Nat
      /\ MaxChildren + Capacity <= Limit
  BY ChildrenAssumption DEF Inv, TypeOK, Few
<1>2. len <= capacity /\ overrun = FALSE
  BY DEF Fits, Inv, TypeOK
<1>3. ASSUME NEW n \in Name, MakeItem(n) PROVE Fits'
  <2>1. /\ len < MaxChildren /\ capacity' = Resized
        /\ overrun' = (len >= Resized) /\ array' = Append(array, n)
    BY <1>3 DEF MakeItem
  <2>2. Len(array') = len + 1
    BY <1>1, <2>1, AppendProperties
  <2> HIDE DEF len
  <2>3. Resized \in Nat /\ len < Resized
    <3>1. CASE len >= capacity
      <4>1. len = capacity
        BY <1>1, <1>2, <3>1
      <4>2. capacity + Capacity < Limit /\ capacity + Capacity \in Nat
        BY <1>1, <2>1, <4>1
      <4>3. (capacity + Capacity) % Limit = capacity + Capacity
        BY <1>1, <4>2
      <4>4. Resized = capacity + Capacity
        BY <3>1, <4>3 DEF Resized, len
      <4> QED BY <1>1, <4>1, <4>2, <4>4
    <3>2. CASE ~(len >= capacity)
      <4>1. Resized = capacity
        BY <3>2 DEF Resized, len
      <4> QED BY <1>1, <3>2, <4>1
    <3> QED BY <3>1, <3>2
  <2>4. ~overrun'
    <3>1. ~(len >= Resized)
      BY <1>1, <2>3
    <3> QED BY <2>1, <3>1, Zenon
  <2>5. Len(array') <= capacity'
    <3>1. len + 1 <= Resized
      BY <1>1, <2>3
    <3>2. capacity' = Resized
      BY <2>1
    <3> QED BY <2>2, <3>1, <3>2, Zenon
  <2> QED BY <2>4, <2>5 DEF Fits
<1>4. ASSUME NEW n \in Name, DeleteItem(n) PROVE Fits'
  <2>1. PICK i \in 1 .. Len(array) : array' = Without(i)
    BY <1>4, DeleteInv
  <2>2. Len(array') = len - 1
    BY <1>1, <2>1, WithoutElements
  <2>3. capacity' = capacity /\ overrun' = overrun
    BY <1>4 DEF DeleteItem
  <2> HIDE DEF len
  <2> QED BY <1>1, <1>2, <2>2, <2>3 DEF Fits
<1>5. CASE UNCHANGED ChildrenVars
  BY <1>5 DEF ChildrenVars, Fits
<1> QED BY <1>3, <1>4, <1>5 DEF ChildrenNext

\* While an item has no more children than the 8 bits of ordered_capacity
\* allow for, resize_ordered_array always makes room before make_item writes.
THEOREM ArrayIsNotOverrun ==
  ASSUME Few
  PROVE  ChildrenSpec => []NoOverrun
<1>1. ChildrenInit => Fits
  BY ChildrenAssumption DEF ChildrenInit, Fits
<1>2. Inv /\ Inv' /\ Fits /\ [ChildrenNext]_ChildrenVars => Fits'
  BY FitsStep
<1>3. Fits => NoOverrun
  BY DEF Fits, NoOverrun
<1> QED BY <1>1, <1>2, <1>3, InvHolds, PTL DEF ChildrenSpec

-----------------------------------------------------------------------------
(* Refinement.                                                             *)

LEMMA ListStep == Inv /\ [ChildrenNext]_ChildrenVars => [List!Next]_array
<1> SUFFICES ASSUME Inv, [ChildrenNext]_ChildrenVars PROVE [List!Next]_array
  OBVIOUS
<1>1. ASSUME NEW n \in Name, MakeItem(n) PROVE List!Make(n)
  BY <1>1 DEF Inv, SameChildren, MakeItem, Absent, List!Make, List!Member
<1>2. ASSUME NEW n \in Name, DeleteItem(n) PROVE List!Delete(n)
  BY <1>2, DeleteInv DEF List!Delete, Without
<1>3. CASE UNCHANGED ChildrenVars
  BY <1>3 DEF ChildrenVars
<1> QED BY <1>1, <1>2, <1>3 DEF ChildrenNext, List!Next

\* The hash table and the array together are the list of children game code
\* sees: every step of item.c on them is a step of ChildList or changes
\* nothing there.
THEOREM ChildrenAreAList == ChildrenSpec => ListSpec
<1>1. ChildrenInit => List!Init
  BY DEF ChildrenInit, List!Init
<1> QED BY <1>1, ListStep, InvHolds, PTL DEF ChildrenSpec, ListSpec, List!Spec

-----------------------------------------------------------------------------
(* What stands for induction.                                              *)

\* A set of numbers has a smallest element.
LEMMA SmallestNat ==
  ASSUME NEW T, T \subseteq Nat, T # {}
  PROVE  \E x \in T : \A y \in T : x <= y
<1> DEFINE R == OpToRel(<, Nat)
<1>1. IsWellFoundedOn(R, Nat)
  BY NatLessThanWellFounded
<1> HIDE DEF R
<1>2. PICK x \in T : \A y \in T : ~ (<<y, x>> \in R)
  BY <1>1, WFMin
<1>3. ASSUME NEW y \in T PROVE x <= y
  <2>1. <<y, x>> \notin R
    BY <1>2
  <2>2. x \in Nat /\ y \in Nat
    OBVIOUS
  <2>3. ~(y < x)
    BY <2>1, <2>2 DEF R, OpToRel
  <2> QED BY <2>2, <2>3
<1> QED BY <1>3

\* A set that has 1, and of every number below n the next one, has n.
LEMMA ReachesAll ==
  ASSUME NEW n \in Nat \ {0}, NEW T, 1 \in T,
         \A k \in 1 .. n - 1 : k \in T => k + 1 \in T
  PROVE  n \in T
<1> DEFINE U == {k \in 1 .. n : k \notin T}
<1> SUFFICES ASSUME U # {} PROVE FALSE
  OBVIOUS
<1>1. U \subseteq Nat
  OBVIOUS
<1> HIDE DEF U
<1>2. PICK k \in U : \A y \in U : k <= y
  BY <1>1, SmallestNat
<1>3. k \in 1 .. n /\ k \notin T
  BY DEF U
<1>4. k - 1 \in 1 .. n - 1 /\ ~(k <= k - 1)
  BY <1>3
<1>5. k - 1 \in T
  BY <1>2, <1>4 DEF U
<1>6. (k - 1) + 1 = k
  BY <1>3
<1> QED BY <1>3, <1>4, <1>5, <1>6

\* FlattenSeq appends the elements one after the other.
Flattens(g, ss) ==
  g = [i \in 1 .. Len(ss) |-> IF i = 1 THEN ss[i] ELSE g[i - 1] \o ss[i]]

FlattensUpTo(ss, k) ==
  \E g : g = [i \in 1 .. k |-> IF i = 1 THEN ss[i] ELSE g[i - 1] \o ss[i]]

LEMMA FlattensMore ==
  ASSUME NEW ss, NEW k \in Nat \ {0}, FlattensUpTo(ss, k)
  PROVE  FlattensUpTo(ss, k + 1)
<1>1. PICK g : g = [i \in 1 .. k |-> IF i = 1 THEN ss[i] ELSE g[i - 1] \o ss[i]]
  BY DEF FlattensUpTo
<1> DEFINE h == [i \in 1 .. k + 1 |-> IF i = k + 1 THEN g[k] \o ss[k + 1] ELSE g[i]]
<1>2. ASSUME NEW i \in 1 .. k + 1
      PROVE  h[i] = IF i = 1 THEN ss[i] ELSE h[i - 1] \o ss[i]
  <2>1. CASE i = k + 1
    <3>1. h[i] = g[k] \o ss[i]
      BY <2>1
    <3>2. i - 1 = k /\ k \in 1 .. k + 1 /\ k # k + 1 /\ i # 1
      BY <2>1
    <3>3. h[k] = g[k]
      BY <3>2
    <3>4. h[i - 1] = g[k]
      BY <3>2, <3>3, Zenon
    <3> HIDE DEF h
    <3> QED BY <3>1, <3>2, <3>4, Zenon
  <2>2. CASE i # k + 1
    <3>1. i \in 1 .. k
      BY <2>2
    <3>2. g[i] = IF i = 1 THEN ss[i] ELSE g[i - 1] \o ss[i]
      BY <1>1, <3>1
    <3>3. i # 1 => h[i - 1] = g[i - 1]
      BY <3>1
    <3> QED BY <2>2, <3>2, <3>3
  <2> QED BY <2>1, <2>2
<1>3. h = [i \in 1 .. k + 1 |-> h[i]]
  OBVIOUS
<1> HIDE DEF h
<1>4. h = [i \in 1 .. k + 1 |-> IF i = 1 THEN ss[i] ELSE h[i - 1] \o ss[i]]
  BY <1>2, <1>3
<1> QED BY <1>4 DEF FlattensUpTo

LEMMA FlattensExists ==
  ASSUME NEW ss, Len(ss) \in Nat \ {0}
  PROVE  \E g : Flattens(g, ss)
<1> DEFINE T == {k \in Nat \ {0} : FlattensUpTo(ss, k)}
<1>1. 1 \in T
  <2> DEFINE g == [i \in 1 .. 1 |-> ss[1]]
  <2>1. g = [i \in 1 .. 1 |-> IF i = 1 THEN ss[i] ELSE g[i - 1] \o ss[i]]
    OBVIOUS
  <2> HIDE DEF g
  <2>2. FlattensUpTo(ss, 1)
    BY <2>1 DEF FlattensUpTo
  <2> QED BY <2>2
<1>2. \A k \in 1 .. Len(ss) - 1 : k \in T => k + 1 \in T
  BY FlattensMore
<1> HIDE DEF T
<1>3. Len(ss) \in T
  BY <1>1, <1>2, ReachesAll
<1> QED BY <1>3 DEF T, FlattensUpTo, Flattens

LEMMA FlattenSeqStepwise ==
  ASSUME NEW ss, Len(ss) \in Nat \ {0}
  PROVE  \E g : Flattens(g, ss) /\ FlattenSeq(ss) = g[Len(ss)]
<1>1. \E g : Flattens(g, ss)
  BY FlattensExists
<1>2. FlattenSeq(ss) = (CHOOSE g : Flattens(g, ss))[Len(ss)]
  BY DEF FlattenSeq, Flattens
<1>3. Flattens(CHOOSE g : Flattens(g, ss), ss)
  BY <1>1, Zenon
<1> QED BY <1>2, <1>3, Zenon

-----------------------------------------------------------------------------
(* Rows: sequences of whatever.                                            *)

Row(s) == \E S : s \in Seq(S)

LEMMA RowConcat ==
  ASSUME NEW s, NEW t, Row(s), Row(t)
  PROVE  /\ Row(s \o t)
         /\ Len(s) \in Nat /\ Len(t) \in Nat /\ Len(s \o t) = Len(s) + Len(t)
         /\ \A i \in 1 .. Len(s) : (s \o t)[i] = s[i]
         /\ \A i \in 1 .. Len(t) : (s \o t)[Len(s) + i] = t[i]
<1>1. PICK S : s \in Seq(S)
  BY DEF Row
<1>2. PICK T : t \in Seq(T)
  BY DEF Row
<1>3. s \in Seq(S \cup T) /\ t \in Seq(S \cup T)
  BY <1>1, <1>2, SeqMonotonic, Zenon
<1>4. /\ s \o t \in Seq(S \cup T)
      /\ Len(s \o t) = Len(s) + Len(t)
      /\ \A i \in 1 .. Len(s) + Len(t) :
           (s \o t)[i] = IF i <= Len(s) THEN s[i] ELSE t[i - Len(s)]
  BY <1>3, ConcatProperties, Zenon
<1>5. Len(s) \in Nat /\ Len(t) \in Nat
  BY <1>3
<1>6. ASSUME NEW i \in 1 .. Len(t) PROVE (s \o t)[Len(s) + i] = t[i]
  <2> DEFINE j == Len(s) + i
  <2>1. j \in 1 .. Len(s) + Len(t) /\ ~(j <= Len(s)) /\ j - Len(s) = i
    BY <1>5
  <2> HIDE DEF j
  <2>2. (s \o t)[j] = t[j - Len(s)]
    BY <1>4, <2>1, Zenon
  <2>3. (s \o t)[j] = t[i]
    BY <2>1, <2>2, Zenon
  <2> QED BY <2>3, Zenon DEF j
<1>7. \A i \in 1 .. Len(s) : i \in 1 .. Len(s) + Len(t) /\ i <= Len(s)
  BY <1>5
<1>8. \A i \in 1 .. Len(s) : (s \o t)[i] = s[i]
  BY <1>4, <1>7, Zenon
<1> QED BY <1>4, <1>5, <1>6, <1>8 DEF Row

LEMMA RowAppend ==
  ASSUME NEW s, NEW x, Row(s)
  PROVE  /\ Row(Append(s, x)) /\ Append(s, x) = s \o <<x>>
         /\ Len(s) \in Nat /\ Len(Append(s, x)) = Len(s) + 1
         /\ \A i \in 1 .. Len(s) : Append(s, x)[i] = s[i]
         /\ Append(s, x)[Len(s) + 1] = x
<1>1. PICK S : s \in Seq(S)
  BY DEF Row
<1>2. s \in Seq(S \cup {x}) /\ x \in S \cup {x}
  BY <1>1, SeqMonotonic, Zenon
<1> QED BY <1>2, AppendProperties, AppendIsConcat DEF Row

LEMMA RowTail ==
  ASSUME NEW s, Row(s), s # <<>>
  PROVE  /\ Row(Tail(s)) /\ Len(s) \in Nat \ {0} /\ Len(Tail(s)) = Len(s) - 1
         /\ \A i \in 1 .. Len(s) - 1 : Tail(s)[i] = s[i + 1]
         /\ Head(s) = s[1]
<1>1. PICK S : s \in Seq(S)
  BY DEF Row
<1> QED BY <1>1, HeadTailProperties, EmptySeq DEF Row

LEMMA RowPart ==
  ASSUME NEW s, Row(s), NEW m \in Int, NEW n \in Int, 1 <= m, n <= Len(s)
  PROVE  /\ Row(SubSeq(s, m, n))
         /\ Len(SubSeq(s, m, n)) = IF m <= n THEN n - m + 1 ELSE 0
         /\ \A i \in 1 .. n - m + 1 : SubSeq(s, m, n)[i] = s[m + i - 1]
<1>1. PICK S : s \in Seq(S)
  BY DEF Row
<1>2. \A i \in m .. n : s[i] \in S
  BY <1>1
<1> QED BY <1>2, SubSeqProperties, SMTT(30) DEF Row

LEMMA RowSmall ==
  /\ Row(<<>>) /\ Len(<<>>) = 0
  /\ \A x : Row(<<x>>) /\ Len(<<x>>) = 1 /\ <<x>>[1] = x
  /\ \A x, y : /\ Row(<<x, y>>) /\ Len(<<x, y>>) = 2
                /\ <<x, y>>[1] = x /\ <<x, y>>[2] = y
<1>1. \A x : <<x>> \in Seq({x})
  OBVIOUS
<1>2. \A x, y : <<x, y>> \in Seq({x, y})
  OBVIOUS
<1>3. <<>> \in Seq({})
  OBVIOUS
<1> QED BY <1>1, <1>2, <1>3 DEF Row

-----------------------------------------------------------------------------
(* Sources.                                                                *)

\* What a name leaves on the stack for op_fetchitem is counted.
IsCode(c) ==
  Row(c) /\ \A i \in 1 .. Len(c) : c[i][1] = "F" => c[i][2] \in Nat

\* With m item buffers open the grammar reads a token, and n are.
Nest(t, m, n) ==
  /\ t[1] = "bytes" => IsCode(t[2])
  /\ CASE t[1] \in {"item", "lib"} -> n = m + 1
       [] t[1] \in {"L", "D", "V", "]", "arg"} -> m > 0 /\ n = m
       [] t[1] \in {"fetch", "name", "call"} -> m > 0 /\ n = m - 1
       [] OTHER -> n = m

Depths(s, d) ==
  /\ d \in [0 .. Len(s) -> Nat]
  /\ \A i \in 1 .. Len(s) : Nest(s[i], d[i - 1], d[i])

Leads(s, a, b) ==
  Row(s) /\ \E d : Depths(s, d) /\ d[0] = a /\ d[Len(s)] = b

LEMMA LeadsEmpty ==
  ASSUME NEW a \in Nat
  PROVE  Leads(<<>>, a, a)
<1> DEFINE d == [i \in 0 .. 0 |-> a]
<1>1. d \in [0 .. 0 -> Nat] /\ d[0] = a
  OBVIOUS
<1> HIDE DEF d
<1>2. Depths(<<>>, d)
  BY <1>1, RowSmall DEF Depths
<1> QED BY <1>1, <1>2, RowSmall DEF Leads

LEMMA LeadsOne ==
  ASSUME NEW t, NEW a \in Nat, NEW b \in Nat, Nest(t, a, b)
  PROVE  Leads(<<t>>, a, b)
<1> DEFINE d == [i \in 0 .. 1 |-> IF i = 0 THEN a ELSE b]
<1>1. d \in [0 .. 1 -> Nat] /\ d[0] = a /\ d[1] = b
  OBVIOUS
<1> HIDE DEF d
<1>2. \A i \in 1 .. 1 : i = 1 /\ i - 1 = 0
  OBVIOUS
<1>3. Depths(<<t>>, d)
  BY <1>1, <1>2, RowSmall, Zenon DEF Depths
<1> QED BY <1>1, <1>3, RowSmall, Zenon DEF Leads

LEMMA LeadsConcat ==
  ASSUME NEW s, NEW t, NEW a, NEW b, NEW c, Leads(s, a, b), Leads(t, b, c)
  PROVE  Leads(s \o t, a, c)
<1>1. PICK d : Depths(s, d) /\ d[0] = a /\ d[Len(s)] = b
  BY DEF Leads
<1>2. PICK e : Depths(t, e) /\ e[0] = b /\ e[Len(t)] = c
  BY DEF Leads
<1>3. /\ Row(s \o t)
      /\ Len(s) \in Nat /\ Len(t) \in Nat /\ Len(s \o t) = Len(s) + Len(t)
      /\ \A i \in 1 .. Len(s) : (s \o t)[i] = s[i]
      /\ \A i \in 1 .. Len(t) : (s \o t)[Len(s) + i] = t[i]
  BY RowConcat DEF Leads
<1> DEFINE n == Len(s)
           m == Len(t)
           f == [i \in 0 .. n + m |-> IF i <= n THEN d[i] ELSE e[i - n]]
<1>4. f \in [0 .. n + m -> Nat]
  BY <1>1, <1>2, <1>3 DEF Depths
<1>5. f[0] = a
  BY <1>1, <1>3
<1>6. f[n + m] = c
  <2>1. CASE m = 0
    BY <2>1, <1>1, <1>2, <1>3
  <2>2. CASE m # 0
    <3>1. n + m \in 0 .. n + m /\ ~(n + m <= n) /\ n + m - n = m
      BY <2>2, <1>3
    <3> QED BY <3>1, <1>2
  <2> QED BY <2>1, <2>2
<1>7. ASSUME NEW i \in 1 .. n PROVE Nest((s \o t)[i], f[i - 1], f[i])
  <2>1. f[i] = d[i] /\ f[i - 1] = d[i - 1]
    BY <1>3
  <2>2. Nest(s[i], d[i - 1], d[i]) /\ (s \o t)[i] = s[i]
    BY <1>1, <1>3 DEF Depths
  <2> QED BY <2>1, <2>2
<1>8. ASSUME NEW i \in 1 .. m PROVE Nest((s \o t)[n + i], f[n + i - 1], f[n + i])
  <2>1. f[n + i] = e[i]
    <3>1. n + i \in 0 .. n + m /\ ~(n + i <= n) /\ n + i - n = i
      BY <1>3
    <3> QED BY <3>1
  <2>2. f[n + i - 1] = e[i - 1]
    <3>1. CASE i = 1
      <4>1. n + i - 1 = n /\ i - 1 = 0 /\ n \in 0 .. n + m
        BY <3>1, <1>3
      <4> QED BY <4>1, <1>1, <1>2
    <3>2. CASE i # 1
      <4>1. n + i - 1 \in 0 .. n + m /\ ~(n + i - 1 <= n) /\ n + i - 1 - n = i - 1
        BY <3>2, <1>3
      <4> QED BY <4>1
    <3> QED BY <3>1, <3>2
  <2>3. Nest(t[i], e[i - 1], e[i]) /\ (s \o t)[n + i] = t[i]
    BY <1>2, <1>3 DEF Depths
  <2> QED BY <2>1, <2>2, <2>3
<1> HIDE DEF f
<1>9. ASSUME NEW i \in 1 .. n + m PROVE Nest((s \o t)[i], f[i - 1], f[i])
  <2>1. CASE i <= n
    <3>1. i \in 1 .. n
      BY <2>1, <1>3
    <3> QED BY <3>1, <1>7
  <2>2. CASE ~(i <= n)
    <3>1. i - n \in 1 .. m /\ n + (i - n) = i /\ n + (i - n) - 1 = i - 1
      BY <2>2, <1>3
    <3> DEFINE j == i - n
    <3>2. j \in 1 .. m /\ n + j = i /\ n + j - 1 = i - 1
      BY <3>1
    <3> HIDE DEF j, n, m
    <3>3. Nest((s \o t)[n + j], f[n + j - 1], f[n + j])
      BY <3>2, <1>8, Zenon
    <3> QED BY <3>2, <3>3
  <2> QED BY <2>1, <2>2
<1>10. Depths(s \o t, f)
  BY <1>3, <1>4, <1>9 DEF Depths
<1> QED BY <1>3, <1>5, <1>6, <1>10 DEF Leads

LEMMA LeadsTail ==
  ASSUME NEW s, NEW a, NEW c, Leads(s, a, c), s # <<>>
  PROVE  \E b \in Nat : Nest(Head(s), a, b) /\ Leads(Tail(s), b, c)
<1>1. PICK d : Depths(s, d) /\ d[0] = a /\ d[Len(s)] = c
  BY DEF Leads
<1>2. /\ Row(Tail(s)) /\ Len(s) \in Nat \ {0} /\ Len(Tail(s)) = Len(s) - 1
      /\ \A i \in 1 .. Len(s) - 1 : Tail(s)[i] = s[i + 1]
      /\ Head(s) = s[1]
  BY RowTail DEF Leads
<1> DEFINE n == Len(s)
           e == [i \in 0 .. n - 1 |-> d[i + 1]]
<1>3. e \in [0 .. n - 1 -> Nat]
  BY <1>1, <1>2 DEF Depths
<1>4. e[0] = d[1] /\ d[1] \in Nat
  <2>1. 1 \in 0 .. n /\ 0 \in 0 .. n - 1 /\ 0 + 1 = 1
    BY <1>2
  <2>2. d[1] \in Nat
    BY <1>1, <2>1 DEF Depths
  <2>3. e[0] = d[1]
    BY <2>1
  <2> QED BY <2>2, <2>3
<1>5. e[n - 1] = c
  BY <1>1, <1>2
<1>6. ASSUME NEW i \in 1 .. n - 1 PROVE Nest(Tail(s)[i], e[i - 1], e[i])
  <2>1. e[i] = d[i + 1] /\ e[i - 1] = d[i]
    BY <1>2
  <2>2. i + 1 \in 1 .. n /\ i + 1 - 1 = i
    BY <1>2
  <2>3. Nest(s[i + 1], d[i], d[i + 1])
    BY <1>1, <2>2 DEF Depths
  <2> QED BY <1>2, <2>1, <2>3
<1> HIDE DEF e
<1>7. Depths(Tail(s), e)
  BY <1>2, <1>3, <1>6 DEF Depths
<1>8. Leads(Tail(s), d[1], c)
  BY <1>2, <1>4, <1>5, <1>7 DEF Leads
<1>9. Nest(Head(s), a, d[1])
  <2>1. 1 \in 1 .. n /\ 1 - 1 = 0
    BY <1>2
  <2> QED BY <1>1, <1>2, <2>1 DEF Depths
<1> QED BY <1>4, <1>8, <1>9

\* From n buffers on a source is read, and leaves k more, or even more.
Moves(s, n, k) ==
  \A a \in Nat : a >= n => \E b \in Nat : b >= a + k /\ Leads(s, a, b)

Closes == {"fetch", "name", "call"}
Inside == {"L", "D", "V", "]", "arg"}
Opens == {"item", "lib"}

LEMMA MovesEmpty ==
  ASSUME NEW n \in Nat
  PROVE  Moves(<<>>, n, 0)
BY LeadsEmpty DEF Moves

LEMMA MovesConcat ==
  ASSUME NEW s, NEW t, NEW n \in Nat, NEW m \in Nat, NEW k \in Int, NEW j \in Int,
         Moves(s, n, k), Moves(t, m, j), n + k >= m
  PROVE  Moves(s \o t, n, k + j)
<1> SUFFICES ASSUME NEW a \in Nat, a >= n
             PROVE  \E b \in Nat : b >= a + (k + j) /\ Leads(s \o t, a, b)
  BY DEF Moves
<1>1. PICK b \in Nat : b >= a + k /\ Leads(s, a, b)
  BY DEF Moves
<1>2. b >= m
  BY <1>1
<1>3. PICK c \in Nat : c >= b + j /\ Leads(t, b, c)
  BY <1>2 DEF Moves
<1>4. Leads(s \o t, a, c)
  BY <1>1, <1>3, LeadsConcat
<1> QED BY <1>1, <1>3, <1>4

LEMMA MovesMore ==
  ASSUME NEW s, NEW n \in Nat, NEW m \in Nat, NEW k \in Int, Moves(s, n, k), n <= m
  PROVE  Moves(s, m, k)
BY DEF Moves

\* A token that opens no buffer and closes none, nor is inside one.
LEMMA MovesPlain ==
  ASSUME NEW t, t[1] \notin Opens \cup Inside \cup Closes, t[1] = "bytes" => IsCode(t[2])
  PROVE  Moves(<<t>>, 0, 0)
<1>1. \A a \in Nat : Nest(t, a, a)
  BY DEF Nest, Opens, Inside, Closes
<1>2. \A a \in Nat : Leads(<<t>>, a, a)
  BY <1>1, LeadsOne
<1> QED BY <1>2 DEF Moves

LEMMA MovesInside ==
  ASSUME NEW t, t[1] \in Inside
  PROVE  Moves(<<t>>, 1, 0)
<1>1. \A a \in Nat : a >= 1 => Nest(t, a, a)
  BY DEF Nest, Inside
<1>2. \A a \in Nat : a >= 1 => Leads(<<t>>, a, a)
  BY <1>1, LeadsOne
<1> QED BY <1>2 DEF Moves

LEMMA MovesOpen ==
  ASSUME NEW t, t[1] \in Opens
  PROVE  Moves(<<t>>, 0, 1)
<1>1. \A a \in Nat : Nest(t, a, a + 1)
  BY DEF Nest, Opens
<1>2. \A a \in Nat : a + 1 \in Nat /\ a + 1 >= a + 1 /\ Leads(<<t>>, a, a + 1)
  BY <1>1, LeadsOne
<1> QED BY <1>2 DEF Moves

LEMMA MovesClose ==
  ASSUME NEW t, t[1] \in Closes
  PROVE  Moves(<<t>>, 1, -1)
<1>1. \A a \in Nat : a >= 1 => a - 1 \in Nat /\ Nest(t, a, a - 1)
  BY DEF Nest, Closes
<1>2. \A a \in Nat : a >= 1 => a - 1 >= a + -1 /\ Leads(<<t>>, a, a - 1)
  BY <1>1, LeadsOne
<1> QED BY <1>1, <1>2 DEF Moves

\* What is between the two goes into one buffer.
LEMMA MovesItem ==
  ASSUME NEW s, NEW t, NEW u, Moves(s, 1, 0), t[1] \in Opens, u[1] \in Closes
  PROVE  Moves(<<t>> \o s \o <<u>>, 0, 0)
<1>1. Moves(<<t>>, 0, 1) /\ Moves(<<u>>, 1, -1)
  BY MovesOpen, MovesClose
<1>2. Moves(<<t>> \o s, 0, 1 + 0)
  BY <1>1, MovesConcat
<1>3. Moves(<<t>> \o s, 0, 1)
  BY <1>2
<1>4. Moves(<<t>> \o s \o <<u>>, 0, 1 + -1)
  BY <1>1, <1>3, MovesConcat
<1> QED BY <1>4

LEMMA FlattensNext ==
  ASSUME NEW ss, NEW g, Flattens(g, ss), Len(ss) \in Nat,
         NEW k \in 1 .. Len(ss) - 1
  PROVE  g[k + 1] = g[k] \o ss[k + 1]
<1>1. \A i \in 1 .. Len(ss) : g[i] = IF i = 1 THEN ss[i] ELSE g[i - 1] \o ss[i]
  BY Zenon DEF Flattens
<1> DEFINE j == k + 1
<1>2. j \in 1 .. Len(ss) /\ j - 1 = k /\ j # 1
  OBVIOUS
<1> HIDE DEF j
<1>3. g[j] = g[j - 1] \o ss[j]
  BY <1>1, <1>2, Zenon
<1>4. g[j] = g[k] \o ss[j]
  BY <1>2, <1>3, Zenon
<1> QED BY <1>4, Zenon DEF j

LEMMA FlattenMoves ==
  ASSUME NEW ss, Row(ss), NEW d \in [0 .. Len(ss) -> Nat], d[0] = 0,
         \A i \in 1 .. Len(ss) : Moves(ss[i], d[i - 1], d[i] - d[i - 1])
  PROVE  Moves(FlattenSeq(ss), 0, d[Len(ss)])
<1>1. Len(ss) \in Nat /\ (Len(ss) = 0 => ss = <<>>)
  BY EmptySeq DEF Row
<1>2. CASE Len(ss) = 0
  BY <1>1, <1>2, MovesEmpty DEF FlattenSeq
<1>3. CASE Len(ss) # 0
  <2> DEFINE n == Len(ss)
  <2>1. n \in Nat \ {0}
    BY <1>1, <1>3
  <2>2. PICK g : Flattens(g, ss) /\ FlattenSeq(ss) = g[n]
    BY <2>1, FlattenSeqStepwise
  <2> DEFINE T == {k \in 1 .. n : Moves(g[k], 0, d[k])}
  <2>3. 1 \in T
    <3>1. 1 \in 1 .. n /\ 1 - 1 = 0 /\ d[1] \in Nat
      BY <2>1
    <3>2. g[1] = ss[1]
      BY <2>2, <3>1 DEF Flattens
    <3>3. Moves(ss[1], d[0], d[1] - d[0])
      BY <3>1, Zenon
    <3>4. d[1] - d[0] = d[1]
      BY <3>1
    <3>5. Moves(ss[1], 0, d[1])
      BY <3>3, <3>4, Zenon
    <3> QED BY <3>1, <3>2, <3>5
  <2>4. ASSUME NEW k \in 1 .. n - 1, k \in T PROVE k + 1 \in T
    <3>1. k + 1 \in 1 .. n /\ k + 1 - 1 = k /\ d[k] \in Nat /\ d[k + 1] \in Nat
      BY <2>1
    <3>2. g[k + 1] = g[k] \o ss[k + 1]
      BY <2>1, <2>2, FlattensNext
    <3>3. Moves(ss[k + 1], d[k], d[k + 1] - d[k])
      BY <3>1
    <3>4. Moves(g[k] \o ss[k + 1], 0, d[k] + (d[k + 1] - d[k]))
      BY <2>4, <3>1, <3>3, MovesConcat
    <3>5. d[k] + (d[k + 1] - d[k]) = d[k + 1]
      BY <3>1
    <3>6. Moves(g[k + 1], 0, d[k + 1])
      BY <3>2, <3>4, <3>5, Zenon
    <3> QED BY <3>1, <3>6
  <2> HIDE DEF T, n
  <2>5. n \in T
    BY <2>1, <2>3, <2>4, ReachesAll
  <2> QED BY <2>2, <2>5 DEF T, n
<1> QED BY <1>2, <1>3

LEMMA FlattenKeeps ==
  ASSUME NEW ss, Row(ss), NEW n \in Nat, \A i \in 1 .. Len(ss) : Moves(ss[i], n, 0)
  PROVE  Moves(FlattenSeq(ss), n, 0)
<1>1. Len(ss) \in Nat /\ (Len(ss) = 0 => ss = <<>>)
  BY EmptySeq DEF Row
<1>2. CASE Len(ss) = 0
  BY <1>1, <1>2, MovesEmpty DEF FlattenSeq
<1>3. CASE Len(ss) # 0
  <2> DEFINE m == Len(ss)
  <2>1. m \in Nat \ {0}
    BY <1>1, <1>3
  <2>2. PICK g : Flattens(g, ss) /\ FlattenSeq(ss) = g[m]
    BY <2>1, FlattenSeqStepwise
  <2> DEFINE T == {k \in 1 .. m : Moves(g[k], n, 0)}
  <2>3. 1 \in T
    <3>1. 1 \in 1 .. m
      BY <2>1
    <3>2. g[1] = ss[1]
      BY <2>2, <3>1 DEF Flattens
    <3> QED BY <3>1, <3>2
  <2>4. ASSUME NEW k \in 1 .. m - 1, k \in T PROVE k + 1 \in T
    <3>1. k + 1 \in 1 .. m
      BY <2>1
    <3>2. g[k + 1] = g[k] \o ss[k + 1]
      BY <2>1, <2>2, FlattensNext
    <3>3. Moves(g[k] \o ss[k + 1], n, 0 + 0)
      BY <2>4, <3>1, MovesConcat
    <3>4. Moves(g[k + 1], n, 0)
      BY <3>2, <3>3
    <3> QED BY <3>1, <3>4
  <2> HIDE DEF T, m
  <2>5. m \in T
    BY <2>1, <2>3, <2>4, ReachesAll
  <2> QED BY <2>2, <2>5 DEF T, m
<1> QED BY <1>2, <1>3

-----------------------------------------------------------------------------
(* Both sources of a law are read from the first to the last token.        *)

Readable(s) == Moves(s, 0, 0)
Good(l) == Readable(l.left) /\ Readable(l.right)

Library == {"upper", "lower", "capitalise"}
Simple == {"a", "b", "c", "nil", "neg", "not", "if"} \cup BinaryOp

LEMMA TokenMoves ==
  /\ \A t \in Simple : Moves(Token(t), 0, 0)
  /\ Moves(Token("lib"), 0, 1)
  /\ \A t \in Library : Moves(Token(t), 1, -1)
<1>1. ASSUME NEW t \in Simple PROVE Moves(Token(t), 0, 0)
  <2>1. \E kind \in {"e", "push", "op"} : \E arg : Token(t) = << <<kind, arg>> >>
    <3>1. CASE t = "nil"
      BY <3>1 DEF Token
    <3>2. CASE t # "nil"
      <4>1. Token(t) = << <<"e", t>> >> \/ Token(t) = << <<"op", t>> >>
        BY <3>2 DEF Token, Simple, BinaryOp
      <4> QED BY <4>1
    <3> QED BY <3>1, <3>2
  <2>2. \A kind \in {"e", "push", "op"} : \A arg :
          <<kind, arg>>[1] \notin Opens \cup Inside \cup Closes /\ <<kind, arg>>[1] # "bytes"
    BY DEF Opens, Inside, Closes
  <2> QED BY <2>1, <2>2, MovesPlain
<1>2. Moves(Token("lib"), 0, 1)
  <2>1. Token("lib") = << <<"lib">> >> /\ <<"lib">>[1] \in Opens
    BY DEF Token, Opens
  <2> QED BY <2>1, MovesOpen
<1>3. ASSUME NEW t \in Library PROVE Moves(Token(t), 1, -1)
  <2>1. Token(t) = << <<"arg">>, <<"call", t>> >>
    BY DEF Token, Library
  <2>2. Token(t) = << <<"arg">> >> \o << <<"call", t>> >>
    BY <2>1
  <2>3. <<"arg">>[1] \in Inside /\ <<"call", t>>[1] \in Closes
    BY DEF Inside, Closes
  <2>4. Moves(<< <<"arg">> >>, 1, 0) /\ Moves(<< <<"call", t>> >>, 1, -1)
    BY <2>3, MovesInside, MovesClose
  <2>5. Moves(Token(t), 1, 0 + -1)
    BY <2>2, <2>4, MovesConcat
  <2> QED BY <2>5
<1> QED BY <1>1, <1>2, <1>3

LEMMA SourceReads ==
  ASSUME NEW tokens \in Seq(Simple)
  PROVE  Readable(Source(tokens))
<1> DEFINE ss == [i \in DOMAIN tokens |-> Token(tokens[i])]
<1>1. Row(ss) /\ Len(ss) = Len(tokens)
  <2>1. ss \in Seq({Token(t) : t \in Simple}) /\ Len(ss) = Len(tokens)
    OBVIOUS
  <2> QED BY <2>1 DEF Row
<1>2. \A i \in 1 .. Len(ss) : Moves(ss[i], 0, 0)
  BY <1>1, TokenMoves
<1> HIDE DEF ss
<1>3. Moves(FlattenSeq(ss), 0, 0)
  BY <1>1, <1>2, FlattenKeeps
<1> QED BY <1>3 DEF ss, Source, Readable

\* A call of the str library, and one in another.
LEMMA OneCall ==
  ASSUME NEW x \in Simple, NEW f \in Library
  PROVE  Readable(Source(<<"lib", x, f>>))
<1> DEFINE tokens == <<"lib", x, f>>
           ss == [i \in DOMAIN tokens |-> Token(tokens[i])]
           d == [i \in 0 .. 3 |-> IF i = 1 THEN 1 ELSE IF i = 2 THEN 1 ELSE 0]
<1>1. Row(ss) /\ Len(ss) = 3 /\ ss[1] = Token("lib") /\ ss[2] = Token(x) /\ ss[3] = Token(f)
  <2>1. /\ DOMAIN tokens = 1 .. 3
        /\ tokens[1] = "lib" /\ tokens[2] = x /\ tokens[3] = f
    OBVIOUS
  <2> HIDE DEF tokens
  <2>2. ss = [i \in 1 .. 3 |-> Token(tokens[i])]
    BY <2>1
  <2>3. /\ ss[1] = Token("lib") /\ ss[2] = Token(x) /\ ss[3] = Token(f)
        /\ Len(ss) = 3 /\ ss \in Seq({Token(tokens[i]) : i \in 1 .. 3})
    BY <2>1, <2>2
  <2> QED BY <2>3 DEF Row
<1>2. d \in [0 .. 3 -> Nat] /\ d[0] = 0 /\ d[1] = 1 /\ d[2] = 1 /\ d[3] = 0
  OBVIOUS
<1>3. Moves(Token(x), 1, 0)
  BY TokenMoves, MovesMore
<1> HIDE DEF ss, d
<1>4. ASSUME NEW i \in 1 .. 3 PROVE Moves(ss[i], d[i - 1], d[i] - d[i - 1])
  <2>1. CASE i = 1
    BY <2>1, <1>1, <1>2, TokenMoves
  <2>2. CASE i = 2
    BY <2>2, <1>1, <1>2, <1>3
  <2>3. CASE i = 3
    BY <2>3, <1>1, <1>2, TokenMoves
  <2> QED BY <2>1, <2>2, <2>3
<1>5. Moves(FlattenSeq(ss), 0, d[3])
  BY <1>1, <1>2, <1>4, FlattenMoves
<1> QED BY <1>2, <1>5 DEF ss, Source, Readable

LEMMA TwoCalls ==
  ASSUME NEW x \in Simple, NEW f \in Library, NEW g \in Library
  PROVE  Readable(Source(<<"lib", "lib", x, f, g>>))
<1> DEFINE tokens == <<"lib", "lib", x, f, g>>
           ss == [i \in DOMAIN tokens |-> Token(tokens[i])]
           d == [i \in 0 .. 5 |-> IF i \in {2, 3} THEN 2 ELSE IF i \in {1, 4} THEN 1 ELSE 0]
<1>1. /\ Row(ss) /\ Len(ss) = 5 /\ ss[1] = Token("lib") /\ ss[2] = Token("lib")
      /\ ss[3] = Token(x) /\ ss[4] = Token(f) /\ ss[5] = Token(g)
  <2>1. /\ DOMAIN tokens = 1 .. 5
        /\ tokens[1] = "lib" /\ tokens[2] = "lib" /\ tokens[3] = x
        /\ tokens[4] = f /\ tokens[5] = g
    OBVIOUS
  <2> HIDE DEF tokens
  <2>2. ss = [i \in 1 .. 5 |-> Token(tokens[i])]
    BY <2>1
  <2>3. /\ ss[1] = Token("lib") /\ ss[2] = Token("lib") /\ ss[3] = Token(x)
        /\ ss[4] = Token(f) /\ ss[5] = Token(g)
        /\ Len(ss) = 5 /\ ss \in Seq({Token(tokens[i]) : i \in 1 .. 5})
    BY <2>1, <2>2
  <2> QED BY <2>3 DEF Row
<1>2. /\ d \in [0 .. 5 -> Nat] /\ d[0] = 0 /\ d[1] = 1 /\ d[2] = 2 /\ d[3] = 2
      /\ d[4] = 1 /\ d[5] = 0
  OBVIOUS
<1>3. /\ Moves(Token("lib"), 1, 1) /\ Moves(Token(x), 2, 0)
      /\ Moves(Token(f), 2, -1)
  BY TokenMoves, MovesMore
<1> HIDE DEF ss, d
<1>4. ASSUME NEW i \in 1 .. 5 PROVE Moves(ss[i], d[i - 1], d[i] - d[i - 1])
  <2>1. CASE i = 1
    BY <2>1, <1>1, <1>2, TokenMoves
  <2>2. CASE i = 2
    BY <2>2, <1>1, <1>2, <1>3
  <2>3. CASE i = 3
    BY <2>3, <1>1, <1>2, <1>3
  <2>4. CASE i = 4
    BY <2>4, <1>1, <1>2, <1>3
  <2>5. CASE i = 5
    BY <2>5, <1>1, <1>2, TokenMoves
  <2> QED BY <2>1, <2>2, <2>3, <2>4, <2>5
<1>5. Moves(FlattenSeq(ss), 0, d[5])
  BY <1>1, <1>2, <1>4, FlattenMoves
<1> QED BY <1>2, <1>5 DEF ss, Source, Readable

LEMMA LeaveReads ==
  ASSUME NEW v
  PROVE  Readable(Leave(v))
BY MovesPlain DEF Leave, Readable, Opens, Inside, Closes

LEMMA OperatorLawsGood ==
  ASSUME NEW l \in OperatorLaws
  PROVE  Good(l)
<1>1. CASE l \in Law(<<"a", "b", "!=">>, <<"a", "b", "==", "not">>, NotNils)
  <2>1. /\ l.left = Source(<<"a", "b", "!=">>)
        /\ l.right = Source(<<"a", "b", "==", "not">>)
    BY <1>1 DEF Law
  <2>2. /\ <<"a", "b", "!=">> \in Seq(Simple)
        /\ <<"a", "b", "==", "not">> \in Seq(Simple)
    BY DEF Simple, BinaryOp
  <2> QED BY <2>1, <2>2, SourceReads DEF Good
<1>2. CASE l \in Law(<<"a", "b", "<">>, <<"b", "a", ">">>, Two)
  <2>1. /\ l.left = Source(<<"a", "b", "<">>)
        /\ l.right = Source(<<"b", "a", ">">>)
    BY <1>2 DEF Law
  <2>2. /\ <<"a", "b", "<">> \in Seq(Simple)
        /\ <<"b", "a", ">">> \in Seq(Simple)
    BY DEF Simple, BinaryOp
  <2> QED BY <2>1, <2>2, SourceReads DEF Good
<1>3. CASE l \in Law(<<"a", "b", "<=">>, <<"b", "a", ">=">>, Two)
  <2>1. /\ l.left = Source(<<"a", "b", "<=">>)
        /\ l.right = Source(<<"b", "a", ">=">>)
    BY <1>3 DEF Law
  <2>2. /\ <<"a", "b", "<=">> \in Seq(Simple)
        /\ <<"b", "a", ">=">> \in Seq(Simple)
    BY DEF Simple, BinaryOp
  <2> QED BY <2>1, <2>2, SourceReads DEF Good
<1>4. CASE l \in Law(<<"a", "b", "<">>, <<"a", "b", ">=", "not">>, Ordered)
  <2>1. /\ l.left = Source(<<"a", "b", "<">>)
        /\ l.right = Source(<<"a", "b", ">=", "not">>)
    BY <1>4 DEF Law
  <2>2. /\ <<"a", "b", "<">> \in Seq(Simple)
        /\ <<"a", "b", ">=", "not">> \in Seq(Simple)
    BY DEF Simple, BinaryOp
  <2> QED BY <2>1, <2>2, SourceReads DEF Good
<1>5. CASE l \in Law(<<"a", "b", "<=", "a", "b", ">=", "and">>,
                    <<"a", "b", "==">>, Ordered)
  <2>1. /\ l.left = Source(<<"a", "b", "<=", "a", "b", ">=", "and">>)
        /\ l.right = Source(<<"a", "b", "==">>)
    BY <1>5 DEF Law
  <2>2. /\ <<"a", "b", "<=", "a", "b", ">=", "and">> \in Seq(Simple)
        /\ <<"a", "b", "==">> \in Seq(Simple)
    BY DEF Simple, BinaryOp
  <2> QED BY <2>1, <2>2, SourceReads DEF Good
<1>6. CASE l \in Law(<<"a", "b", "and", "not">>,
                    <<"a", "not", "b", "not", "or">>, Two)
  <2>1. /\ l.left = Source(<<"a", "b", "and", "not">>)
        /\ l.right = Source(<<"a", "not", "b", "not", "or">>)
    BY <1>6 DEF Law
  <2>2. /\ <<"a", "b", "and", "not">> \in Seq(Simple)
        /\ <<"a", "not", "b", "not", "or">> \in Seq(Simple)
    BY DEF Simple, BinaryOp
  <2> QED BY <2>1, <2>2, SourceReads DEF Good
<1>7. CASE l \in Law(<<"a", "if">>, <<"a", "not", "not">>, NotEmpty)
  <2>1. /\ l.left = Source(<<"a", "if">>)
        /\ l.right = Source(<<"a", "not", "not">>)
    BY <1>7 DEF Law
  <2>2. /\ <<"a", "if">> \in Seq(Simple)
        /\ <<"a", "not", "not">> \in Seq(Simple)
    BY DEF Simple, BinaryOp
  <2> QED BY <2>1, <2>2, SourceReads DEF Good
<1>8. CASE l \in Law(<<"a", "b", "+", "b", "-">>, <<"a">>, Numbers)
  <2>1. /\ l.left = Source(<<"a", "b", "+", "b", "-">>)
        /\ l.right = Source(<<"a">>)
    BY <1>8 DEF Law
  <2>2. /\ <<"a", "b", "+", "b", "-">> \in Seq(Simple)
        /\ <<"a">> \in Seq(Simple)
    BY DEF Simple, BinaryOp
  <2> QED BY <2>1, <2>2, SourceReads DEF Good
<1>9. CASE l \in Law(<<"a", "b", "-">>, <<"b", "a", "-", "neg">>, Numbers)
  <2>1. /\ l.left = Source(<<"a", "b", "-">>)
        /\ l.right = Source(<<"b", "a", "-", "neg">>)
    BY <1>9 DEF Law
  <2>2. /\ <<"a", "b", "-">> \in Seq(Simple)
        /\ <<"b", "a", "-", "neg">> \in Seq(Simple)
    BY DEF Simple, BinaryOp
  <2> QED BY <2>1, <2>2, SourceReads DEF Good
<1>10. CASE l \in Law(<<"a", "b", "+", "c", "+">>,
                    <<"b", "c", "+", "a", "+">>, Summands)
  <2>1. /\ l.left = Source(<<"a", "b", "+", "c", "+">>)
        /\ l.right = Source(<<"b", "c", "+", "a", "+">>)
    BY <1>10 DEF Law
  <2>2. /\ <<"a", "b", "+", "c", "+">> \in Seq(Simple)
        /\ <<"b", "c", "+", "a", "+">> \in Seq(Simple)
    BY DEF Simple, BinaryOp
  <2> QED BY <2>1, <2>2, SourceReads DEF Good
<1>11. CASE l \in Law(<<"a", "b", "+", "c", "+">>,
                    <<"a", "b", "c", "+", "+">>, Strings)
  <2>1. /\ l.left = Source(<<"a", "b", "+", "c", "+">>)
        /\ l.right = Source(<<"a", "b", "c", "+", "+">>)
    BY <1>11 DEF Law
  <2>2. /\ <<"a", "b", "+", "c", "+">> \in Seq(Simple)
        /\ <<"a", "b", "c", "+", "+">> \in Seq(Simple)
    BY DEF Simple, BinaryOp
  <2> QED BY <2>1, <2>2, SourceReads DEF Good
<1>12. CASE l \in Law(<<"a", "b", "*">>, <<"b", "a", "*">>, Factors)
  <2>1. /\ l.left = Source(<<"a", "b", "*">>)
        /\ l.right = Source(<<"b", "a", "*">>)
    BY <1>12 DEF Law
  <2>2. /\ <<"a", "b", "*">> \in Seq(Simple)
        /\ <<"b", "a", "*">> \in Seq(Simple)
    BY DEF Simple, BinaryOp
  <2> QED BY <2>1, <2>2, SourceReads DEF Good
<1>13. CASE l \in Law(<<"a", "neg", "b", "/">>, <<"a", "b", "/", "neg">>, Divided)
  <2>1. /\ l.left = Source(<<"a", "neg", "b", "/">>)
        /\ l.right = Source(<<"a", "b", "/", "neg">>)
    BY <1>13 DEF Law
  <2>2. /\ <<"a", "neg", "b", "/">> \in Seq(Simple)
        /\ <<"a", "b", "/", "neg">> \in Seq(Simple)
    BY DEF Simple, BinaryOp
  <2> QED BY <2>1, <2>2, SourceReads DEF Good
<1>14. CASE l \in Law(<<"a", "b", "-">>, <<"nil">>, NoNumber)
  <2>1. /\ l.left = Source(<<"a", "b", "-">>)
        /\ l.right = Source(<<"nil">>)
    BY <1>14 DEF Law
  <2>2. /\ <<"a", "b", "-">> \in Seq(Simple)
        /\ <<"nil">> \in Seq(Simple)
    BY DEF Simple, BinaryOp
  <2> QED BY <2>1, <2>2, SourceReads DEF Good
<1>15. CASE l \in Law(<<"lib", "lib", "a", "upper", "lower">>,
                    <<"lib", "a", "lower">>, One)
  <2>1. /\ l.left = Source(<<"lib", "lib", "a", "upper", "lower">>)
        /\ l.right = Source(<<"lib", "a", "lower">>)
    BY <1>15 DEF Law
  <2>2. "a" \in Simple /\ Library = {"upper", "lower", "capitalise"}
    BY DEF Simple, Library
  <2> QED BY <2>1, <2>2, OneCall, TwoCalls DEF Good
<1>16. CASE l \in Law(<<"lib", "lib", "a", "lower", "upper">>,
                    <<"lib", "lib", "a", "capitalise", "upper">>, One)
  <2>1. /\ l.left = Source(<<"lib", "lib", "a", "lower", "upper">>)
        /\ l.right = Source(<<"lib", "lib", "a", "capitalise", "upper">>)
    BY <1>16 DEF Law
  <2>2. "a" \in Simple /\ Library = {"upper", "lower", "capitalise"}
    BY DEF Simple, Library
  <2> QED BY <2>1, <2>2, OneCall, TwoCalls DEF Good
<1>17. CASE l \in Law(<<"lib", "a", "upper">>, <<"a">>, Other)
  <2>1. /\ l.left = Source(<<"lib", "a", "upper">>)
        /\ l.right = Source(<<"a">>)
    BY <1>17 DEF Law
  <2>2. "a" \in Simple /\ Library = {"upper", "lower", "capitalise"}
    BY DEF Simple, Library
  <2>3. <<"a">> \in Seq(Simple)
    BY <2>2
  <2> QED BY <2>1, <2>2, <2>3, OneCall, SourceReads DEF Good
<1>18. CASE l \in Law(<<"a", "b", "+">>, <<"b">>, AsZero)
  <2>1. l.left = Source(<<"a", "b", "+">>) /\ l.right = Source(<<"b">>)
    BY <1>18 DEF Law
  <2>2. <<"a", "b", "+">> \in Seq(Simple) /\ <<"b">> \in Seq(Simple)
    BY DEF Simple, BinaryOp
  <2> QED BY <2>1, <2>2, SourceReads DEF Good
<1>19. CASE l \in Law(<<"a", "b", "+">>, <<"nil">>, AsNil)
  <2>1. l.left = Source(<<"a", "b", "+">>) /\ l.right = Source(<<"nil">>)
    BY <1>19 DEF Law
  <2>2. <<"a", "b", "+">> \in Seq(Simple) /\ <<"nil">> \in Seq(Simple)
    BY DEF Simple, BinaryOp
  <2> QED BY <2>1, <2>2, SourceReads DEF Good
<1>20. ASSUME NEW s, l = NameLaw(Source(<<"a", "if">>), Leave(Bool(s = <<>>)), Str(s), Nil)
       PROVE  Good(l)
  <2>1. l.left = Source(<<"a", "if">>) /\ l.right = Leave(Bool(s = <<>>))
    BY <1>20 DEF NameLaw
  <2>2. <<"a", "if">> \in Seq(Simple)
    BY DEF Simple, BinaryOp
  <2> QED BY <2>1, <2>2, SourceReads, LeaveReads DEF Good
<1> QED BY <1>1, <1>2, <1>3, <1>4, <1>5, <1>6, <1>7, <1>8, <1>9, <1>10, <1>11, <1>12,
           <1>13, <1>14, <1>15, <1>16, <1>17, <1>18, <1>19, <1>20
     DEF OperatorLaws

\* Terms of which each is written inside an item.
Termed(terms) ==
  /\ Row(terms)
  /\ \A i \in 1 .. Len(terms) : Moves(terms[i].tokens, 1, 0)

LEMMA TokensMove ==
  ASSUME NEW terms, Termed(terms)
  PROVE  Moves(Tokens(terms), 1, 0)
<1> DEFINE ss == [i \in DOMAIN terms |-> terms[i].tokens]
<1>1. PICK S : terms \in Seq(S)
  BY DEF Termed, Row
<1>2. ss \in Seq({t.tokens : t \in S}) /\ Len(ss) = Len(terms)
  BY <1>1
<1>3. \A i \in 1 .. Len(ss) : Moves(ss[i], 1, 0)
  BY <1>1, <1>2 DEF Termed
<1> HIDE DEF ss
<1>4. Moves(FlattenSeq(ss), 1, 0)
  BY <1>2, <1>3, FlattenKeeps DEF Row
<1> QED BY <1>4 DEF ss, Tokens

LEMMA NamesAreTermed ==
  ASSUME NEW n \in Nat, NEW v, NEW more, \A t \in more : Moves(t.tokens, 1, 0),
         NEW terms \in NamesOf(n, v, more)
  PROVE  Termed(terms)
<1> DEFINE S == {Written(layer) : layer \in Layers} \cup {InLocal(v)} \cup more
<1>1. PICK m \in 0 .. n : terms \in [1 .. m -> S]
  BY DEF NamesOf, BoundedSeq, SeqOf
<1>2. terms \in Seq(S) /\ Len(terms) = m
  BY <1>1
<1>3. ASSUME NEW t \in S PROVE Moves(t.tokens, 1, 0)
  <2>1. CASE t \in more
    BY <2>1
  <2>2. CASE t = InLocal(v)
    <3>1. t.tokens = << <<"D">> >> \o << <<"V", "a">> >>
      BY <2>2 DEF InLocal
    <3>2. Moves(<< <<"D">> >>, 1, 0) /\ Moves(<< <<"V", "a">> >>, 1, 0)
      BY MovesInside DEF Inside
    <3>3. Moves(t.tokens, 1, 0 + 0)
      BY <3>1, <3>2, MovesConcat
    <3> QED BY <3>3
  <2>3. ASSUME NEW layer, t = Written(layer) PROVE Moves(t.tokens, 1, 0)
    <3>1. t.tokens = << <<"L", layer>> >>
      BY <2>3 DEF Written
    <3> QED BY <3>1, MovesInside DEF Inside
  <2> QED BY <2>1, <2>2, <2>3
<1> HIDE DEF S
<1> QED BY <1>1, <1>2, <1>3 DEF Termed, Row

LEMMA PlainNames ==
  ASSUME NEW n \in Nat, NEW v, NEW terms \in NamesOf(n, v, {})
  PROVE  Termed(terms)
BY NamesAreTermed

LEMMA NameReads ==
  ASSUME NEW terms, Termed(terms)
  PROVE  Readable(Fetched(terms)) /\ Readable(AName(terms))
BY TokensMove, MovesItem DEF Fetched, AName, Readable, Opens, Closes

LEMMA ReadsConcat ==
  ASSUME NEW s, NEW t, Readable(s), Readable(t)
  PROVE  Readable(s \o t)
<1>1. Moves(s \o t, 0, 0 + 0)
  BY MovesConcat DEF Readable
<1> QED BY <1>1 DEF Readable

\* What is no part of an item is a source by itself.
LEMMA PlainReads ==
  /\ Readable(<< <<"X">> >>) /\ Readable(<< <<"W">> >>)
  /\ \A x : Readable(<< <<"e", x>> >>)
  /\ \A x : Readable(<< <<"e", x>>, <<"Z">> >>) /\ Readable(<< <<"e", x>>, <<"Y">> >>)
<1>1. \A t : t \in {"X", "W", "Y", "Z"} => Readable(<< <<t>> >>)
  BY MovesPlain DEF Readable, Opens, Inside, Closes
<1>2. \A x : Readable(<< <<"e", x>> >>)
  BY MovesPlain DEF Readable, Opens, Inside, Closes
<1>3. \A x, t : << <<"e", x>>, <<t>> >> = << <<"e", x>> >> \o << <<t>> >>
  OBVIOUS
<1>4. \A x : Readable(<< <<"e", x>>, <<"Z">> >>) /\ Readable(<< <<"e", x>>, <<"Y">> >>)
  BY <1>1, <1>2, <1>3, ReadsConcat
<1> QED BY <1>1, <1>2, <1>4

LEMMA FetchLawsGood ==
  ASSUME NEW l \in FetchLaws
  PROVE  Good(l)
<1>1. PICK v \in Value :
        \/ \E terms \in NamesOf(3, v, {}) :
             l = NameLaw(Fetched(terms), Leave(ValueOf(terms)), v, Nil)
        \/ \E terms \in NamesOf(3, v, {}) :
             l = NameLaw(AName(terms) \o << <<"X">> >>,
                         Leave(Bool(Named(terms) # {})), v, Nil)
  BY DEF FetchLaws
<1>2. CASE \E terms \in NamesOf(3, v, {}) :
             l = NameLaw(Fetched(terms), Leave(ValueOf(terms)), v, Nil)
  <2>1. PICK terms \in NamesOf(3, v, {}) :
          l = NameLaw(Fetched(terms), Leave(ValueOf(terms)), v, Nil)
    BY <1>2
  <2>2. Readable(Fetched(terms))
    BY PlainNames, NameReads
  <2> QED BY <2>1, <2>2, LeaveReads DEF Good, NameLaw
<1>3. CASE \E terms \in NamesOf(3, v, {}) :
             l = NameLaw(AName(terms) \o << <<"X">> >>,
                         Leave(Bool(Named(terms) # {})), v, Nil)
  <2>1. PICK terms \in NamesOf(3, v, {}) :
          l = NameLaw(AName(terms) \o << <<"X">> >>,
                      Leave(Bool(Named(terms) # {})), v, Nil)
    BY <1>3
  <2>2. Readable(AName(terms) \o << <<"X">> >>)
    BY PlainNames, NameReads, PlainReads, ReadsConcat
  <2> QED BY <2>1, <2>2, LeaveReads DEF Good, NameLaw
<1> QED BY <1>1, <1>2, <1>3

LEMMA DeleteLawsGood ==
  ASSUME NEW l \in DeleteLaws
  PROVE  Good(l)
<1>1. \E v \in Value : \E terms \in NamesOf(2, v, {}) :
      \E others \in NamesOf(2, Str(<<>>), {}) : l = NameLaw(
          AName(terms) \o << <<"W">> >> \o AName(others) \o << <<"X">> >>,
          Leave(Bool(Stays(others, terms))), v, Nil)
  BY DEF DeleteLaws
<1>2. ASSUME NEW v \in Value, NEW terms \in NamesOf(2, v, {}),
             NEW others \in NamesOf(2, Str(<<>>), {}),
             l = NameLaw(
               AName(terms) \o << <<"W">> >> \o AName(others) \o << <<"X">> >>,
               Leave(Bool(Stays(others, terms))), v, Nil)
      PROVE  Good(l)
  <2>1. Readable(AName(terms)) /\ Readable(AName(others))
    BY PlainNames, NameReads
  <2>2. Readable(AName(terms) \o << <<"W">> >>)
    BY <2>1, PlainReads, ReadsConcat
  <2>3. Readable(AName(terms) \o << <<"W">> >> \o AName(others))
    BY <2>1, <2>2, ReadsConcat
  <2>4. Readable(AName(terms) \o << <<"W">> >> \o AName(others) \o << <<"X">> >>)
    BY <2>3, PlainReads, ReadsConcat
  <2> QED BY <1>2, <2>4, LeaveReads DEF Good, NameLaw
<1> QED BY <1>1, <1>2

LEMMA NthLawsGood ==
  ASSUME NEW l \in NthLaws
  PROVE  Good(l)
<1>1. \/ \E v \in Value :
           l = NameLaw(<< <<"e", "a">>, <<"Z">> >>, Leave(NthUnder(<<>>, v)), v, Nil)
      \/ \E v \in Value : \E w \in Value : \E terms \in NamesOf(1, v, {}) :
           l = NameLaw(AName(terms) \o << <<"e", "b">>, <<"Y">> >>,
                       Leave(IF Named(terms) = {} THEN Nil
                             ELSE NthUnder(Joined(terms), w)), v, w)
  BY DEF NthLaws
<1>2. ASSUME NEW v, NEW x, l = NameLaw(<< <<"e", "a">>, <<"Z">> >>, Leave(x), v, Nil)
      PROVE  Good(l)
  BY <1>2, PlainReads, LeaveReads DEF Good, NameLaw
<1>3. ASSUME NEW v, NEW w, NEW x, NEW terms \in NamesOf(1, v, {}),
             l = NameLaw(AName(terms) \o << <<"e", "b">>, <<"Y">> >>, Leave(x), v, w)
      PROVE  Good(l)
  <2>1. Readable(AName(terms))
    BY PlainNames, NameReads
  <2>2. Readable(AName(terms) \o << <<"e", "b">>, <<"Y">> >>)
    BY <2>1, PlainReads, ReadsConcat
  <2> QED BY <1>3, <2>2, LeaveReads DEF Good, NameLaw
<1> QED BY <1>1, <1>2, <1>3

LEMMA PassedReads ==
  ASSUME NEW S, NEW args \in Seq(S), \A p \in S : Readable(p)
  PROVE  Readable(Passed(args))
<1> DEFINE ss == [i \in DOMAIN args |-> args[i] \o << <<"arg">> >>]
<1>1. ss \in Seq({p \o << <<"arg">> >> : p \in S}) /\ Len(ss) = Len(args)
  OBVIOUS
<1>2. Moves(<< <<"arg">> >>, 1, 0)
  BY MovesInside DEF Inside
<1>3. ASSUME NEW i \in 1 .. Len(ss) PROVE Moves(ss[i], 1, 0)
  <2>1. Moves(args[i], 1, 0)
    BY <1>1, MovesMore DEF Readable
  <2>2. Moves(args[i] \o << <<"arg">> >>, 1, 0 + 0)
    BY <1>2, <2>1, MovesConcat
  <2> QED BY <1>1, <2>2
<1> HIDE DEF ss
<1>4. Moves(FlattenSeq(ss), 1, 0)
  BY <1>1, <1>3, FlattenKeeps DEF Row
<1>5. Moves(Missing, 1, 0)
  BY MovesInside DEF Missing, Written, Inside
<1>6. Moves(<< <<"item">> >>, 0, 1) /\ Moves(<< <<"fetch">> >>, 1, -1)
  BY MovesOpen, MovesClose DEF Opens, Closes
<1>7. Moves(<< <<"item">> >> \o Missing, 0, 1 + 0)
  BY <1>5, <1>6, MovesConcat
<1>8. Moves(<< <<"item">> >> \o Missing, 0, 1)
  BY <1>7
<1>9. Moves(<< <<"item">> >> \o Missing \o FlattenSeq(ss), 0, 1 + 0)
  BY <1>4, <1>8, MovesConcat
<1>10. Moves(<< <<"item">> >> \o Missing \o FlattenSeq(ss), 0, 1)
  BY <1>9
<1>11. Moves(<< <<"item">> >> \o Missing \o FlattenSeq(ss) \o << <<"fetch">> >>, 0, 1 + -1)
  BY <1>6, <1>10, MovesConcat
<1> QED BY <1>11 DEF ss, Passed, Readable

\* What is passed to an item or a function, and the end of the list.
LEMMA PassAndClose ==
  ASSUME NEW u, u[1] \in Closes
  PROVE  Moves(<< <<"e", "a">> >> \o << <<"arg">>, u >>, 1, -1)
<1>1. Moves(<< <<"e", "a">> >>, 0, 0)
  BY PlainReads DEF Readable
<1>2. Moves(<< <<"arg">> >>, 1, 0)
  BY MovesInside DEF Inside
<1>3. Moves(<< u >>, 1, -1)
  BY MovesClose
<1>4. << <<"arg">>, u >> = << <<"arg">> >> \o <<u>>
  OBVIOUS
<1>5. Moves(<< <<"arg">> >> \o <<u>>, 1, 0 + -1)
  BY <1>2, <1>3, MovesConcat
<1>6. Moves(<< <<"arg">>, u >>, 1, 0 + -1)
  BY <1>4, <1>5, Zenon
<1>7. 0 + -1 = -1
  OBVIOUS
<1>8. Moves(<< <<"arg">>, u >>, 1, -1) /\ Moves(<< <<"e", "a">> >>, 1, 0)
  BY <1>1, <1>6, <1>7, MovesMore
<1>9. Moves(<< <<"e", "a">> >> \o << <<"arg">>, u >>, 1, 0 + -1)
  BY <1>8, MovesConcat
<1> QED BY <1>7, <1>9

LEMMA ArguedReads ==
  \A p \in Argued : Readable(p)
<1> DEFINE x == << <<"e", "a">> >>
           y == << <<"e", "b">> >>
           small == << <<"lib">>, <<"e", "a">>, <<"arg">>, <<"call", "lower">> >>
<1>1. Readable(x) /\ Readable(y)
  BY PlainReads
<1>2. Readable(small)
  <2>1. <<"call", "lower">>[1] \in Closes /\ <<"lib">>[1] \in Opens
    BY DEF Opens, Closes
  <2>2. /\ Moves(<< <<"lib">> >>, 0, 1)
        /\ Moves(<< <<"e", "a">> >> \o << <<"arg">>, <<"call", "lower">> >>, 1, -1)
    BY <2>1, MovesOpen, PassAndClose
  <2>3. Moves(<< <<"lib">> >> \o (<< <<"e", "a">> >> \o << <<"arg">>, <<"call", "lower">> >>),
              0, 1 + -1)
    BY <2>2, MovesConcat
  <2>4. small = << <<"lib">> >> \o (<< <<"e", "a">> >> \o << <<"arg">>, <<"call", "lower">> >>)
    OBVIOUS
  <2>5. 1 + -1 = 0
    OBVIOUS
  <2>6. Moves(small, 0, 1 + -1)
    BY <2>3, <2>4, Zenon
  <2> HIDE DEF small
  <2> QED BY <2>5, <2>6 DEF Readable
<1> HIDE DEF x, y, small
<1>3. /\ <<x>> \in Seq({x, y}) /\ <<x, y>> \in Seq({x, y}) /\ <<y>> \in Seq({x, y})
      /\ \A p \in {x, y} : Readable(p)
  BY <1>1
<1> DEFINE U == {x, y}
<1> HIDE DEF U
<1>4. Readable(Passed(<<x>>)) /\ Readable(Passed(<<x, y>>)) /\ Readable(Passed(<<y>>))
  <2>1. /\ <<x>> \in Seq(U) /\ <<x, y>> \in Seq(U) /\ <<y>> \in Seq(U)
        /\ \A p \in U : Readable(p)
    BY <1>3 DEF U
  <2> QED BY <2>1, PassedReads
<1> DEFINE z == Passed(<<y>>)
<1>5. <<z>> \in Seq({z}) /\ \A p \in {z} : Readable(p)
  BY <1>4
<1> DEFINE V == {z}
<1> HIDE DEF z, V
<1>6. Readable(Passed(<<z>>))
  <2>1. <<z>> \in Seq(V) /\ \A p \in V : Readable(p)
    BY <1>5 DEF V
  <2> QED BY <2>1, PassedReads
<1>7. Argued = {x, small, Passed(<<x>>), Passed(<<x, y>>), Passed(<<Passed(<<y>>)>>)}
  BY Zenon DEF Argued, x, y, small
<1> QED BY <1>1, <1>2, <1>4, <1>6, <1>7 DEF z

LEMMA ArgumentLawsGood ==
  ASSUME NEW l \in ArgumentLaws
  PROVE  Good(l)
<1>1. \/ \E s \in {<<p>> : p \in Argued} \cup (Argued \X Argued) : \E v, w :
           l = NameLaw(Passed(s), Leave(Nil), v, w)
      \/ \E item :
           l = NameLaw(<< <<"item">> >> \o Written(item.name).tokens \o << <<"e", "a">> >> \o
                       << <<"arg">>, <<"fetch">> >>, Leave(item.value), Nil, Nil)
  BY DEF ArgumentLaws
<1>2. ASSUME NEW s \in {<<p>> : p \in Argued} \cup (Argued \X Argued), NEW v, NEW w,
             l = NameLaw(Passed(s), Leave(Nil), v, w)
      PROVE  Good(l)
  <2>1. s \in Seq(Argued)
    <3>1. CASE s \in {<<p>> : p \in Argued}
      <4>1. PICK p \in Argued : s = <<p>>
        BY <3>1
      <4>2. <<p>> \in Seq(Argued)
        OBVIOUS
      <4> QED BY <4>1, <4>2
    <3>2. ASSUME NEW p \in Argued, NEW q \in Argued PROVE <<p, q>> \in Seq(Argued)
      OBVIOUS
    <3>3. s \in Argued \X Argued =>
            s = <<s[1], s[2]>> /\ s[1] \in Argued /\ s[2] \in Argued
      OBVIOUS
    <3>4. CASE s \in Argued \X Argued
      <4> DEFINE q == <<s[1], s[2]>>
      <4>1. q \in Seq(Argued) /\ s = q
        BY <3>2, <3>3, <3>4
      <4> HIDE DEF q
      <4> QED BY <4>1
    <3> QED BY <3>1, <3>4
  <2>2. Readable(Passed(s))
    BY <2>1, ArguedReads, PassedReads
  <2> QED BY <1>2, <2>2, LeaveReads DEF Good, NameLaw
<1>3. ASSUME NEW item,
             l = NameLaw(<< <<"item">> >> \o Written(item.name).tokens \o << <<"e", "a">> >> \o
                         << <<"arg">>, <<"fetch">> >>, Leave(item.value), Nil, Nil)
      PROVE  Good(l)
  <2> DEFINE name == Written(item.name).tokens
             start == << <<"item">> >> \o name
  <2>1. Moves(name, 1, 0)
    BY MovesInside DEF Written, Inside
  <2>2. Moves(<< <<"item">> >>, 0, 1)
    BY MovesOpen DEF Opens
  <2>3. Moves(<< <<"e", "a">> >>, 1, 0)
    BY PlainReads, MovesMore DEF Readable
  <2>4. Moves(<< <<"arg">>, <<"fetch">> >>, 1, -1)
    <3>1. << <<"arg">>, <<"fetch">> >> = << <<"arg">> >> \o << <<"fetch">> >>
      OBVIOUS
    <3>2. Moves(<< <<"arg">> >>, 1, 0) /\ Moves(<< <<"fetch">> >>, 1, -1)
      BY MovesInside, MovesClose DEF Inside, Closes
    <3>3. Moves(<< <<"arg">> >> \o << <<"fetch">> >>, 1, 0 + -1)
      BY <3>2, MovesConcat
    <3>4. 0 + -1 = -1
      OBVIOUS
    <3> QED BY <3>1, <3>3, <3>4, Zenon
  <2> HIDE DEF name
  <2>5. Moves(start, 0, 1 + 0)
    BY <2>1, <2>2, MovesConcat
  <2>6. Moves(start, 0, 1)
    BY <2>5
  <2> HIDE DEF start
  <2>7. Moves(start \o << <<"e", "a">> >>, 0, 1 + 0)
    BY <2>3, <2>6, MovesConcat
  <2>8. Moves(start \o << <<"e", "a">> >>, 0, 1)
    BY <2>7
  <2>9. Moves(start \o << <<"e", "a">> >> \o << <<"arg">>, <<"fetch">> >>, 0, 1 + -1)
    BY <2>4, <2>8, MovesConcat
  <2>10. Readable(l.left)
    BY <1>3, <2>9 DEF start, name, NameLaw, Readable
  <2> QED BY <1>3, <2>10, LeaveReads DEF Good, NameLaw
<1> QED BY <1>1, <1>2, <1>3

\* Bytecode, put together.
LEMMA CodeConcat ==
  ASSUME NEW c, NEW d, IsCode(c), IsCode(d)
  PROVE  IsCode(c \o d)
<1> DEFINE n == Len(c)
           m == Len(d)
<1>1. /\ Row(c \o d) /\ n \in Nat /\ m \in Nat /\ Len(c \o d) = n + m
      /\ \A i \in 1 .. n : (c \o d)[i] = c[i]
      /\ \A i \in 1 .. m : (c \o d)[n + i] = d[i]
  BY RowConcat DEF IsCode
<1>2. ASSUME NEW i \in 1 .. n + m, (c \o d)[i][1] = "F" PROVE (c \o d)[i][2] \in Nat
  <2>1. CASE i <= n
    <3>1. i \in 1 .. n
      BY <2>1, <1>1
    <3> QED BY <3>1, <1>1, <1>2 DEF IsCode
  <2>2. CASE ~(i <= n)
    <3> DEFINE j == i - n
    <3>1. j \in 1 .. m /\ n + j = i
      BY <2>2, <1>1
    <3> HIDE DEF j, n, m
    <3>2. (c \o d)[i] = d[j]
      BY <3>1, <1>1
    <3> QED BY <3>1, <3>2, <1>2 DEF IsCode, m
  <2> QED BY <2>1, <2>2
<1> QED BY <1>1, <1>2 DEF IsCode

LEMMA CodeOne ==
  ASSUME NEW t, t[1] = "F" => t[2] \in Nat
  PROVE  IsCode(<<t>>)
<1>1. Row(<<t>>) /\ Len(<<t>>) = 1 /\ <<t>>[1] = t
  BY RowSmall
<1>2. \A i \in 1 .. 1 : i = 1
  OBVIOUS
<1> QED BY <1>1, <1>2 DEF IsCode

LEMMA CodeAppend ==
  ASSUME NEW c, NEW t, IsCode(c), t[1] = "F" => t[2] \in Nat
  PROVE  IsCode(Append(c, t))
<1>1. Append(c, t) = c \o <<t>>
  BY RowAppend DEF IsCode
<1>2. IsCode(c \o <<t>>)
  BY CodeOne, CodeConcat
<1> QED BY <1>1, <1>2

LEMMA CodeEmpty == IsCode(<<>>)
<1>1. \A i \in 1 .. 0 : FALSE
  OBVIOUS
<1> QED BY <1>1, RowSmall DEF IsCode

LEMMA FlattenCode ==
  ASSUME NEW ss, Row(ss), \A i \in 1 .. Len(ss) : IsCode(ss[i])
  PROVE  IsCode(FlattenSeq(ss))
<1>1. Len(ss) \in Nat /\ (Len(ss) = 0 => ss = <<>>)
  BY EmptySeq DEF Row
<1>2. CASE Len(ss) = 0
  BY <1>1, <1>2, CodeEmpty DEF FlattenSeq
<1>3. CASE Len(ss) # 0
  <2> DEFINE m == Len(ss)
  <2>1. m \in Nat \ {0}
    BY <1>1, <1>3
  <2>2. PICK g : Flattens(g, ss) /\ FlattenSeq(ss) = g[m]
    BY <2>1, FlattenSeqStepwise
  <2> DEFINE T == {k \in 1 .. m : IsCode(g[k])}
  <2>3. 1 \in T
    <3>1. 1 \in 1 .. m
      BY <2>1
    <3>2. g[1] = ss[1]
      BY <2>2, <3>1 DEF Flattens
    <3> QED BY <3>1, <3>2
  <2>4. ASSUME NEW k \in 1 .. m - 1, k \in T PROVE k + 1 \in T
    <3>1. k + 1 \in 1 .. m
      BY <2>1
    <3>2. g[k + 1] = g[k] \o ss[k + 1]
      BY <2>1, <2>2, FlattensNext
    <3>3. IsCode(g[k] \o ss[k + 1])
      BY <2>4, <3>1, CodeConcat
    <3> QED BY <3>1, <3>2, <3>3
  <2> HIDE DEF T, m
  <2>5. m \in T
    BY <2>1, <2>3, <2>4, ReachesAll
  <2> QED BY <2>2, <2>5 DEF T, m
<1> QED BY <1>2, <1>3

\* Terms of which each is bytecode.
Coded(terms) ==
  Row(terms) /\ \A i \in 1 .. Len(terms) : IsCode(terms[i].tokens)

LEMMA TokensCode ==
  ASSUME NEW terms, Coded(terms)
  PROVE  IsCode(Tokens(terms))
<1> DEFINE ss == [i \in DOMAIN terms |-> terms[i].tokens]
<1>1. PICK S : terms \in Seq(S)
  BY DEF Coded, Row
<1>2. ss \in Seq({t.tokens : t \in S}) /\ Len(ss) = Len(terms)
  BY <1>1
<1>3. \A i \in 1 .. Len(ss) : IsCode(ss[i])
  BY <1>1, <1>2 DEF Coded
<1> HIDE DEF ss
<1>4. IsCode(FlattenSeq(ss))
  BY <1>2, <1>3, FlattenCode DEF Row
<1> QED BY <1>4 DEF ss, Tokens

LEMMA NamesAreCode ==
  ASSUME NEW n \in Nat, NEW v, NEW more, \A t \in more : IsCode(t.tokens),
         NEW terms \in NamesOf(n, v, more)
  PROVE  Coded(terms)
<1> DEFINE S == {Written(layer) : layer \in Layers} \cup {InLocal(v)} \cup more
<1>1. PICK m \in 0 .. n : terms \in [1 .. m -> S]
  BY DEF NamesOf, BoundedSeq, SeqOf
<1>2. terms \in Seq(S) /\ Len(terms) = m
  BY <1>1
<1>3. ASSUME NEW t \in S PROVE IsCode(t.tokens)
  <2>1. CASE t \in more
    BY <2>1
  <2>2. CASE t = InLocal(v)
    <3>1. t.tokens = << <<"D">> >> \o << <<"V", "a">> >>
      BY <2>2 DEF InLocal
    <3>2. IsCode(<< <<"D">> >>) /\ IsCode(<< <<"V", "a">> >>)
      BY CodeOne
    <3>3. IsCode(<< <<"D">> >> \o << <<"V", "a">> >>)
      BY <3>2, CodeConcat
    <3> QED BY <3>1, <3>3, Zenon
  <2>3. ASSUME NEW layer, t = Written(layer) PROVE IsCode(t.tokens)
    <3>1. t.tokens = << <<"L", layer>> >>
      BY <2>3 DEF Written
    <3> QED BY <3>1, CodeOne
  <2> QED BY <2>1, <2>2, <2>3
<1> HIDE DEF S
<1> QED BY <1>1, <1>2, <1>3 DEF Coded, Row

LEMMA InBytesCode ==
  ASSUME NEW terms, Coded(terms)
  PROVE  IsCode(InBytes(terms).tokens) /\ IsCode(InCode(terms))
<1>1. IsCode(Tokens(terms))
  BY TokensCode
<1>2. IsCode(<< <<"D">> >>) /\ IsCode(<< <<"I">> >>) /\ IsCode(<< <<"E">> >>)
      /\ IsCode(<< <<"F", 0>> >>)
  BY CodeOne
<1>3. << <<"D">>, <<"I">> >> = << <<"D">> >> \o << <<"I">> >>
      /\ << <<"E">>, <<"F", 0>> >> = << <<"E">> >> \o << <<"F", 0>> >>
  OBVIOUS
<1>4. IsCode(<< <<"D">>, <<"I">> >>) /\ IsCode(<< <<"E">>, <<"F", 0>> >>)
  <2>1. IsCode(<< <<"D">> >> \o << <<"I">> >>) /\ IsCode(<< <<"E">> >> \o << <<"F", 0>> >>)
    BY <1>2, CodeConcat
  <2> QED BY <2>1, <1>3, Zenon
<1>5. IsCode(<< <<"D">>, <<"I">> >> \o Tokens(terms) \o << <<"E">> >>)
  BY <1>1, <1>2, <1>4, CodeConcat
<1>6. IsCode(<< <<"I">> >> \o Tokens(terms) \o << <<"E">>, <<"F", 0>> >>)
  BY <1>1, <1>2, <1>4, CodeConcat
<1> QED BY <1>5, <1>6 DEF InBytes, InCode

LEMMA InItemMoves ==
  ASSUME NEW terms, Termed(terms)
  PROVE  Moves(InItem(terms).tokens, 1, 0)
<1>1. Moves(Tokens(terms), 1, 0)
  BY TokensMove
<1>2. /\ Moves(<< <<"D">> >>, 1, 0) /\ Moves(<< <<"]">> >>, 1, 0)
      /\ Moves(<< <<"item">> >>, 0, 1)
  BY MovesInside, MovesOpen DEF Inside, Opens
<1>3. << <<"D">>, <<"item">> >> = << <<"D">> >> \o << <<"item">> >>
  OBVIOUS
<1>4. Moves(<< <<"D">> >> \o << <<"item">> >>, 1, 0 + 1)
  BY <1>2, MovesConcat
<1> DEFINE s == << <<"D">>, <<"item">> >>
<1>5. Moves(s, 1, 1)
  <2>1. 0 + 1 = 1
    OBVIOUS
  <2> QED BY <1>3, <1>4, <2>1, Zenon
<1> HIDE DEF s
<1>6. Moves(s \o Tokens(terms), 1, 1 + 0)
  BY <1>1, <1>5, MovesConcat
<1>7. Moves(s \o Tokens(terms), 1, 1)
  BY <1>6
<1>8. Moves(s \o Tokens(terms) \o << <<"]">> >>, 1, 1 + 0)
  BY <1>2, <1>7, MovesConcat
<1>9. Moves(s \o Tokens(terms) \o << <<"]">> >>, 1, 0)
  BY <1>8 DEF Moves
<1> QED BY <1>9 DEF s, InItem

LEMMA BracketLawsGood ==
  ASSUME NEW l \in BracketLaws
  PROVE  Good(l)
<1>1. \/ \E v \in Value : \E terms \in NamesOf(2, v, {InItem(n) : n \in NamesOf(2, v, {})}) :
           l = NameLaw(Fetched(terms), Leave(ValueOf(terms)), v, Nil)
      \/ \E v \in Value : \E terms \in NamesOf(2, v, {InBytes(n) : n \in NamesOf(2, v, {})}) :
           l = NameLaw(<< <<"bytes", InCode(terms)>> >>, Leave(ValueOf(terms)), v, Nil)
  BY DEF BracketLaws
<1>2. ASSUME NEW v, NEW terms \in NamesOf(2, v, {InItem(n) : n \in NamesOf(2, v, {})}),
             l = NameLaw(Fetched(terms), Leave(ValueOf(terms)), v, Nil)
      PROVE  Good(l)
  <2>1. \A t \in {InItem(n) : n \in NamesOf(2, v, {})} : Moves(t.tokens, 1, 0)
    BY PlainNames, InItemMoves
  <2>2. Termed(terms)
    BY <2>1, NamesAreTermed
  <2>3. Readable(Fetched(terms))
    BY <2>2, NameReads
  <2> QED BY <1>2, <2>3, LeaveReads DEF Good, NameLaw
<1>3. ASSUME NEW v, NEW terms \in NamesOf(2, v, {InBytes(n) : n \in NamesOf(2, v, {})}),
             l = NameLaw(<< <<"bytes", InCode(terms)>> >>, Leave(ValueOf(terms)), v, Nil)
      PROVE  Good(l)
  <2>1. \A n \in NamesOf(2, v, {}) : Coded(n)
    BY NamesAreCode
  <2>2. \A t \in {InBytes(n) : n \in NamesOf(2, v, {})} : IsCode(t.tokens)
    BY <2>1, InBytesCode
  <2>3. Coded(terms)
    BY <2>2, NamesAreCode
  <2>4. IsCode(InCode(terms))
    BY <2>3, InBytesCode
  <2>5. Readable(<< <<"bytes", InCode(terms)>> >>)
    BY <2>4, MovesPlain DEF Readable, Opens, Inside, Closes
  <2> QED BY <1>3, <2>5, LeaveReads DEF Good, NameLaw
<1> QED BY <1>1, <1>2, <1>3

LEMMA LawsGood ==
  ASSUME NEW l \in Laws
  PROVE  Good(l)
BY OperatorLawsGood, FetchLawsGood, DeleteLawsGood, NthLawsGood, ArgumentLawsGood,
   BracketLawsGood DEF Laws

-----------------------------------------------------------------------------
(* What is compiled is bytecode: the buffers that the grammar is in the     *)
(* middle of are as many as the rest of the source closes.                 *)

Buffer(r) ==
  r = [code |-> r.code, args |-> r.args] /\ IsCode(r.code) /\ r.args \in Nat

Buffers(out) == Row(out) /\ \A i \in 1 .. Len(out) : Buffer(out[i])

ReadInv ==
  /\ Good(law)
  /\ Buffers(item_out)
  /\ \E b : Leads(source, Len(item_out), b)
  /\ IsCode(code)
  /\ pc \in Nat \ {0}

LEMMA InitRead ==
  ASSUME Init
  PROVE  ReadInv
<1>1. Good(law)
  BY LawsGood DEF Init
<1>2. Buffers(item_out) /\ Len(item_out) = 0
  <2>1. \A i \in 1 .. 0 : FALSE
    OBVIOUS
  <2> QED BY <2>1, RowSmall DEF Init, Buffers
<1>3. \E b : Leads(source, Len(item_out), b)
  BY <1>1, <1>2 DEF Init, Good, Readable, Moves
<1> QED BY <1>1, <1>2, <1>3, CodeEmpty DEF Init, ReadInv

\* Reading a token.
LEMMA ReadsToken ==
  ASSUME ReadInv, NEW kinds, Reads(kinds)
  PROVE  /\ Head(source)[1] \in kinds
         /\ Len(item_out) \in Nat
         /\ \E n \in Nat : /\ Nest(Head(source), Len(item_out), n)
                           /\ \E b : Leads(Tail(source), n, b)
         /\ law' = law /\ pc' = pc /\ source' = Tail(source)
<1>1. PICK b : Leads(source, Len(item_out), b)
  BY DEF ReadInv
<1>2. source # <<>>
  BY DEF Reads
<1>3. Len(item_out) \in Nat
  BY DEF ReadInv, Buffers, Row
<1>4. \E n \in Nat : Nest(Head(source), Len(item_out), n) /\ Leads(Tail(source), n, b)
  BY <1>1, <1>2, LeadsTail
<1> QED BY <1>3, <1>4 DEF Reads

LEMMA BuffersAppend ==
  ASSUME NEW out, Buffers(out), NEW r, Buffer(r)
  PROVE  Buffers(Append(out, r)) /\ Len(Append(out, r)) = Len(out) + 1
<1>1. /\ Row(Append(out, r)) /\ Len(out) \in Nat /\ Len(Append(out, r)) = Len(out) + 1
      /\ \A i \in 1 .. Len(out) : Append(out, r)[i] = out[i]
      /\ Append(out, r)[Len(out) + 1] = r
  BY RowAppend, ZenonT(60) DEF Buffers
<1>2. \A i \in 1 .. Len(out) + 1 : i \in 1 .. Len(out) \/ i = Len(out) + 1
  BY <1>1
<1> QED BY <1>1, <1>2 DEF Buffers

LEMMA BuffersExcept ==
  ASSUME NEW out, Buffers(out), Len(out) > 0, NEW r, Buffer(r)
  PROVE  /\ Buffers([out EXCEPT ![Len(out)] = r])
         /\ Len([out EXCEPT ![Len(out)] = r]) = Len(out)
<1>1. PICK S : out \in Seq(S)
  BY DEF Buffers, Row
<1> DEFINE new == [out EXCEPT ![Len(out)] = r]
<1>2. Len(out) \in Nat /\ Len(out) \in 1 .. Len(out)
  BY <1>1
<1>3. out \in Seq(S \cup {r})
  BY <1>1, SeqMonotonic, Zenon
<1>4. /\ new \in Seq(S \cup {r}) /\ Len(new) = Len(out)
      /\ \A j \in 1 .. Len(out) : new[j] = IF j = Len(out) THEN r ELSE out[j]
  BY <1>2, <1>3, ExceptSeq
<1> HIDE DEF new
<1> QED BY <1>4 DEF Buffers, Row, new

LEMMA BuffersFront ==
  ASSUME NEW out, Buffers(out), Len(out) > 0
  PROVE  /\ Buffers(Front(out)) /\ Len(Front(out)) = Len(out) - 1
         /\ Buffer(Last(out))
<1>1. Len(out) \in Nat
  BY DEF Buffers, Row
<1> DEFINE k == Len(out) - 1
           front == SubSeq(out, 1, k)
<1>2. /\ Row(front)
      /\ Len(front) = IF 1 <= k THEN k - 1 + 1 ELSE 0
      /\ \A i \in 1 .. k - 1 + 1 : front[i] = out[1 + i - 1]
  BY <1>1, RowPart DEF Buffers
<1>3. Len(Front(out)) = Len(out) - 1
  <2>1. k \in Nat
    BY <1>1
  <2> HIDE DEF front, k
  <2>2. Len(front) = k
    BY <1>2, <2>1
  <2> QED BY <2>2, Zenon DEF Front, front, k
<1>4. ASSUME NEW i \in 1 .. Len(out) - 1 PROVE Buffer(Front(out)[i])
  <2>1. i \in 1 .. Len(out) - 1 - 1 + 1 /\ 1 + i - 1 = i /\ i \in 1 .. Len(out)
    BY <1>1
  <2>2. Front(out)[i] = out[i]
    BY <1>2, <2>1 DEF Front
  <2> QED BY <2>1, <2>2 DEF Buffers
<1>5. Buffer(Last(out))
  BY <1>1 DEF Buffers, Last
<1> QED BY <1>2, <1>3, <1>4, <1>5 DEF Buffers, Front

LEMMA BeginItemRead ==
  ASSUME ReadInv, BeginItem
  PROVE  ReadInv'
<1>1. Reads({"item", "lib"}) /\ code' = code
  BY DEF BeginItem
<1>2. PICK n \in Nat : /\ Nest(Head(source), Len(item_out), n)
                       /\ \E b : Leads(Tail(source), n, b)
  BY <1>1, ReadsToken
<1>3. /\ Head(source)[1] \in {"item", "lib"} /\ Len(item_out) \in Nat
      /\ law' = law /\ pc' = pc /\ source' = Tail(source)
  BY <1>1, ReadsToken
<1>4. n = Len(item_out) + 1
  BY <1>2, <1>3 DEF Nest
<1> DEFINE r == [code |-> IF Head(source) = <<"item">> THEN << <<"I">> >> ELSE <<>>,
                 args |-> 0]
<1>5. Buffer(r)
  <2>1. IsCode(<< <<"I">> >>) /\ IsCode(<<>>)
    BY CodeOne, CodeEmpty
  <2> QED BY <2>1 DEF Buffer
<1>6. item_out' = Append(item_out, r)
  BY DEF BeginItem
<1> HIDE DEF r
<1>7. Buffers(item_out') /\ Len(item_out') = Len(item_out) + 1
  BY <1>5, <1>6, BuffersAppend DEF ReadInv
<1> QED BY <1>1, <1>2, <1>3, <1>4, <1>7 DEF ReadInv

LEMMA EmitLayerRead ==
  ASSUME ReadInv, EmitLayer
  PROVE  ReadInv'
<1>1. Reads({"L", "D", "V", "]"}) /\ code' = code
  BY DEF EmitLayer
<1>2. PICK n \in Nat : /\ Nest(Head(source), Len(item_out), n)
                       /\ \E b : Leads(Tail(source), n, b)
  BY <1>1, ReadsToken
<1>3. /\ Head(source)[1] \in {"L", "D", "V", "]"} /\ Len(item_out) \in Nat
      /\ law' = law /\ pc' = pc /\ source' = Tail(source)
  BY <1>1, ReadsToken
<1>4. n = Len(item_out) /\ Len(item_out) > 0
  BY <1>2, <1>3 DEF Nest
<1> DEFINE top == item_out[Len(item_out)]
           t == IF Head(source) = <<"]">> THEN <<"E">> ELSE Head(source)
           r == [top EXCEPT !.code = Append(@, t)]
<1>5. Buffer(top)
  BY <1>3, <1>4 DEF ReadInv, Buffers
<1>6. t[1] = "F" => t[2] \in Nat
  BY <1>3
<1>7. IsCode(Append(top.code, t))
  BY <1>5, <1>6, CodeAppend DEF Buffer
<1>8. item_out' = [item_out EXCEPT ![Len(item_out)] = r]
  BY DEF EmitLayer
<1> HIDE DEF top, t
<1>9. Buffer(r)
  BY <1>5, <1>7 DEF Buffer
<1> HIDE DEF r
<1>10. Buffers(item_out') /\ Len(item_out') = Len(item_out)
  BY <1>4, <1>8, <1>9, BuffersExcept DEF ReadInv
<1> QED BY <1>1, <1>2, <1>3, <1>4, <1>10 DEF ReadInv

LEMMA CountArgRead ==
  ASSUME ReadInv, CountArg
  PROVE  ReadInv'
<1>1. Reads({"arg"}) /\ code' = code
  BY DEF CountArg
<1>2. PICK n \in Nat : /\ Nest(Head(source), Len(item_out), n)
                       /\ \E b : Leads(Tail(source), n, b)
  BY <1>1, ReadsToken
<1>3. /\ Head(source)[1] = "arg" /\ Len(item_out) \in Nat
      /\ law' = law /\ pc' = pc /\ source' = Tail(source)
  BY <1>1, ReadsToken
<1>4. n = Len(item_out) /\ Len(item_out) > 0
  BY <1>2, <1>3 DEF Nest
<1> DEFINE top == item_out[Len(item_out)]
           r == [top EXCEPT !.args = @ + 1]
<1>5. Buffer(top)
  BY <1>3, <1>4 DEF ReadInv, Buffers
<1>6. item_out' = [item_out EXCEPT ![Len(item_out)] = r]
  BY DEF CountArg
<1> HIDE DEF top
<1>7. Buffer(r)
  BY <1>5 DEF Buffer
<1> HIDE DEF r
<1>8. Buffers(item_out') /\ Len(item_out') = Len(item_out)
  BY <1>4, <1>6, <1>7, BuffersExcept DEF ReadInv
<1> QED BY <1>1, <1>2, <1>3, <1>4, <1>8 DEF ReadInv

LEMMA ClosingCode ==
  ASSUME NEW t, t[1] \in {"fetch", "name", "call"}, NEW r, Buffer(r)
  PROVE  IsCode(Closing(t, r))
<1>1. CASE t[1] = "fetch"
  <2>1. Closing(t, r) = << <<"E">>, <<"F", r.args>> >>
    BY <1>1 DEF Closing
  <2>2. << <<"E">>, <<"F", r.args>> >> = << <<"E">> >> \o << <<"F", r.args>> >>
    OBVIOUS
  <2>3. IsCode(<< <<"E">> >>) /\ IsCode(<< <<"F", r.args>> >>)
    BY CodeOne DEF Buffer
  <2>4. IsCode(<< <<"E">> >> \o << <<"F", r.args>> >>)
    BY <2>3, CodeConcat
  <2> QED BY <2>1, <2>2, <2>4, Zenon
<1>2. CASE t[1] = "name"
  <2>1. Closing(t, r) = << <<"E">> >>
    BY <1>2 DEF Closing
  <2> QED BY <2>1, CodeOne
<1>3. CASE t[1] = "call"
  <2>1. Closing(t, r) = << <<"op", t[2]>> >>
    BY <1>3 DEF Closing
  <2> QED BY <2>1, CodeOne
<1> QED BY <1>1, <1>2, <1>3

LEMMA FinishItemRead ==
  ASSUME ReadInv, FinishItem
  PROVE  ReadInv'
<1>1. Reads({"fetch", "name", "call"})
  BY DEF FinishItem
<1>2. PICK n \in Nat : /\ Nest(Head(source), Len(item_out), n)
                       /\ \E b : Leads(Tail(source), n, b)
  BY <1>1, ReadsToken
<1>3. /\ Head(source)[1] \in {"fetch", "name", "call"} /\ Len(item_out) \in Nat
      /\ law' = law /\ pc' = pc /\ source' = Tail(source)
  BY <1>1, ReadsToken
<1>4. n = Len(item_out) - 1 /\ Len(item_out) > 0
  BY <1>2, <1>3 DEF Nest
<1>5. /\ Buffers(Front(item_out)) /\ Len(Front(item_out)) = Len(item_out) - 1
      /\ Buffer(Last(item_out))
  BY <1>4, BuffersFront DEF ReadInv
<1>6. item_out' = Front(item_out)
  BY DEF FinishItem
<1>7. code' = code \o Last(item_out).code \o Closing(Head(source), Last(item_out))
  BY DEF FinishItem
<1>8. IsCode(code \o Last(item_out).code)
  BY <1>5, CodeConcat DEF ReadInv, Buffer
<1>9. IsCode(code')
  BY <1>3, <1>5, <1>7, <1>8, ClosingCode, CodeConcat
<1> QED BY <1>2, <1>3, <1>4, <1>5, <1>6, <1>9 DEF ReadInv

LEMMA EmitRead ==
  ASSUME ReadInv, Emit
  PROVE  ReadInv'
<1> DEFINE kinds == {"e", "push", "op", "X", "W", "Y", "Z", "bytes"}
<1>1. Reads(kinds) /\ item_out' = item_out
  BY DEF Emit
<1>2. PICK n \in Nat : /\ Nest(Head(source), Len(item_out), n)
                       /\ \E b : Leads(Tail(source), n, b)
  BY <1>1, ReadsToken
<1>3. /\ Head(source)[1] \in kinds /\ Len(item_out) \in Nat
      /\ law' = law /\ pc' = pc /\ source' = Tail(source)
  BY <1>1, ReadsToken
<1>4. n = Len(item_out)
  BY <1>2, <1>3 DEF Nest
<1>5. Head(source)[1] = "bytes" => IsCode(Head(source)[2])
  BY <1>2 DEF Nest
<1>6. Head(source)[1] # "bytes" => IsCode(<<Head(source)>>)
  BY <1>3, CodeOne
<1>7. IsCode(code')
  BY <1>5, <1>6, CodeConcat DEF Emit, ReadInv
<1> QED BY <1>1, <1>2, <1>3, <1>4, <1>7 DEF ReadInv

LEMMA TurnRead ==
  ASSUME ReadInv, Turn
  PROVE  ReadInv'
<1>1. /\ law' = law /\ item_out' = item_out /\ source' = law.right
      /\ code' = <<>> /\ pc' = 1
  BY DEF Turn
<1>2. Len(item_out) \in Nat
  BY DEF ReadInv, Buffers, Row
<1>3. \E b : Leads(law.right, Len(item_out), b)
  BY <1>2 DEF ReadInv, Good, Readable, Moves
<1> QED BY <1>1, <1>3, CodeEmpty DEF ReadInv

LEMMA RunsRead ==
  ASSUME ReadInv, Assemble \/ Evaluate
  PROVE  ReadInv'
<1>1. UNCHANGED <<law, source, item_out, code>>
  BY DEF Assemble, Evaluate, Runs, Steps, BeginName, AddLayer, AddLocal, BeginInner,
         EndName, PushValue, Operate, FetchItem, Exists, Delete, NthName, RootName
<1>2. pc' \in {pc, pc + 1, pc + 2}
  BY DEF Assemble, Evaluate, Steps, BeginName, AddLayer, AddLocal, BeginInner, GoOn,
         EndName, PushValue, Operate, FetchItem, Exists, Delete, NthName, RootName
<1> QED BY <1>1, <1>2 DEF ReadInv

LEMMA StepRead ==
  ASSUME ReadInv, [Next]_vars
  PROVE  ReadInv'
<1>1. CASE Compile
  BY <1>1, BeginItemRead, EmitLayerRead, CountArgRead, FinishItemRead, EmitRead
     DEF Compile
<1>2. CASE Assemble \/ Evaluate
  BY <1>2, RunsRead
<1>3. CASE Turn
  BY <1>3, TurnRead
<1>4. CASE UNCHANGED vars
  BY <1>4 DEF vars, ReadInv
<1> QED BY <1>1, <1>2, <1>3, <1>4 DEF Next

-----------------------------------------------------------------------------
(* The strings of a row of values, counted.                                *)

\* A string counts for one.
Weight(v) == IF IsStr(v) THEN 1 ELSE 0

Places(s) == {i \in 1 .. Len(s) : IsStr(s[i])}

LEMMA CountOfPlaces ==
  ASSUME NEW s, Row(s)
  PROVE  /\ Count(s) = Cardinality(Places(s)) /\ Count(s) \in Nat
         /\ IsFiniteSet(Places(s)) /\ Len(s) \in Nat
<1>1. DOMAIN s = 1 .. Len(s) /\ Len(s) \in Nat
  BY DEF Row
<1>2. IsFiniteSet(1 .. Len(s))
  BY <1>1, FS_Interval
<1>3. Places(s) \in SUBSET (1 .. Len(s))
  BY DEF Places
<1>4. IsFiniteSet(Places(s)) /\ Cardinality(Places(s)) \in Nat
  BY <1>2, <1>3, FS_Subset, FS_CardinalityType
<1>5. Count(s) = Cardinality(Places(s))
  BY <1>1, Zenon DEF Count, Places
<1> QED BY <1>1, <1>4, <1>5

LEMMA CountConcat ==
  ASSUME NEW s, NEW t, Row(s), Row(t)
  PROVE  Count(s \o t) = Count(s) + Count(t)
<1> DEFINE n == Len(s)
           m == Len(t)
<1>1. /\ Row(s \o t) /\ n \in Nat /\ m \in Nat /\ Len(s \o t) = n + m
      /\ \A i \in 1 .. n : (s \o t)[i] = s[i]
      /\ \A i \in 1 .. m : (s \o t)[n + i] = t[i]
  BY RowConcat
<1> DEFINE P == Places(s)
           Q == Places(t)
           R == {i \in n + 1 .. n + m : IsStr((s \o t)[i])}
           f == [i \in Q |-> n + i]
<1>2. /\ Count(s) = Cardinality(P) /\ Count(t) = Cardinality(Q)
      /\ Count(s \o t) = Cardinality(Places(s \o t))
      /\ IsFiniteSet(P) /\ IsFiniteSet(Q)
      /\ Count(s) \in Nat /\ Count(t) \in Nat
  BY <1>1, CountOfPlaces
<1>3. Places(s \o t) = P \cup R
  BY <1>1 DEF Places
<1>4. P \cap R = {}
  BY <1>1 DEF Places
<1>5. f \in Bijection(Q, R)
  <2>1. \A i \in Q : i \in 1 .. m /\ IsStr(t[i]) /\ f[i] = n + i
    BY DEF Places
  <2>2. \A i \in Q : f[i] \in R
    BY <1>1, <2>1
  <2>3. f \in [Q -> R]
    BY <2>2
  <2>4. \A i, j \in Q : f[i] = f[j] => i = j
    BY <1>1, <2>1
  <2>5. ASSUME NEW r \in R PROVE \E i \in Q : f[i] = r
    <3> DEFINE i == r - n
    <3>1. i \in 1 .. m /\ n + i = r
      BY <1>1
    <3> HIDE DEF i
    <3>2. i \in Q
      BY <1>1, <3>1 DEF Places
    <3> QED BY <2>1, <3>1, <3>2
  <2> HIDE DEF f, P, Q, R
  <2>6. f \in Injection(Q, R)
    BY <2>3, <2>4 DEF Injection, IsInjective
  <2>7. f \in Surjection(Q, R)
    BY <2>3, <2>5 DEF Surjection
  <2> QED BY <2>6, <2>7 DEF Bijection
<1> HIDE DEF P, Q, R, f
<1>6. IsFiniteSet(R) /\ Cardinality(R) = Cardinality(Q)
  BY <1>2, <1>5, FS_Bijection DEF ExistsBijection
<1>7. Cardinality(P \cup R) = Cardinality(P) + Cardinality(R) - Cardinality(P \cap R)
  BY <1>2, <1>6, FS_Union
<1>8. Cardinality(P \cap R) = 0
  BY <1>4, FS_EmptySet
<1>9. Cardinality(P \cup R) = Cardinality(P) + Cardinality(R)
  BY <1>2, <1>6, <1>7, <1>8
<1> QED BY <1>2, <1>3, <1>6, <1>9

LEMMA CountOne ==
  ASSUME NEW v
  PROVE  Count(<<v>>) = Weight(v)
<1>1. Row(<<v>>) /\ Len(<<v>>) = 1 /\ <<v>>[1] = v
  BY RowSmall
<1>2. Count(<<v>>) = Cardinality(Places(<<v>>))
  BY <1>1, CountOfPlaces
<1>3. 1 .. 1 = {1}
  OBVIOUS
<1>4. CASE IsStr(v)
  <2>1. Places(<<v>>) = {1}
    BY <1>1, <1>3, <1>4, Zenon DEF Places
  <2> QED BY <1>2, <1>4, <2>1, FS_Singleton DEF Weight
<1>5. CASE ~IsStr(v)
  <2>1. Places(<<v>>) = {}
    BY <1>1, <1>3, <1>5, Zenon DEF Places
  <2> QED BY <1>2, <1>5, <2>1, FS_EmptySet DEF Weight
<1> QED BY <1>4, <1>5

LEMMA CountAppend ==
  ASSUME NEW s, NEW v, Row(s)
  PROVE  /\ Count(Append(s, v)) = Count(s) + Weight(v)
         /\ Count(s) \in Nat /\ Count(Append(s, v)) \in Nat
<1>1. Row(Append(s, v)) /\ Append(s, v) = s \o <<v>>
  BY RowAppend
<1>2. Row(<<v>>)
  BY RowSmall
<1>3. Count(s \o <<v>>) = Count(s) + Count(<<v>>)
  BY <1>2, CountConcat
<1>4. Count(s) \in Nat /\ Count(Append(s, v)) \in Nat
  BY <1>1, CountOfPlaces
<1> QED BY <1>1, <1>3, <1>4, CountOne

LEMMA Pair ==
  ASSUME NEW v, NEW w
  PROVE  <<v, w>> = <<v>> \o <<w>>
<1> DEFINE S == {v, w}
           p == <<v, w>>
           q == <<v>> \o <<w>>
<1>1. /\ <<v>> \in Seq(S) /\ <<w>> \in Seq(S) /\ p \in Seq(S)
      /\ Len(<<v>>) = 1 /\ Len(<<w>>) = 1 /\ Len(p) = 2
      /\ <<v>>[1] = v /\ <<w>>[1] = w /\ p[1] = v /\ p[2] = w
  OBVIOUS
<1>2. /\ q \in Seq(S) /\ Len(q) = 1 + 1
      /\ \A i \in 1 .. 1 + 1 : q[i] = IF i <= 1 THEN <<v>>[i] ELSE <<w>>[i - 1]
  BY <1>1, ConcatProperties
<1> HIDE DEF S, p, q
<1>3. q[1] = v
  BY <1>1, <1>2
<1>4. q[2] = w
  <2>1. 2 \in 1 .. 1 + 1 /\ ~(2 <= 1) /\ 2 - 1 = 1
    OBVIOUS
  <2>2. q[2] = <<w>>[2 - 1]
    BY <1>2, <2>1
  <2> QED BY <1>1, <2>1, <2>2, Zenon
<1>5. \A i \in 1 .. 2 : i = 1 \/ i = 2
  OBVIOUS
<1>6. Len(q) = 2 /\ \A i \in 1 .. Len(p) : p[i] = q[i]
  BY <1>1, <1>2, <1>3, <1>4, <1>5
<1>7. p = q
  BY <1>1, <1>2, <1>6, SeqEqual
<1> QED BY <1>7 DEF p, q

LEMMA CountTwo ==
  ASSUME NEW v, NEW w
  PROVE  Count(<<v, w>>) = Weight(v) + Weight(w)
<1>1. <<v, w>> = <<v>> \o <<w>>
  BY Pair
<1>2. Row(<<v>>) /\ Row(<<w>>)
  BY RowSmall
<1>3. Count(<<v>> \o <<w>>) = Count(<<v>>) + Count(<<w>>)
  BY <1>2, CountConcat
<1> QED BY <1>1, <1>3, CountOne

\* What is popped and what is left.
LEMMA CountPop ==
  ASSUME NEW s, Row(s), NEW n \in Nat, n <= Len(s)
  PROVE  /\ Row(SubSeq(s, 1, Len(s) - n)) /\ Row(SubSeq(s, Len(s) - n + 1, Len(s)))
         /\ Count(s) = Count(SubSeq(s, 1, Len(s) - n))
                       + Count(SubSeq(s, Len(s) - n + 1, Len(s)))
<1>1. PICK S : s \in Seq(S)
  BY DEF Row
<1> DEFINE k == Len(s) - n
<1>2. /\ Len(s) \in Nat /\ k \in Int /\ 1 \in 1 .. Len(s) + 1 /\ k \in 1 - 1 .. Len(s)
      /\ Len(s) \in k .. Len(s) /\ 1 <= k + 1 /\ k <= Len(s)
  BY <1>1
<1> HIDE DEF k
<1>3. SubSeq(s, 1, k) \o SubSeq(s, k + 1, Len(s)) = SubSeq(s, 1, Len(s))
  BY <1>1, <1>2, ConcatAdjacentSubSeq
<1>4. SubSeq(s, 1, Len(s)) = s
  BY <1>1, SubSeqFull
<1>5. Row(SubSeq(s, 1, k)) /\ Row(SubSeq(s, k + 1, Len(s)))
  BY <1>2, RowPart
<1>6. Count(SubSeq(s, 1, k) \o SubSeq(s, k + 1, Len(s)))
        = Count(SubSeq(s, 1, k)) + Count(SubSeq(s, k + 1, Len(s)))
  BY <1>5, CountConcat
<1> QED BY <1>3, <1>4, <1>5, <1>6 DEF k

LEMMA TopOne ==
  ASSUME NEW s, Row(s), Len(s) >= 1
  PROVE  SubSeq(s, Len(s) - 1 + 1, Len(s)) = <<s[Len(s)]>>
<1>1. PICK S : s \in Seq(S)
  BY DEF Row
<1>2. Len(s) \in 1 .. Len(s) /\ Len(s) - 1 + 1 = Len(s)
  BY <1>1
<1>3. SubSeq(s, Len(s), Len(s)) = <<s[Len(s)]>> \o SubSeq(s, Len(s) + 1, Len(s))
  BY <1>1, <1>2, SubSeqRecursiveFirst
<1>4. SubSeq(s, Len(s) + 1, Len(s)) = <<>>
  BY <1>2, SubSeqEmpty
<1>5. <<s[Len(s)]>> \in Seq({s[Len(s)]})
  OBVIOUS
<1>6. <<s[Len(s)]>> \o <<>> = <<s[Len(s)]>>
  BY <1>5, ConcatEmptySeq
<1> QED BY <1>2, <1>3, <1>4, <1>6, Zenon

LEMMA TopTwo ==
  ASSUME NEW s, Row(s), Len(s) >= 2
  PROVE  SubSeq(s, Len(s) - 2 + 1, Len(s)) = <<s[Len(s) - 1], s[Len(s)]>>
<1>1. PICK S : s \in Seq(S)
  BY DEF Row
<1> DEFINE k == Len(s) - 1
<1>2. /\ k \in 1 .. Len(s) /\ Len(s) \in k .. Len(s) /\ Len(s) - 2 + 1 = k
      /\ k + 1 = Len(s) /\ Len(s) >= 1 /\ Len(s) - 1 + 1 = Len(s)
  BY <1>1
<1> HIDE DEF k
<1>3. SubSeq(s, k, Len(s)) = <<s[k]>> \o SubSeq(s, k + 1, Len(s))
  BY <1>1, <1>2, SubSeqRecursiveFirst
<1>4. SubSeq(s, k + 1, Len(s)) = <<s[Len(s)]>>
  BY <1>2, TopOne, Zenon
<1>5. <<s[k]>> \o <<s[Len(s)]>> = <<s[k], s[Len(s)]>>
  BY Pair
<1> QED BY <1>2, <1>3, <1>4, <1>5, Zenon DEF k

-----------------------------------------------------------------------------
(* No operator frees more strings than it takes off, less what it leaves.  *)

Pays(e, taken) == e.strings \in Int /\ Weight(e.v) <= taken + e.strings

LEMMA ValueOnes ==
  /\ \A n : Weight(Num(n)) = 0
  /\ \A s : Weight(Str(s)) = 1
  /\ \A b : Weight(Bool(b)) = 0
  /\ Weight(Nil) = 0
  /\ \A v : Freed(v) = - Weight(v) /\ Freed(v) \in Int /\ Weight(v) \in 0 .. 1
BY DEF Weight, Num, Str, Bool, Nil, Freed, IsStr

LEMMA GivesPays ==
  ASSUME NEW v, NEW n \in Int, NEW taken \in Int, Weight(v) <= taken + n
  PROVE  Pays(Gives(v, n), taken)
BY DEF Pays, Gives

LEMMA UnaryPays ==
  ASSUME NEW op \in UnaryOp, NEW v
  PROVE  Pays(Unary(op, v), Weight(v))
<1> DEFINE one == Weight(v)
<1>1. one \in 0 .. 1 /\ Freed(v) = - one /\ Freed(v) \in Int
  BY ValueOnes
<1>2. CASE op = "neg"
  <2>1. Unary(op, v) = Negate(v)
    BY <1>2 DEF Unary
  <2>2. Weight(IF v.type = "int" THEN Num(Wrap(-v.i)) ELSE v) <= one + 0
    BY <1>1, ValueOnes
  <2> QED BY <1>1, <2>1, <2>2, GivesPays DEF Negate
<1>3. CASE op = "not"
  <2>1. Unary(op, v) = LogicalNot(v)
    BY <1>3 DEF Unary
  <2>2. \A b : Pays(Gives(Bool(b), Freed(v)), one)
    BY <1>1, ValueOnes, GivesPays
  <2> QED BY <2>1, <2>2 DEF LogicalNot
<1>4. CASE op = "if"
  <2>1. Unary(op, v) = JumpFalse(v)
    BY <1>4 DEF Unary
  <2>2. \A b : Pays(Gives(Bool(b), Freed(v)), one) /\ Pays(Gives(Bool(b), 0), one)
    BY <1>1, ValueOnes, GivesPays
  <2>3. \A b : Pays(Gives(Bool(b), IF b THEN Freed(v) ELSE 0), one)
    BY <2>2
  <2> QED BY <2>1, <2>3 DEF JumpFalse
<1>5. CASE op \in {"upper", "lower", "capitalise"}
  <2>1. \E changed : Unary(op, v) = Letters(v, changed)
    BY <1>5 DEF Unary, Upper, Lower, Capitalise
  <2>2. \A changed : Weight(IF IsStr(v) THEN Str(changed) ELSE Nil) <= one + 0
    BY <1>1, ValueOnes DEF Weight
  <2>3. \A changed : Pays(Letters(v, changed), one)
    BY <1>1, <2>2, GivesPays DEF Letters
  <2> QED BY <2>1, <2>3
<1> QED BY <1>2, <1>3, <1>4, <1>5 DEF UnaryOp

LEMMA BinaryPays ==
  ASSUME NEW op \in BinaryOp, NEW w, NEW v, NEW e \in Binary(op, w, v)
  PROVE  Pays(e, Weight(w) + Weight(v))
<1> DEFINE all == Weight(w) + Weight(v)
<1>1. /\ Weight(w) \in 0 .. 1 /\ Weight(v) \in 0 .. 1 /\ all \in Int /\ all >= 0
      /\ Freed(v) + Freed(w) = - all /\ Freed(v) + Freed(w) \in Int
  BY ValueOnes
<1> HIDE DEF all
<1> DEFINE both == Freed(v) + Freed(w)
<1>2. /\ 0 <= all + 0 /\ 0 <= all + both /\ both \in Int /\ all \in Int /\ 0 \in Int
  BY <1>1
<1> HIDE DEF both
<1>3. ASSUME NEW x, Weight(x) = 0 PROVE Pays(Gives(x, 0), all) /\ Pays(Gives(x, both), all)
  <2>1. Weight(x) <= all + 0 /\ Weight(x) <= all + both
    BY <1>2, <1>3
  <2> QED BY <1>2, <2>1, GivesPays
<1> USE DEF both
<1>4. \A b : Pays(Gives(Bool(b), 0), all) /\ Pays(Gives(Bool(b), Freed(v) + Freed(w)), all)
  BY <1>3, ValueOnes
<1>5. \A n : /\ Pays(Gives(Num(n), 0), all)
             /\ Pays(Gives(Num(n), Freed(v) + Freed(w)), all)
  BY <1>3, ValueOnes
<1>6. Pays(Gives(Nil, Freed(v) + Freed(w)), all)
  BY <1>1, ValueOnes, GivesPays
<1>7. CASE op = "+"
  <2>1. e \in Add(w, v)
    BY <1>7 DEF Binary
  <2>2. IsStr(v) /\ IsStr(w) => Pays(Gives(Str(w.s \o v.s), -1), all)
    <3>1. IsStr(v) /\ IsStr(w) => all = 2
      BY DEF Weight, all
    <3> QED BY <3>1, ValueOnes, GivesPays
  <2> QED BY <1>5, <1>6, <2>1, <2>2 DEF Add, all
<1>8. ASSUME NEW otherwise, NEW result,
             Pays(Gives(otherwise, Freed(v) + Freed(w)), all)
      PROVE  \A x \in Arithmetic(w, v, otherwise, result) : Pays(x, all)
  BY <1>5, <1>8 DEF Arithmetic
<1>9. CASE op \in {"-", "*", "/"}
  <2>1. \E otherwise \in {Nil, Num(0)} : \E result : e \in Arithmetic(w, v, otherwise, result)
    BY <1>9 DEF Binary, Subtract, Multiply, Divide
  <2> QED BY <1>5, <1>6, <1>8, <2>1 DEF all
<1>10. CASE op \in {"==", "!=", "<", "<=", ">", ">=", "and", "or"}
  <2>1. \E b : e = Gives(Bool(b), 0) \/ e = Gives(Bool(b), Freed(v) + Freed(w))
    BY <1>10 DEF Binary, Equal, NotEqual, LessThan, LessThanOrEqual, GreaterThan,
                GreaterThanOrEqual, Compare, LogicalAnd, LogicalOr
  <2> QED BY <1>4, <2>1 DEF all
<1> QED BY <1>7, <1>9, <1>10 DEF BinaryOp

-----------------------------------------------------------------------------
(* Every string on the stack is in memory.                                 *)

HeldInv == Row(stack) /\ strings \in Int /\ HeldIsThere

\* A number of values is popped and one pushed.
LEMMA LeavesHeld ==
  ASSUME HeldInv, NEW n \in Nat, n <= Len(stack), NEW v, NEW change \in Int,
         Leaves(n, v, change), first' = first,
         Weight(v) <= Count(SubSeq(stack, Len(stack) - n + 1, Len(stack))) + change
  PROVE  HeldInv'
<1> DEFINE left == SubSeq(stack, 1, Len(stack) - n)
           gone == SubSeq(stack, Len(stack) - n + 1, Len(stack))
<1>1. Row(left) /\ Row(gone) /\ Count(stack) = Count(left) + Count(gone)
  BY CountPop DEF HeldInv
<1>2. stack' = Append(left, v) /\ strings' = strings + change
  BY DEF Leaves, Pop
<1> HIDE DEF left
<1>3. /\ Count(Append(stack, first)) = Count(stack) + Weight(first)
      /\ Count(stack) \in Nat
  BY CountAppend DEF HeldInv
<1>4. Row(stack') /\ Count(stack') = Count(left) + Weight(v)
  BY <1>1, <1>2, RowAppend, CountAppend
<1>5. /\ Count(Append(stack', first)) = Count(stack') + Weight(first)
      /\ Count(stack') \in Nat
  BY <1>4, CountAppend
<1>6. Count(left) \in Nat /\ Count(gone) \in Nat /\ Weight(first) \in Nat /\ Weight(v) \in Nat
  BY <1>1, CountOfPlaces, ValueOnes, SMTT(30)
<1>7. Count(Append(stack, first)) <= strings /\ strings \in Int
  BY DEF HeldInv, HeldIsThere
<1> HIDE DEF gone
<1>8. Weight(v) <= Count(gone) + change
  BY DEF gone
<1>9. Count(stack') + Weight(first) <= strings + change
  BY <1>1, <1>3, <1>4, <1>6, <1>7, <1>8, SMTT(30)
<1>10. Count(Append(stack', first')) <= strings' /\ strings' \in Int
  BY <1>2, <1>5, <1>7, <1>9
<1> QED BY <1>4, <1>10 DEF HeldInv, HeldIsThere

LEMMA UnchangedHeld ==
  ASSUME HeldInv, UNCHANGED <<stack, strings, first>>
  PROVE  HeldInv'
BY DEF HeldInv, HeldIsThere, Count, Row, IsStr

LEMMA LenStack ==
  ASSUME HeldInv
  PROVE  Len(stack) \in Nat
BY CountOfPlaces DEF HeldInv

\* A value is pushed that was not there.
LEMMA PushHeld ==
  ASSUME HeldInv, NEW v, NEW change \in Int, Weight(v) <= change,
         stack' = Append(stack, v), strings' = strings + change, first' = first
  PROVE  HeldInv'
<1>1. Pop(0) = stack
  <2>1. PICK S : stack \in Seq(S)
    BY DEF HeldInv, Row
  <2>2. Len(stack) - 0 = Len(stack) /\ SubSeq(stack, 1, Len(stack)) = stack
    BY <2>1, SubSeqFull, LenStack
  <2> QED BY <2>2 DEF Pop
<1>2. Leaves(0, v, change)
  BY <1>1 DEF Leaves
<1>3. Len(stack) \in Nat /\ 0 <= Len(stack)
  BY LenStack
<1>4. SubSeq(stack, Len(stack) - 0 + 1, Len(stack)) = <<>>
  BY <1>3, SubSeqEmpty
<1>5. Count(<<>>) = 0
  <2>1. Places(<<>>) = {}
    BY RowSmall DEF Places
  <2> QED BY <2>1, RowSmall, CountOfPlaces, FS_EmptySet
<1>6. Weight(v) <= Count(SubSeq(stack, Len(stack) - 0 + 1, Len(stack))) + change
  <2>1. Count(SubSeq(stack, Len(stack) - 0 + 1, Len(stack))) = 0
    BY <1>4, <1>5, Zenon
  <2>2. Weight(v) <= 0 + change
    BY ValueOnes
  <2> QED BY <2>1, <2>2, Zenon
<1> QED BY <1>2, <1>3, <1>6, LeavesHeld

LEMMA EndNameHeld ==
  ASSUME HeldInv, EndName
  PROVE  HeldInv'
<1>1. first' = first
  BY DEF EndName, Runs
<1>2. \/ UNCHANGED <<stack, strings>>
      \/ /\ stack' = Append(stack, IF Inner.bad THEN Nil ELSE Str(Inner.text))
         /\ strings' = IF Inner.bad THEN strings ELSE strings + 1
  BY DEF EndName
<1>3. CASE UNCHANGED <<stack, strings>>
  BY <1>1, <1>3, UnchangedHeld
<1>4. CASE /\ stack' = Append(stack, IF Inner.bad THEN Nil ELSE Str(Inner.text))
           /\ strings' = IF Inner.bad THEN strings ELSE strings + 1
  <2>1. CASE Inner.bad
    <3>1. stack' = Append(stack, Nil) /\ strings' = strings + 0
      BY <1>4, <2>1 DEF HeldInv
    <3> QED BY <1>1, <3>1, ValueOnes, PushHeld
  <2>2. CASE ~Inner.bad
    <3>1. stack' = Append(stack, Str(Inner.text)) /\ strings' = strings + 1
      BY <1>4, <2>2
    <3>2. Weight(Str(Inner.text)) <= 1
      BY ValueOnes
    <3> QED BY <1>1, <3>1, <3>2, PushHeld
  <2> QED BY <2>1, <2>2
<1> QED BY <1>2, <1>3, <1>4

LEMMA PushValueHeld ==
  ASSUME HeldInv, PushValue
  PROVE  HeldInv'
<1>1. first' = first
  BY DEF PushValue, Steps, Runs
<1>2. UNCHANGED <<stack, strings>> \/ \E v : Leaves(0, v, Count(<<v>>))
  BY DEF PushValue
<1>3. CASE UNCHANGED <<stack, strings>>
  BY <1>1, <1>3, UnchangedHeld
<1>4. ASSUME NEW v, Leaves(0, v, Count(<<v>>)) PROVE HeldInv'
  <2>1. Count(<<v>>) = Weight(v) /\ Weight(v) \in Int
    BY CountOne, ValueOnes
  <2>2. 0 <= Len(stack) /\ Len(stack) \in Nat
    BY LenStack
  <2>3. Count(SubSeq(stack, Len(stack) - 0 + 1, Len(stack))) \in Nat
    BY <2>2, CountPop, CountOfPlaces DEF HeldInv
  <2>4. Weight(v) <= Count(SubSeq(stack, Len(stack) - 0 + 1, Len(stack))) + Count(<<v>>)
    BY <2>1, <2>3
  <2>5. Count(<<v>>) \in Int
    BY <2>1
  <2> QED BY <1>1, <1>4, <2>2, <2>4, <2>5, LeavesHeld
<1> QED BY <1>2, <1>3, <1>4

\* The last one or two values.
LEMMA TopCounts ==
  ASSUME HeldInv
  PROVE  /\ ~Lacks(1) => /\ 1 <= Len(stack)
                         /\ Count(SubSeq(stack, Len(stack) - 1 + 1, Len(stack))) = Weight(Top)
         /\ ~Lacks(2) => /\ 2 <= Len(stack)
                         /\ Count(SubSeq(stack, Len(stack) - 2 + 1, Len(stack)))
                              = Weight(Below) + Weight(Top)
<1>1. Len(stack) \in Nat /\ Row(stack)
  BY LenStack DEF HeldInv
<1>2. ~Lacks(1) => 1 <= Len(stack) /\ Len(stack) >= 1
  BY <1>1 DEF Lacks
<1>3. ~Lacks(2) => 2 <= Len(stack) /\ Len(stack) >= 2
  BY <1>1 DEF Lacks
<1>4. ASSUME ~Lacks(1)
      PROVE  Count(SubSeq(stack, Len(stack) - 1 + 1, Len(stack))) = Weight(Top)
  <2>1. SubSeq(stack, Len(stack) - 1 + 1, Len(stack)) = <<Top>>
    BY <1>1, <1>2, <1>4, TopOne DEF Top
  <2> QED BY <2>1, CountOne
<1>5. ASSUME ~Lacks(2)
      PROVE  Count(SubSeq(stack, Len(stack) - 2 + 1, Len(stack))) = Weight(Below) + Weight(Top)
  <2>1. SubSeq(stack, Len(stack) - 2 + 1, Len(stack)) = <<Below, Top>>
    BY <1>1, <1>3, <1>5, TopTwo DEF Top, Below
  <2> QED BY <2>1, CountTwo
<1> QED BY <1>2, <1>3, <1>4, <1>5

LEMMA OperateHeld ==
  ASSUME HeldInv, Operate
  PROVE  HeldInv'
<1>1. first' = first
  BY DEF Operate, Steps, Runs
<1>2. \/ UNCHANGED <<stack, strings>>
      \/ /\ Argument \in UnaryOp /\ ~Lacks(1)
         /\ Leaves(1, Unary(Argument, Top).v, Unary(Argument, Top).strings)
      \/ /\ Argument \in BinaryOp /\ ~Lacks(2)
         /\ \E e \in Binary(Argument, Below, Top) : Leaves(2, e.v, e.strings)
  BY DEF Operate, Underflow
<1>3. CASE UNCHANGED <<stack, strings>>
  BY <1>1, <1>3, UnchangedHeld
<1>4. CASE /\ Argument \in UnaryOp /\ ~Lacks(1)
           /\ Leaves(1, Unary(Argument, Top).v, Unary(Argument, Top).strings)
  <2> DEFINE e == Unary(Argument, Top)
  <2>1. Pays(e, Weight(Top))
    BY <1>4, UnaryPays
  <2>2. /\ 1 <= Len(stack)
        /\ Count(SubSeq(stack, Len(stack) - 1 + 1, Len(stack))) = Weight(Top)
    BY <1>4, TopCounts
  <2>3. Leaves(1, e.v, e.strings)
    BY <1>4
  <2> HIDE DEF e
  <2> QED BY <1>1, <2>1, <2>2, <2>3, LeavesHeld DEF Pays
<1>5. ASSUME Argument \in BinaryOp, ~Lacks(2), NEW e \in Binary(Argument, Below, Top),
             Leaves(2, e.v, e.strings)
      PROVE  HeldInv'
  <2>1. Pays(e, Weight(Below) + Weight(Top))
    BY <1>5, BinaryPays
  <2>2. /\ 2 <= Len(stack)
        /\ Count(SubSeq(stack, Len(stack) - 2 + 1, Len(stack))) = Weight(Below) + Weight(Top)
    BY <1>5, TopCounts
  <2> QED BY <1>1, <1>5, <2>1, <2>2, LeavesHeld DEF Pays
<1> QED BY <1>2, <1>3, <1>4, <1>5

LEMMA FetchItemHeld ==
  ASSUME ReadInv, HeldInv, FetchItem
  PROVE  HeldInv'
<1>1. first' = first
  BY DEF FetchItem, Steps, Runs
<1>2. Argument \in Nat
  <2>1. pc \in 1 .. Len(code) /\ code[pc][1] = "F"
    <3>1. pc <= Len(code) /\ code[pc][1] = "F"
      BY DEF FetchItem, Steps, Runs
    <3>2. Len(code) \in Nat /\ pc \in Nat \ {0}
      BY DEF ReadInv, IsCode, Row
    <3> QED BY <3>1, <3>2
  <2> QED BY <2>1 DEF ReadInv, IsCode, Argument
<1>3. \/ UNCHANGED <<stack, strings>>
      \/ \E args \in {Argument, 0} : \E v :
           /\ ~Lacks(1 + args)
           /\ Leaves(1 + args, v,
                     Count(<<v>>) - Count(SubSeq(stack, Len(stack) - args, Len(stack))))
  BY DEF FetchItem, Underflow
<1>4. CASE UNCHANGED <<stack, strings>>
  BY <1>1, <1>4, UnchangedHeld
<1>5. ASSUME NEW args \in {Argument, 0}, NEW v, ~Lacks(1 + args),
             Leaves(1 + args, v,
                    Count(<<v>>) - Count(SubSeq(stack, Len(stack) - args, Len(stack))))
      PROVE  HeldInv'
  <2> DEFINE n == 1 + args
             gone == SubSeq(stack, Len(stack) - n + 1, Len(stack))
  <2>1. /\ n \in Nat /\ n <= Len(stack) /\ Len(stack) \in Nat
        /\ Len(stack) - args = Len(stack) - n + 1
    BY <1>2, <1>5, LenStack DEF Lacks
  <2>2. Leaves(n, v, Count(<<v>>) - Count(gone))
    BY <1>5, <2>1
  <2>3. Count(gone) \in Nat
    BY <2>1, CountPop, CountOfPlaces DEF HeldInv
  <2>4. Count(<<v>>) = Weight(v) /\ Weight(v) \in Int
    BY CountOne, ValueOnes
  <2> HIDE DEF n
  <2>5. /\ Count(<<v>>) - Count(gone) \in Int
        /\ Weight(v) <= Count(gone) + (Count(<<v>>) - Count(gone))
    <3> HIDE DEF gone
    <3> QED BY <2>3, <2>4
  <2> QED BY <1>1, <2>1, <2>2, <2>5, LeavesHeld
<1> QED BY <1>3, <1>4, <1>5

LEMMA ExistsHeld ==
  ASSUME HeldInv, Exists
  PROVE  HeldInv'
<1>1. first' = first
  BY DEF Exists, Steps, Runs
<1>2. \/ UNCHANGED <<stack, strings>>
      \/ ~Lacks(1) /\ IsStr(Top) /\ \E b : Leaves(1, Bool(b), -1)
  BY DEF Exists, Underflow
<1>3. CASE UNCHANGED <<stack, strings>>
  BY <1>1, <1>3, UnchangedHeld
<1>4. ASSUME ~Lacks(1), IsStr(Top), NEW b, Leaves(1, Bool(b), -1) PROVE HeldInv'
  <2>1. 1 <= Len(stack) /\ Count(SubSeq(stack, Len(stack) - 1 + 1, Len(stack))) = 1
    BY <1>4, TopCounts DEF Weight
  <2>2. Weight(Bool(b)) <= 1 + -1
    BY ValueOnes
  <2> QED BY <1>1, <1>4, <2>1, <2>2, LeavesHeld
<1> QED BY <1>2, <1>3, <1>4

LEMMA DeleteHeld ==
  ASSUME HeldInv, Delete
  PROVE  HeldInv'
<1>1. first' = first
  BY DEF Delete, Steps, Runs
<1>2. \/ UNCHANGED <<stack, strings>>
      \/ ~Lacks(1) /\ IsStr(Top) /\ stack' = Pop(1) /\ strings' = strings - 1
  <2>1. CASE fault' = "none"
    <3>1. ~Lacks(1) /\ IsStr(Top)
      BY <2>1 DEF Delete
    <3> QED BY <2>1, <3>1 DEF Delete
  <2>2. CASE fault' # "none"
    BY <2>2 DEF Delete
  <2> QED BY <2>1, <2>2
<1>3. CASE UNCHANGED <<stack, strings>>
  BY <1>1, <1>3, UnchangedHeld
<1>4. CASE ~Lacks(1) /\ IsStr(Top) /\ stack' = Pop(1) /\ strings' = strings - 1
  <2>1. 1 <= Len(stack) /\ Count(SubSeq(stack, Len(stack) - 1 + 1, Len(stack))) = 1
    BY <1>4, TopCounts DEF Weight
  <2>2. Row(stack') /\ Count(stack) = Count(stack') + 1
    BY <1>4, <2>1, CountPop DEF Pop, HeldInv
  <2>3. /\ Count(Append(stack, first)) = Count(stack) + Weight(first)
        /\ Count(Append(stack', first)) = Count(stack') + Weight(first)
        /\ Count(stack) \in Nat /\ Count(stack') \in Nat /\ Weight(first) \in Int
    BY <2>2, CountAppend, ValueOnes DEF HeldInv
  <2>4. Count(Append(stack, first)) <= strings /\ strings \in Int
    BY DEF HeldInv, HeldIsThere
  <2>5. Count(Append(stack', first')) <= strings' /\ strings' \in Int
    BY <1>1, <1>4, <2>2, <2>3, <2>4
  <2> QED BY <2>2, <2>5 DEF HeldInv, HeldIsThere
<1> QED BY <1>2, <1>3, <1>4

LEMMA NthNameHeld ==
  ASSUME HeldInv, NthName
  PROVE  HeldInv'
<1>1. first' = first
  BY DEF NthName, Steps, Runs
<1>2. \/ UNCHANGED <<stack, strings>>
      \/ ~Lacks(2) /\ \E v : Leaves(2, v, Count(<<v>>) - Count(<<Top, Below>>))
  BY DEF NthName, Underflow
<1>3. CASE UNCHANGED <<stack, strings>>
  BY <1>1, <1>3, UnchangedHeld
<1>4. ASSUME ~Lacks(2), NEW v, Leaves(2, v, Count(<<v>>) - Count(<<Top, Below>>))
      PROVE  HeldInv'
  <2> DEFINE all == Weight(Below) + Weight(Top)
             change == Count(<<v>>) - Count(<<Top, Below>>)
  <2>1. /\ 2 <= Len(stack)
        /\ Count(SubSeq(stack, Len(stack) - 2 + 1, Len(stack))) = all
    BY <1>4, TopCounts
  <2>2. Count(<<v>>) = Weight(v) /\ Count(<<Top, Below>>) = Weight(Top) + Weight(Below)
    BY CountOne, CountTwo
  <2>3. Weight(v) \in Int /\ Weight(Top) \in Int /\ Weight(Below) \in Int
    BY ValueOnes
  <2>4. change \in Int /\ Weight(v) <= all + change
    BY <2>2, <2>3
  <2>5. Leaves(2, v, change)
    BY <1>4
  <2> HIDE DEF all, change
  <2> QED BY <1>1, <2>1, <2>4, <2>5, LeavesHeld
<1> QED BY <1>2, <1>3, <1>4

LEMMA RootNameHeld ==
  ASSUME HeldInv, RootName
  PROVE  HeldInv'
<1>1. first' = first
  BY DEF RootName, Steps, Runs
<1>2. \/ UNCHANGED <<stack, strings>>
      \/ ~Lacks(1) /\ \E v : Leaves(1, v, Count(<<v>>) - Count(<<Top>>))
  BY DEF RootName, Underflow
<1>3. CASE UNCHANGED <<stack, strings>>
  BY <1>1, <1>3, UnchangedHeld
<1>4. ASSUME ~Lacks(1), NEW v, Leaves(1, v, Count(<<v>>) - Count(<<Top>>))
      PROVE  HeldInv'
  <2> DEFINE change == Count(<<v>>) - Count(<<Top>>)
  <2>1. /\ 1 <= Len(stack)
        /\ Count(SubSeq(stack, Len(stack) - 1 + 1, Len(stack))) = Weight(Top)
    BY <1>4, TopCounts
  <2>2. Count(<<v>>) = Weight(v) /\ Count(<<Top>>) = Weight(Top)
    BY CountOne
  <2>3. Weight(v) \in Int /\ Weight(Top) \in Int
    BY ValueOnes
  <2>4. change \in Int /\ Weight(v) <= Weight(Top) + change
    BY <2>2, <2>3
  <2>5. Leaves(1, v, change)
    BY <1>4
  <2> HIDE DEF change
  <2> QED BY <1>1, <2>1, <2>4, <2>5, LeavesHeld
<1> QED BY <1>2, <1>3, <1>4

LEMMA TurnHeld ==
  ASSUME HeldInv, Turn
  PROVE  HeldInv'
<1>1. /\ first = None /\ first' = (IF Lacks(1) THEN Nil ELSE Top)
      /\ stack' = Pop(1) /\ strings' = strings
  BY DEF Turn
<1>2. Weight(first) = 0
  BY <1>1 DEF None, Weight, IsStr
<1>3. /\ Count(Append(stack, first)) = Count(stack) + Weight(first)
      /\ Count(stack) \in Nat /\ Len(stack) \in Nat
  BY CountAppend, LenStack DEF HeldInv
<1>4. Count(stack) <= strings /\ strings \in Int
  BY <1>2, <1>3 DEF HeldInv, HeldIsThere
<1>5. CASE Lacks(1)
  <2>1. Len(stack) = 0
    BY <1>3, <1>5 DEF Lacks
  <2>2. stack' = <<>>
    BY <1>1, <2>1, SubSeqEmpty DEF Pop
  <2>3. Row(stack') /\ Count(stack') = 0
    <3>1. Places(<<>>) = {}
      BY RowSmall DEF Places
    <3> QED BY <2>2, <3>1, RowSmall, CountOfPlaces, FS_EmptySet
  <2>4. Count(Append(stack', first')) = 0
    <3>1. Weight(first') = 0
      BY <1>1, <1>5, ValueOnes
    <3> QED BY <2>3, <3>1, CountAppend
  <2> QED BY <1>1, <1>3, <1>4, <2>3, <2>4 DEF HeldInv, HeldIsThere
<1>6. CASE ~Lacks(1)
  <2>1. /\ 1 <= Len(stack)
        /\ Count(SubSeq(stack, Len(stack) - 1 + 1, Len(stack))) = Weight(Top)
    BY <1>6, TopCounts
  <2>2. Row(stack') /\ Count(stack) = Count(stack') + Weight(Top)
    BY <1>1, <2>1, CountPop DEF Pop, HeldInv
  <2>3. Count(Append(stack', first')) = Count(stack') + Weight(Top)
    BY <1>1, <1>6, <2>2, CountAppend
  <2> QED BY <1>1, <1>4, <2>2, <2>3 DEF HeldInv, HeldIsThere
<1> QED BY <1>5, <1>6

LEMMA InitHeld ==
  ASSUME Init
  PROVE  HeldInv
<1>1. Row(stack)
  BY RowSmall DEF Init
<1>2. Count(stack) = 0
  <2>1. Places(<<>>) = {}
    BY RowSmall DEF Places
  <2> QED BY <2>1, RowSmall, CountOfPlaces, FS_EmptySet DEF Init
<1>3. Weight(first) = 0
  BY DEF Init, None, Weight, IsStr
<1>4. Count(Append(stack, first)) = 0
  BY <1>1, <1>2, <1>3, CountAppend
<1> QED BY <1>1, <1>4 DEF Init, HeldInv, HeldIsThere

LEMMA StepHeld ==
  ASSUME ReadInv, HeldInv, [Next]_vars
  PROVE  HeldInv'
<1>1. CASE Compile
  <2>1. UNCHANGED <<stack, strings, first>>
    BY <1>1 DEF Compile, Reads, BeginItem, EmitLayer, CountArg, FinishItem, Emit
  <2> QED BY <2>1, UnchangedHeld
<1>2. CASE BeginName \/ AddLayer \/ AddLocal \/ BeginInner
  <2>1. UNCHANGED <<stack, strings, first>>
    BY <1>2 DEF BeginName, AddLayer, AddLocal, BeginInner, Runs
  <2> QED BY <2>1, UnchangedHeld
<1>3. CASE Evaluate
  BY <1>3, PushValueHeld, OperateHeld, FetchItemHeld, ExistsHeld, DeleteHeld,
     NthNameHeld, RootNameHeld DEF Evaluate
<1>4. CASE UNCHANGED vars
  BY <1>4, UnchangedHeld DEF vars
<1> QED BY <1>1, <1>2, <1>3, <1>4, EndNameHeld, TurnHeld DEF Next, Assemble

\* Whatever a source does, well-formed or rough, no operator frees a string
\* that is still a value on the stack, or frees one twice: the strings in
\* memory are at least as many as those on the stack, the value of the left
\* source among them (interpret.c: every op_ function that takes a value off).
THEOREM StringsAreHeld == Spec => []HeldIsThere
<1>1. Init => ReadInv /\ HeldInv
  BY InitRead, InitHeld
<1>2. ReadInv /\ HeldInv /\ [Next]_vars => (ReadInv /\ HeldInv)'
  BY StepRead, StepHeld
<1>3. ReadInv /\ HeldInv => HeldIsThere
  BY DEF HeldInv
<1> QED BY <1>1, <1>2, <1>3, PTL DEF Spec

-----------------------------------------------------------------------------
(* Numbers of any width.                                                   *)

Size == 2 ^ Width

\* They make the same word.
Congruent(x, y) == \E k \in Int : x = y + k * Size

LEMMA Sizes ==
  /\ Size \in Nat \ {0} /\ Smallest \in Int /\ Smallest < 0 /\ Size = -2 * Smallest
  /\ Word = Smallest .. -Smallest - 1
<1> DEFINE h == 2 ^ (Width - 1)
<1>1. h \in Nat \ {0} /\ Size = 2 * h
  BY PowerAssumption DEF Size
<1>2. Smallest = -h
  BY DEF Smallest
<1> HIDE DEF h
<1> QED BY <1>1, <1>2 DEF Word

LEMMA WrapIs ==
  ASSUME NEW n \in Int
  PROVE  Wrap(n) \in Word /\ Congruent(Wrap(n), n)
<1> DEFINE a == n - Smallest
           q == a \div Size
           r == a % Size
<1>1. a \in Int
  BY Sizes
<1>2. Wrap(n) = r + Smallest
  BY DEF Wrap, Size
<1> HIDE DEF a
<1>3. r \in 0 .. Size - 1 /\ q \in Int /\ a = Size * q + r
  BY <1>1, Sizes
<1> HIDE DEF r, q
<1>4. Wrap(n) \in Word
  BY <1>2, <1>3, Sizes
<1>5. Wrap(n) = n + (-q) * Size
  <2>1. r = a - Size * q
    BY <1>1, <1>3, Sizes
  <2>2. (-q) * Size = - (Size * q)
    BY <1>3, Sizes
  <2> QED BY <1>2, <1>3, <2>1, <2>2, Sizes DEF a
<1>6. -q \in Int
  BY <1>3
<1> QED BY <1>4, <1>5, <1>6 DEF Congruent

LEMMA SmallMultiple ==
  ASSUME NEW d \in Int, NEW m \in Nat \ {0}, d * m < m, -m < d * m
  PROVE  d = 0
<1>1. CASE d >= 1
  <2>1. (d - 1) * m >= 0
    BY <1>1
  <2>2. (d - 1) * m = d * m - m
    OBVIOUS
  <2> QED BY <2>1, <2>2
<1>2. CASE d <= -1
  <2>1. (-1 - d) * m >= 0
    BY <1>2
  <2>2. (-1 - d) * m = -m - d * m
    OBVIOUS
  <2> QED BY <2>1, <2>2
<1> QED BY <1>1, <1>2

LEMMA WordUnique ==
  ASSUME NEW x \in Word, NEW y \in Word, Congruent(x, y)
  PROVE  x = y
<1>1. PICK k \in Int : x = y + k * Size
  BY DEF Congruent
<1> DEFINE p == k * Size
<1>2. p \in Int
  BY Sizes
<1>3. x \in Int /\ y \in Int /\ x - y < Size /\ - Size < x - y
  BY Sizes
<1> HIDE DEF p
<1>4. p < Size /\ - Size < p
  BY <1>1, <1>2, <1>3, Sizes DEF p
<1>5. k = 0
  BY <1>4, SmallMultiple, Sizes DEF p
<1> QED BY <1>1, <1>3, <1>5, Sizes

LEMMA CongruentChain ==
  ASSUME NEW x \in Int, NEW y \in Int, NEW z \in Int
  PROVE  /\ Congruent(x, x)
         /\ Congruent(x, y) => Congruent(y, x)
         /\ Congruent(x, y) /\ Congruent(y, z) => Congruent(x, z)
<1> DEFINE m == Size
<1>1. m \in Int
  BY Sizes
<1> HIDE DEF m
<1>2. x = x + 0 * m
  BY <1>1
<1>3. ASSUME NEW k \in Int, x = y + k * m PROVE -k \in Int /\ y = x + (-k) * m
  BY <1>1, <1>3
<1>4. ASSUME NEW k \in Int, NEW j \in Int, x = y + k * m, y = z + j * m
      PROVE  k + j \in Int /\ x = z + (k + j) * m
  <2>1. (k + j) * m = k * m + j * m
    BY <1>1
  <2> QED BY <1>1, <1>4, <2>1
<1> QED BY <1>2, <1>3, <1>4 DEF Congruent, m

\* Sums, differences and products of words may be cut off at any time.
LEMMA CongruentSum ==
  ASSUME NEW x \in Int, NEW y \in Int, NEW z \in Int, Congruent(x, y)
  PROVE  /\ Congruent(x + z, y + z) /\ Congruent(z + x, z + y)
         /\ Congruent(x - z, y - z) /\ Congruent(z - x, z - y)
         /\ Congruent(-x, -y)
<1> DEFINE m == Size
<1>1. m \in Int
  BY Sizes
<1>2. PICK k \in Int : x = y + k * m
  BY DEF Congruent
<1> HIDE DEF m
<1> DEFINE p == k * m
<1>3. p \in Int /\ (-k) * m = -p /\ -k \in Int
  BY <1>1
<1> HIDE DEF p
<1>4. x = y + p
  BY <1>2 DEF p
<1>5. /\ x + z = y + z + p /\ z + x = z + y + p
      /\ x - z = y - z + p /\ z - x = z - y + -p /\ -x = -y + -p
  BY <1>3, <1>4
<1>6. /\ x + z = y + z + k * m /\ z + x = z + y + k * m /\ x - z = y - z + k * m
      /\ z - x = z - y + (-k) * m /\ -x = -y + (-k) * m
  BY <1>3, <1>5 DEF p
<1> QED BY <1>3, <1>6 DEF Congruent, m

LEMMA WrapEqual ==
  ASSUME NEW n \in Int, NEW l \in Int, Congruent(n, l)
  PROVE  Wrap(n) = Wrap(l)
<1>1. /\ Wrap(n) \in Word /\ Congruent(Wrap(n), n)
      /\ Wrap(l) \in Word /\ Congruent(Wrap(l), l)
  BY WrapIs
<1>2. Wrap(n) \in Int /\ Wrap(l) \in Int
  BY <1>1, Sizes
<1>3. Congruent(Wrap(n), l)
  BY <1>1, <1>2, CongruentChain
<1>4. Congruent(l, Wrap(l))
  BY <1>1, <1>2, CongruentChain
<1>5. Congruent(Wrap(n), Wrap(l))
  BY <1>2, <1>3, <1>4, CongruentChain
<1> QED BY <1>1, <1>5, WordUnique

LEMMA WrapWord ==
  ASSUME NEW n \in Word
  PROVE  Wrap(n) = n
<1>1. n \in Int
  BY Sizes
<1> QED BY <1>1, WrapIs, WordUnique

LEMMA WordInt == Word \subseteq Int
BY Sizes

\* The laws of arithmetic in two's complement.
LEMMA WordLaws ==
  ASSUME NEW a \in Word, NEW b \in Word, NEW c \in Word
  PROVE  /\ Wrap(Wrap(a + b) - b) = a
         /\ Wrap(a - b) = Wrap(- Wrap(b - a))
         /\ Wrap(Wrap(a + b) + c) = Wrap(Wrap(b + c) + a)
         /\ Wrap(a * b) = Wrap(b * a)
<1>1. a \in Int /\ b \in Int /\ c \in Int /\ a + b \in Int /\ b - a \in Int /\ b + c \in Int
  BY WordInt
<1>2. /\ Wrap(a + b) \in Int /\ Wrap(b - a) \in Int /\ Wrap(b + c) \in Int
      /\ Congruent(Wrap(a + b), a + b) /\ Congruent(Wrap(b - a), b - a)
      /\ Congruent(Wrap(b + c), b + c)
  BY <1>1, WrapIs, WordInt
<1>3. Wrap(Wrap(a + b) - b) = a
  <2>1. Congruent(Wrap(a + b) - b, a + b - b)
    BY <1>1, <1>2, CongruentSum
  <2>2. a + b - b = a
    BY <1>1
  <2>3. Congruent(Wrap(a + b) - b, a)
    BY <2>1, <2>2, Zenon
  <2>4. Wrap(Wrap(a + b) - b) = Wrap(a)
    BY <1>1, <1>2, <2>3, WrapEqual
  <2> QED BY <2>4, WrapWord
<1>4. Wrap(a - b) = Wrap(- Wrap(b - a))
  <2>1. Congruent(- Wrap(b - a), -(b - a))
    BY <1>1, <1>2, CongruentSum
  <2>2. -(b - a) = a - b
    BY <1>1
  <2>3. Congruent(- Wrap(b - a), a - b)
    BY <2>1, <2>2, Zenon
  <2>4. - Wrap(b - a) \in Int /\ a - b \in Int
    BY <1>1, <1>2
  <2> QED BY <2>3, <2>4, WrapEqual
<1>5. Wrap(Wrap(a + b) + c) = Wrap(Wrap(b + c) + a)
  <2>1. /\ Congruent(Wrap(a + b) + c, a + b + c)
        /\ Congruent(Wrap(b + c) + a, b + c + a)
    BY <1>1, <1>2, CongruentSum
  <2>2. b + c + a = a + b + c /\ a + b + c \in Int
    BY <1>1
  <2>3. Congruent(Wrap(b + c) + a, a + b + c)
    BY <2>1, <2>2, Zenon
  <2>4. Wrap(a + b) + c \in Int /\ Wrap(b + c) + a \in Int
    BY <1>1, <1>2
  <2>5. /\ Wrap(Wrap(a + b) + c) = Wrap(a + b + c)
        /\ Wrap(Wrap(b + c) + a) = Wrap(a + b + c)
    BY <2>1, <2>2, <2>3, <2>4, WrapEqual
  <2> QED BY <2>5
<1>6. a * b = b * a
  BY <1>1
<1> QED BY <1>3, <1>4, <1>5, <1>6

LEMMA DivBound ==
  ASSUME NEW k \in Nat, NEW l \in Nat \ {0}
  PROVE  k \div l \in 0 .. k
<1> DEFINE q == k \div l
           r == k % l
<1>1. q \in Int /\ r \in 0 .. l - 1 /\ k = l * q + r
  OBVIOUS
<1> HIDE DEF q, r
<1>2. q >= 0
  <2>1. SUFFICES ASSUME q <= -1 PROVE FALSE
    BY <1>1
  <2>2. l * (-1 - q) >= 0
    BY <1>1, <2>1
  <2>3. l * (-1 - q) = -l - l * q
    BY <1>1
  <2> QED BY <1>1, <2>2, <2>3
<1>3. q <= k
  <2>1. (l - 1) * q >= 0
    BY <1>1, <1>2
  <2>2. (l - 1) * q = l * q - q
    BY <1>1
  <2> QED BY <1>1, <1>2, <2>1, <2>2
<1> QED BY <1>1, <1>2, <1>3 DEF q

Abs(k) == IF k < 0 THEN -k ELSE k

LEMMA QuotientLaw ==
  ASSUME NEW a \in Word, NEW b \in Word, a # Smallest
  PROVE  /\ Wrap(-a) = -a /\ -a \in Word
         /\ Quotient(-a, b) = Wrap(- Quotient(a, b))
<1>1. a \in Int /\ b \in Int /\ -a \in Word
  BY Sizes
<1>2. Wrap(-a) = -a
  BY <1>1, WrapWord
<1>3. Wrap(0) = 0
  BY WrapWord, Sizes
<1> DEFINE q == Abs(a) \div Abs(b)
<1>4. Abs(-a) = Abs(a) /\ Abs(a) \in Nat /\ Abs(a) <= -Smallest - 1
  BY <1>1, Sizes DEF Abs
<1>5. b # 0 => Abs(b) \in Nat \ {0}
  BY <1>1 DEF Abs
<1>6. b # 0 => q \in 0 .. Abs(a)
  BY <1>4, <1>5, DivBound
<1>7. b # 0 => q \in Word /\ -q \in Word /\ q \in Int
  BY <1>4, <1>6, Sizes
<1>8. b # 0 => Wrap(q) = q /\ Wrap(-q) = -q
  BY <1>7, WrapWord
<1>9. /\ b = 0 => Quotient(a, b) = 0 /\ Quotient(-a, b) = 0
      /\ b # 0 /\ (a < 0) = (b < 0) => Quotient(a, b) = Wrap(q)
      /\ b # 0 /\ (a < 0) # (b < 0) => Quotient(a, b) = -q
      /\ b # 0 /\ (-a < 0) = (b < 0) => Quotient(-a, b) = Wrap(q)
      /\ b # 0 /\ (-a < 0) # (b < 0) => Quotient(-a, b) = -q
  BY <1>4 DEF Quotient, Abs
<1> HIDE DEF q
<1>10. -0 = 0
  <2>1. \A z \in Int : z = 0 => -z \in Int /\ -z >= 0 /\ -z <= 0
    OBVIOUS
  <2>2. \A y \in Int : y >= 0 /\ y <= 0 => y = 0
    OBVIOUS
  <2>3. 0 \in Int
    OBVIOUS
  <2> QED BY <2>1, <2>2, <2>3, Zenon
<1>11. ASSUME b = 0 PROVE Quotient(-a, b) = Wrap(- Quotient(a, b))
  <2>1. Quotient(a, b) = 0 /\ Quotient(-a, b) = 0
    BY <1>9, <1>11
  <2> QED BY <1>3, <1>10, <2>1, Zenon
<1>12. ASSUME b # 0, a = 0 PROVE Quotient(-a, b) = Wrap(- Quotient(a, b))
  <2>1. q = 0
    BY <1>6, <1>12 DEF Abs
  <2>2. Quotient(a, b) = 0 /\ Quotient(-a, b) = 0
    BY <1>3, <1>9, <1>12, <2>1
  <2> QED BY <1>3, <1>10, <2>2, Zenon
<1>13. ASSUME b # 0, a # 0, (a < 0) = (b < 0)
       PROVE  Quotient(-a, b) = Wrap(- Quotient(a, b))
  <2>1. (-a < 0) # (b < 0)
    BY <1>1, <1>13
  <2>2. Quotient(a, b) = Wrap(q)
    BY <1>9, <1>13
  <2>3. Quotient(-a, b) = -q
    BY <1>9, <1>13, <2>1
  <2>4. Wrap(q) = q /\ Wrap(-q) = -q
    BY <1>8, <1>13
  <2> QED BY <2>2, <2>3, <2>4, Zenon
<1>14. ASSUME b # 0, a # 0, (a < 0) # (b < 0)
       PROVE  Quotient(-a, b) = Wrap(- Quotient(a, b))
  <2>1. (-a < 0) = (b < 0)
    BY <1>1, <1>14
  <2>2. Quotient(a, b) = -q
    BY <1>9, <1>14
  <2>3. Quotient(-a, b) = Wrap(q)
    BY <1>9, <1>14, <2>1
  <2>4. -(-q) = q
    BY <1>7, <1>14
  <2> QED BY <2>2, <2>3, <2>4, Zenon
<1> QED BY <1>1, <1>2, <1>11, <1>12, <1>13, <1>14

-----------------------------------------------------------------------------
(* The laws of the operators.                                              *)

Counted == {"int", "bool"}

\* Every effect that an operator may have leaves this value.
Yields(effects, v) == effects # {} /\ \A e \in effects : e.v = v

LEMMA NilIs ==
  ASSUME NEW v \in Nils
  PROVE  v.type = "nil" /\ v.i \in Word /\ v = NilOf(v.i)
BY LeftAssumption, Sizes DEF Nils, NilOf, Nil

\* What two values without letters are.
LEMMA ValueIs ==
  ASSUME NEW v \in Value
  PROVE  \/ v.type = "int" /\ v.i \in Word /\ v = Num(v.i) /\ v \in Nums
         \/ v.type = "bool" /\ v.i \in {0, 1} /\ v = [type |-> "bool", i |-> v.i]
         \/ v.type = "nil" /\ v.i \in Word /\ v = NilOf(v.i) /\ v \in Nils
         \/ v.type = "str" /\ v = Str(v.s)
<1>1. CASE v \in Nums
  BY <1>1 DEF Nums, Num
<1>2. CASE v \in Strs
  BY <1>2 DEF Strs, Str
<1>3. CASE v \in Bools
  BY <1>3 DEF Bools, Bool
<1>4. CASE v \in Nils
  BY <1>4, NilIs
<1> QED BY <1>1, <1>2, <1>3, <1>4 DEF Value

LEMMA NumIs ==
  ASSUME NEW v \in Nums
  PROVE  v.type = "int" /\ v.i \in Word /\ v = Num(v.i) /\ ~IsStr(v)
BY DEF Nums, Num, IsStr

LEMMA BoolIs ==
  ASSUME NEW b \in BOOLEAN, NEW c \in BOOLEAN
  PROVE  /\ LogicalNot(Bool(b)).v = Bool(~b)
         /\ convert_to_bool(Bool(b)) = b
         /\ Bool(b) = Bool(c) <=> b = c
BY DEF LogicalNot, Bool, Gives, convert_to_bool

\* Comparisons and their opposites.
LEMMA ComparisonLaws ==
  ASSUME NEW a \in Value, NEW b \in Value
  PROVE  /\ ~IsNil(a) \/ ~IsNil(b) =>
              \A f \in Equal(a, b) : Yields(NotEqual(a, b), LogicalNot(f.v).v)
         /\ LessThan(a, b) = GreaterThan(b, a)
         /\ LessThanOrEqual(a, b) = GreaterThanOrEqual(b, a)
         /\ Same(b, a, Counted) =>
              /\ \A f \in GreaterThanOrEqual(a, b) :
                   Yields(LessThan(a, b), LogicalNot(f.v).v)
              /\ \A e \in LessThanOrEqual(a, b), f \in GreaterThanOrEqual(a, b) :
                   \A h \in Equal(a, b) : Yields(LogicalAnd(e.v, f.v), h.v)
<1>1. ASSUME ~IsNil(a) \/ ~IsNil(b), NEW e \in NotEqual(a, b), NEW f \in Equal(a, b)
      PROVE  e.v = LogicalNot(f.v).v
  <2> DEFINE same == Same(b, a, {"int", "str", "bool"}) /\ b = a
             other == b.type # a.type \/ (Same(b, a, {"int", "str", "bool"}) /\ b # a)
  <2>1. e.v = Bool(other) /\ f.v = Bool(same)
    BY DEF NotEqual, Equal, Gives
  <2>2. other <=> ~same
    BY <1>1, ValueIs DEF Same, IsNil
  <2>3. same \in BOOLEAN /\ other \in BOOLEAN
    BY DEF Same
  <2> HIDE DEF same, other
  <2> QED BY <2>1, <2>2, <2>3, BoolIs
<1>2. /\ Same(a, b, {"int", "bool"}) <=> Same(b, a, {"int", "bool"})
      /\ Same(a, b, {"int", "bool"}) => a.i \in Int /\ b.i \in Int
  BY ValueIs, WordInt DEF Same
<1>3. LessThan(a, b) = GreaterThan(b, a)
  BY <1>2 DEF LessThan, GreaterThan, Compare, Gives, Bool
<1>4. LessThanOrEqual(a, b) = GreaterThanOrEqual(b, a)
  BY <1>2 DEF LessThanOrEqual, GreaterThanOrEqual, Compare, Gives, Bool
<1>5. ASSUME Same(b, a, Counted), NEW e \in LessThan(a, b), NEW f \in GreaterThanOrEqual(a, b)
      PROVE  e.v = LogicalNot(f.v).v
  <2>1. e.v = Bool(a.i < b.i) /\ f.v = Bool(a.i >= b.i)
    BY <1>5 DEF LessThan, GreaterThanOrEqual, Compare, Gives, Counted, Bool
  <2>2. (a.i < b.i) <=> ~(a.i >= b.i)
    BY <1>2, <1>5 DEF Counted
  <2>3. (a.i < b.i) \in BOOLEAN /\ (a.i >= b.i) \in BOOLEAN
    BY <1>2, <1>5 DEF Counted
  <2> QED BY <2>1, <2>2, <2>3, BoolIs
<1>6. ASSUME Same(b, a, Counted),
             NEW e \in LessThanOrEqual(a, b), NEW f \in GreaterThanOrEqual(a, b),
             NEW g \in LogicalAnd(e.v, f.v), NEW h \in Equal(a, b)
      PROVE  g.v = h.v
  <2> DEFINE less == a.i <= b.i
             more == a.i >= b.i
             same == Same(b, a, {"int", "str", "bool"}) /\ b = a
  <2>1. e.v = Bool(less) /\ f.v = Bool(more) /\ h.v = Bool(same)
    BY <1>6 DEF LessThanOrEqual, GreaterThanOrEqual, Equal, Compare, Gives, Counted, Bool
  <2>2. g.v = Bool(convert_to_bool(f.v) /\ convert_to_bool(e.v))
    BY DEF LogicalAnd, Gives
  <2>3. less \in BOOLEAN /\ more \in BOOLEAN /\ same \in BOOLEAN
    BY <1>2, <1>6 DEF Counted, Same
  <2>4. (less /\ more) <=> same
    BY <1>2, <1>6, ValueIs DEF Counted, Same
  <2> HIDE DEF less, more, same
  <2>5. convert_to_bool(f.v) = more /\ convert_to_bool(e.v) = less
    BY <2>1, <2>3, BoolIs
  <2>6. (more /\ less) = same
    BY <2>3, <2>4
  <2> QED BY <2>1, <2>2, <2>5, <2>6
<1>7. /\ NotEqual(a, b) # {} /\ LessThan(a, b) # {}
      /\ \A v, w : LogicalAnd(v, w) # {}
  BY DEF NotEqual, LessThan, Compare, LogicalAnd
<1> QED BY <1>1, <1>3, <1>4, <1>5, <1>6, <1>7 DEF Yields

\* De Morgan, and the condition of a jump: only an empty string is true to
\* one and false to the other.
LEMMA ConditionLaws ==
  ASSUME NEW a \in Value, NEW b \in Value
  PROVE  /\ \A e \in LogicalAnd(a, b) :
              Yields(LogicalOr(LogicalNot(a).v, LogicalNot(b).v), LogicalNot(e.v).v)
         /\ a # Str(<<>>) => JumpFalse(a).v = LogicalNot(LogicalNot(a).v).v
<1>1. ASSUME NEW v \in Value
      PROVE  /\ convert_to_bool(v) \in BOOLEAN
             /\ LogicalNot(v).v = Bool(~convert_to_bool(v))
             /\ v # Str(<<>>) => JumpFalse(v).v = Bool(convert_to_bool(v))
  <2>1. CASE v.type = "int" \/ v.type = "bool"
    <3>1. v.i \in Int
      BY <2>1, ValueIs, WordInt
    <3>2. convert_to_bool(v) = (v.i # 0)
      BY <2>1 DEF convert_to_bool
    <3>3. LogicalNot(v).v = Bool(v.i = 0) /\ JumpFalse(v).v = Bool(v.i # 0)
      BY <2>1 DEF LogicalNot, JumpFalse, Gives
    <3> QED BY <3>2, <3>3 DEF Bool
  <2>2. CASE v.type = "nil"
    BY <2>2 DEF convert_to_bool, LogicalNot, JumpFalse, Gives, Bool
  <2>3. CASE v.type = "str"
    <3>1. v = Str(v.s)
      BY <2>3, ValueIs
    <3>2. convert_to_bool(v) = TRUE /\ LogicalNot(v).v = Bool(FALSE)
      BY <2>3 DEF convert_to_bool, LogicalNot, Gives
    <3>3. JumpFalse(v).v = Bool(v.s # <<>>)
      BY <2>3 DEF JumpFalse, Gives
    <3> QED BY <3>1, <3>2, <3>3 DEF Bool
  <2> QED BY <2>1, <2>2, <2>3, ValueIs
<1>2. ASSUME NEW e \in LogicalAnd(a, b)
      PROVE  Yields(LogicalOr(LogicalNot(a).v, LogicalNot(b).v), LogicalNot(e.v).v)
  <2> DEFINE x == convert_to_bool(a)
             y == convert_to_bool(b)
  <2>1. e.v = Bool(y /\ x)
    BY DEF LogicalAnd, Gives
  <2>2. x \in BOOLEAN /\ y \in BOOLEAN
    BY <1>1
  <2>3. LogicalNot(a).v = Bool(~x) /\ LogicalNot(b).v = Bool(~y)
    BY <1>1
  <2> HIDE DEF x, y
  <2>4. LogicalNot(e.v).v = Bool(~(y /\ x))
    BY <2>1, <2>2, BoolIs
  <2>5. convert_to_bool(Bool(~x)) = ~x /\ convert_to_bool(Bool(~y)) = ~y
    BY <2>2, BoolIs
  <2>6. ASSUME NEW f \in LogicalOr(Bool(~x), Bool(~y)) PROVE f.v = Bool(~y \/ ~x)
    <3>1. f.v = Bool(convert_to_bool(Bool(~y)) \/ convert_to_bool(Bool(~x)))
      BY <2>6 DEF LogicalOr, Gives
    <3> QED BY <2>2, <2>5, <3>1
  <2>7. Bool(~y \/ ~x) = Bool(~(y /\ x))
    BY <2>2
  <2>8. LogicalOr(Bool(~x), Bool(~y)) # {}
    BY DEF LogicalOr
  <2> QED BY <2>3, <2>4, <2>6, <2>7, <2>8 DEF Yields
<1>3. ASSUME a # Str(<<>>) PROVE JumpFalse(a).v = LogicalNot(LogicalNot(a).v).v
  <2>1. LogicalNot(Bool(~convert_to_bool(a))).v = Bool(~~convert_to_bool(a))
    BY <1>1, BoolIs
  <2>2. Bool(~~convert_to_bool(a)) = Bool(convert_to_bool(a))
    BY <1>1
  <2> QED BY <1>1, <1>3, <2>1, <2>2
<1> QED BY <1>2, <1>3

\* What the operators make of two numbers.
LEMMA NumberEffects ==
  ASSUME NEW a \in Nums, NEW b \in Nums
  PROVE  /\ Add(a, b) = {Gives(Num(Wrap(a.i + b.i)), 0)}
         /\ Subtract(a, b) = {Gives(Num(Wrap(a.i - b.i)), 0)}
         /\ Multiply(a, b) = {Gives(Num(Wrap(a.i * b.i)), 0)}
         /\ Divide(a, b) = {Gives(Num(Quotient(a.i, b.i)), 0)}
         /\ Negate(a) = Gives(Num(Wrap(-a.i)), 0)
<1>1. a.type = "int" /\ b.type = "int" /\ a.i \in Word /\ b.i \in Word /\ ~IsStr(a)
  BY NumIs
<1>2. Bits(a) = {a.i}
  BY <1>1 DEF Bits
<1>3. Add(a, b) = {Gives(Num(Wrap(a.i + b.i)), 0)}
  BY <1>1 DEF Add
<1>4. Subtract(a, b) = {Gives(Num(Wrap(a.i - b.i)), 0)}
  BY <1>1, <1>2 DEF Subtract, Arithmetic, Difference
<1>5. Multiply(a, b) = {Gives(Num(Wrap(a.i * b.i)), 0)}
  BY <1>1, <1>2 DEF Multiply, Arithmetic, Product
<1>6. Divide(a, b) = {Gives(Num(Quotient(a.i, b.i)), 0)}
  BY <1>1, <1>2 DEF Divide, Arithmetic
<1>7. Negate(a) = Gives(Num(Wrap(-a.i)), 0)
  BY <1>1 DEF Negate
<1> QED BY <1>3, <1>4, <1>5, <1>6, <1>7

LEMMA QuotientWord ==
  ASSUME NEW a \in Word, NEW b \in Word
  PROVE  Quotient(a, b) \in Word
<1> DEFINE q == Abs(a) \div Abs(b)
<1>1. a \in Int /\ b \in Int
  BY WordInt
<1>2. Abs(a) \in Nat /\ Abs(a) <= -Smallest /\ (b # 0 => Abs(b) \in Nat \ {0})
  BY <1>1, Sizes DEF Abs
<1>3. b # 0 => q \in 0 .. Abs(a)
  BY <1>2, DivBound
<1>4. /\ b = 0 => Quotient(a, b) = 0
      /\ b # 0 => Quotient(a, b) \in {Wrap(q), -q}
  BY DEF Quotient, Abs
<1> HIDE DEF q
<1>5. 0 \in Word
  BY Sizes
<1>6. b # 0 => q \in Int /\ -q \in Word
  BY <1>2, <1>3, Sizes
<1>7. b # 0 => Wrap(q) \in Word
  BY <1>6, WrapIs
<1> QED BY <1>4, <1>5, <1>6, <1>7

\* Adding and taking away, and signs.
LEMMA NumberLaws ==
  ASSUME NEW a \in Nums, NEW b \in Nums
  PROVE  /\ \A e \in Add(a, b) : Yields(Subtract(e.v, b), a)
         /\ \A e \in Subtract(b, a) : Yields(Subtract(a, b), Negate(e.v).v)
         /\ Multiply(a, b) = Multiply(b, a)
         /\ a # Num(Smallest) =>
              \A e \in Divide(a, b) : Yields(Divide(Negate(a).v, b), Negate(e.v).v)
<1>1. a.i \in Word /\ b.i \in Word /\ a = Num(a.i) /\ b = Num(b.i)
  BY NumIs
<1>2. a.i \in Int /\ b.i \in Int
  BY <1>1, WordInt
<1>3. \A n \in Word : Num(n) \in Nums /\ Num(n).i = n
  BY DEF Nums, Num
<1>4. ASSUME NEW e \in Add(a, b) PROVE Yields(Subtract(e.v, b), a)
  <2> DEFINE n == Wrap(a.i + b.i)
  <2>1. e.v = Num(n)
    BY NumberEffects DEF Gives
  <2>2. n \in Word
    BY <1>2, WrapIs
  <2>3. Wrap(n - b.i) = a.i
    BY <1>1, WordLaws
  <2> HIDE DEF n
  <2>4. Subtract(Num(n), b) = {Gives(Num(Wrap(n - b.i)), 0)}
    BY <1>3, <2>2, NumberEffects
  <2> QED BY <1>1, <2>1, <2>3, <2>4 DEF Yields, Gives
<1>5. ASSUME NEW e \in Subtract(b, a) PROVE Yields(Subtract(a, b), Negate(e.v).v)
  <2> DEFINE n == Wrap(b.i - a.i)
  <2>1. e.v = Num(n)
    BY NumberEffects DEF Gives
  <2>2. n \in Word
    BY <1>2, WrapIs
  <2>3. Wrap(a.i - b.i) = Wrap(-n)
    BY <1>1, WordLaws
  <2> HIDE DEF n
  <2>4. Negate(Num(n)).v = Num(Wrap(-n))
    BY <1>3, <2>2, NumberEffects DEF Gives
  <2>5. Subtract(a, b) = {Gives(Num(Wrap(a.i - b.i)), 0)}
    BY NumberEffects
  <2> QED BY <2>1, <2>3, <2>4, <2>5 DEF Yields, Gives
<1>6. Multiply(a, b) = Multiply(b, a)
  <2>1. Wrap(a.i * b.i) = Wrap(b.i * a.i)
    BY <1>1, WordLaws
  <2>2. /\ Multiply(a, b) = {Gives(Num(Wrap(a.i * b.i)), 0)}
        /\ Multiply(b, a) = {Gives(Num(Wrap(b.i * a.i)), 0)}
    BY NumberEffects
  <2> QED BY <2>1, <2>2, Zenon
<1>7. ASSUME a # Num(Smallest), NEW e \in Divide(a, b)
      PROVE  Yields(Divide(Negate(a).v, b), Negate(e.v).v)
  <2> DEFINE n == Quotient(a.i, b.i)
             m == -a.i
  <2>1. a.i # Smallest
    BY <1>1, <1>7
  <2>2. Wrap(m) = m /\ m \in Word /\ Quotient(m, b.i) = Wrap(-n)
    BY <1>1, <2>1, QuotientLaw
  <2>3. n \in Word
    BY <1>1, QuotientWord
  <2>4. e.v = Num(n)
    BY NumberEffects DEF Gives
  <2>5. Negate(a).v = Num(Wrap(m))
    BY NumberEffects DEF Gives
  <2> HIDE DEF n, m
  <2>6. Divide(Num(m), b) = {Gives(Num(Quotient(m, b.i)), 0)}
    BY <1>3, <2>2, NumberEffects
  <2>7. Negate(Num(n)).v = Num(Wrap(-n))
    BY <1>3, <2>3, NumberEffects DEF Gives
  <2>8. Divide(Negate(a).v, b) = {Gives(Num(Wrap(-n)), 0)}
    BY <2>2, <2>5, <2>6
  <2> QED BY <2>4, <2>7, <2>8 DEF Yields, Gives
<1> QED BY <1>4, <1>5, <1>6, <1>7

LEMMA RowAssociates ==
  ASSUME NEW s, NEW t, NEW u, Row(s), Row(t), Row(u)
  PROVE  (s \o t) \o u = s \o (t \o u)
<1>1. PICK S, T, U : s \in Seq(S) /\ t \in Seq(T) /\ u \in Seq(U)
  BY DEF Row
<1> DEFINE V == S \cup T \cup U
<1>2. S \subseteq V /\ T \subseteq V /\ U \subseteq V
  OBVIOUS
<1> HIDE DEF V
<1>3. s \in Seq(V) /\ t \in Seq(V) /\ u \in Seq(V)
  BY <1>1, <1>2, SeqMonotonic, Zenon
<1> QED BY <1>3, ConcatAssociative

\* Sums do not depend on the order, those of texts on the brackets.  A nil counts
\* for the bits it was left with, which is nothing where they are 0.
LEMMA SumLaws ==
  ASSUME NEW a \in Value, NEW b \in Value, NEW c \in Value
  PROVE  /\ {a, b, c} \subseteq Nums \cup Nils =>
              \A e \in Add(a, b), f \in Add(b, c) : Add(e.v, c) = Add(f.v, a)
         /\ a \in Nums => Yields(Add(Nil, a), a)
         /\ a \in Nums /\ b \notin Nums => Yields(Subtract(a, b), Nil)
         /\ {a, b, c} \subseteq Strs /\ (\A t \in Text : Row(t)) =>
              \A e \in Add(a, b), f \in Add(b, c) :
                \A g \in Add(a, f.v) : Yields(Add(e.v, c), g.v)
<1>1. \A n \in Word : Num(n) \in Nums /\ Num(n).i = n
  BY DEF Nums, Num
<1>2. ASSUME NEW v \in Nums \cup Nils
      PROVE  v.i \in Word /\ v.type \in {"nil", "int"}
  BY NumIs, NilIs
<1>3. ASSUME NEW v \in Nums \cup Nils, NEW w \in Nums \cup Nils
      PROVE  Add(v, w) = {Gives(Num(Wrap(v.i + w.i)), 0)} /\ Wrap(v.i + w.i) \in Word
  <2>1. v.i \in Int /\ w.i \in Int
    BY <1>2, WordInt
  <2>2. Wrap(v.i + w.i) \in Word
    BY <2>1, WrapIs
  <2>3. v.type \in {"nil", "int"} /\ w.type \in {"nil", "int"}
    BY <1>2
  <2>4. Add(v, w) = {Gives(Num(Wrap(v.i + w.i)), 0)}
    <3> DEFINE sum == {Gives(Num(Wrap(v.i + w.i)), 0)}
               plain == v.type \in {"nil", "int"} /\ w.type \in {"nil", "int"}
    <3>1. plain => Add(v, w) = sum
      BY DEF Add, IsStr
    <3> HIDE DEF sum
    <3>2. Add(v, w) = sum
      BY <2>3, <3>1
    <3> QED BY <3>2 DEF sum
  <2> QED BY <2>2, <2>4
<1>4. ASSUME {a, b, c} \subseteq Nums \cup Nils, NEW e \in Add(a, b), NEW f \in Add(b, c)
      PROVE  Add(e.v, c) = Add(f.v, a)
  <2> DEFINE n == Wrap(a.i + b.i)
             m == Wrap(b.i + c.i)
  <2>1. e.v = Num(n) /\ f.v = Num(m) /\ n \in Word /\ m \in Word
    BY <1>3, <1>4 DEF Gives
  <2>2. Wrap(n + c.i) = Wrap(m + a.i)
    BY <1>2, <1>4, WordLaws
  <2> HIDE DEF n, m
  <2>3. /\ Add(Num(n), c) = {Gives(Num(Wrap(n + c.i)), 0)}
        /\ Add(Num(m), a) = {Gives(Num(Wrap(m + a.i)), 0)}
    <3>1. Num(n) \in Nums \cup Nils /\ Num(m) \in Nums \cup Nils
      BY <1>1, <2>1
    <3>2. Num(n).i = n /\ Num(m).i = m
      BY DEF Num
    <3> QED BY <1>3, <1>4, <3>1, <3>2
  <2> QED BY <2>1, <2>2, <2>3
<1>5. ASSUME a \in Nums, b \notin Nums PROVE Yields(Subtract(a, b), Nil)
  <2>1. b.type # "int"
    BY <1>5, ValueIs
  <2>2. Subtract(a, b) = {Gives(Nil, Freed(b) + Freed(a))}
    BY <2>1 DEF Subtract, Arithmetic
  <2> QED BY <2>2 DEF Yields, Gives
<1>6. ASSUME {a, b, c} \subseteq Strs, \A t \in Text : Row(t),
             NEW e \in Add(a, b), NEW f \in Add(b, c), NEW g \in Add(a, f.v)
      PROVE  Yields(Add(e.v, c), g.v)
  <2>1. /\ IsStr(a) /\ IsStr(b) /\ IsStr(c) /\ a.s \in Text /\ b.s \in Text /\ c.s \in Text
    BY <1>6 DEF Strs, Str, IsStr
  <2>2. ASSUME NEW v, NEW w, IsStr(v), IsStr(w)
        PROVE  Add(v, w) = {Gives(Str(v.s \o w.s), -1)}
    BY <2>2 DEF Add, IsStr
  <2>3. \A t : IsStr(Str(t)) /\ Str(t).s = t
    BY DEF IsStr, Str
  <2>4. e.v = Str(a.s \o b.s) /\ f.v = Str(b.s \o c.s)
    BY <2>1, <2>2 DEF Gives
  <2>5. Add(e.v, c) = {Gives(Str((a.s \o b.s) \o c.s), -1)}
    BY <2>1, <2>2, <2>3, <2>4
  <2>6. g.v = Str(a.s \o (b.s \o c.s))
    BY <2>1, <2>2, <2>3, <2>4 DEF Gives
  <2>7. (a.s \o b.s) \o c.s = a.s \o (b.s \o c.s)
    <3> DEFINE x == a.s
               y == b.s
               z == c.s
    <3>1. Row(x) /\ Row(y) /\ Row(z)
      BY <1>6, <2>1
    <3> HIDE DEF x, y, z
    <3>2. (x \o y) \o z = x \o (y \o z)
      BY <3>1, RowAssociates
    <3> QED BY <3>2 DEF x, y, z
  <2> QED BY <2>5, <2>6, <2>7 DEF Yields, Gives
<1>7. ASSUME a \in Nums PROVE Yields(Add(Nil, a), a)
  <2>1. Nil \in Nums \cup Nils /\ Nil.i = 0
    BY DEF Nils, Nil
  <2>2. Add(Nil, a) = {Gives(Num(Wrap(0 + a.i)), 0)}
    BY <1>3, <1>7, <2>1
  <2>3. a.i \in Word /\ a.i \in Int /\ a = Num(a.i)
    BY <1>7, NumIs, WordInt
  <2>4. Wrap(0 + a.i) = a.i
    BY <2>3, WrapWord
  <2> QED BY <2>2, <2>3, <2>4 DEF Yields, Gives
<1> QED BY <1>4, <1>5, <1>6, <1>7

\* For numbers of any width the operators obey the laws that the runs compare
\* as programs: a comparison and its opposite, de Morgan, the jump of "if" and
\* two nots (but for an empty string), + and - as inverses in 64 bits, sums in
\* any order and with any brackets, where a nil is the number it was left with,
\* products in any order, signs of quotients (but for the smallest number), and
\* a number less anything else, which is nil (interpret.c: op_add to op_or,
\* op_negate, op_not, op_jumpfalse).
THEOREM OperatorsObeyLaws ==
  ASSUME NEW a \in Value, NEW b \in Value, NEW c \in Value
  PROVE
  /\ ~IsNil(a) \/ ~IsNil(b) =>
       \A f \in Equal(a, b) : Yields(NotEqual(a, b), LogicalNot(f.v).v)
  /\ LessThan(a, b) = GreaterThan(b, a)
  /\ LessThanOrEqual(a, b) = GreaterThanOrEqual(b, a)
  /\ Same(b, a, Counted) =>
       /\ \A f \in GreaterThanOrEqual(a, b) : Yields(LessThan(a, b), LogicalNot(f.v).v)
       /\ \A e \in LessThanOrEqual(a, b), f \in GreaterThanOrEqual(a, b) :
            \A h \in Equal(a, b) : Yields(LogicalAnd(e.v, f.v), h.v)
  /\ \A e \in LogicalAnd(a, b) :
       Yields(LogicalOr(LogicalNot(a).v, LogicalNot(b).v), LogicalNot(e.v).v)
  /\ a # Str(<<>>) => JumpFalse(a).v = LogicalNot(LogicalNot(a).v).v
  /\ a \in Nums /\ b \in Nums =>
       /\ \A e \in Add(a, b) : Yields(Subtract(e.v, b), a)
       /\ \A e \in Subtract(b, a) : Yields(Subtract(a, b), Negate(e.v).v)
       /\ Multiply(a, b) = Multiply(b, a)
       /\ a # Num(Smallest) =>
            \A e \in Divide(a, b) : Yields(Divide(Negate(a).v, b), Negate(e.v).v)
  /\ {a, b, c} \subseteq Nums \cup Nils =>
       \A e \in Add(a, b), f \in Add(b, c) : Add(e.v, c) = Add(f.v, a)
  /\ {a, b, c} \subseteq Strs /\ (\A t \in Text : Row(t)) =>
       \A e \in Add(a, b), f \in Add(b, c) :
         \A g \in Add(a, f.v) : Yields(Add(e.v, c), g.v)
  /\ a \in Nums => Yields(Add(Nil, a), a)
  /\ a \in Nums /\ b \notin Nums => Yields(Subtract(a, b), Nil)
<1>1. a \in Nums /\ b \in Nums =>
       /\ \A e \in Add(a, b) : Yields(Subtract(e.v, b), a)
       /\ \A e \in Subtract(b, a) : Yields(Subtract(a, b), Negate(e.v).v)
       /\ Multiply(a, b) = Multiply(b, a)
       /\ a # Num(Smallest) =>
            \A e \in Divide(a, b) : Yields(Divide(Negate(a).v, b), Negate(e.v).v)
  BY NumberLaws, Zenon
<1>2. /\ ~IsNil(a) \/ ~IsNil(b) =>
           \A f \in Equal(a, b) : Yields(NotEqual(a, b), LogicalNot(f.v).v)
      /\ LessThan(a, b) = GreaterThan(b, a)
      /\ LessThanOrEqual(a, b) = GreaterThanOrEqual(b, a)
      /\ Same(b, a, Counted) =>
           /\ \A f \in GreaterThanOrEqual(a, b) :
                Yields(LessThan(a, b), LogicalNot(f.v).v)
           /\ \A e \in LessThanOrEqual(a, b), f \in GreaterThanOrEqual(a, b) :
                \A h \in Equal(a, b) : Yields(LogicalAnd(e.v, f.v), h.v)
  BY ComparisonLaws, Zenon
<1> QED BY <1>1, <1>2, ConditionLaws, SumLaws

=============================================================================
