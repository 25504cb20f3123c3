------------------------------ MODULE Children ------------------------------
(***************************************************************************)
(* The children of one item (src/item.c): a hash table of chains, to find  *)
(* them by name, and an array in the order they were made, to find them by *)
(* number.                                                                 *)
(*                                                                         *)
(* The entries of a chain have different keys, and nothing tells in what   *)
(* order they are linked: a chain is a set.  A child stands for the item   *)
(* and for its name.                                                       *)
(***************************************************************************)
EXTENDS Naturals, Sequences, FiniteSets

CONSTANTS
  Name,         \* names of layers
  Hash,         \* simple_hash or murmur3_32 of each
  InitSize,     \* 16: the buckets of a new table
  Capacity,     \* ITEM_ARRAY_INIT_CAPACITY, which is also the growth
  Limit,        \* 256: ordered_capacity and ordered_size are 8-bit numbers
  MaxChildren   \* a bound on the children of the item

ASSUME ChildrenAssumption ==
  /\ Hash \in [Name -> Nat]
  /\ InitSize \in Nat \ {0}
  /\ Capacity \in Nat \ {0} /\ Limit \in Nat /\ Capacity < Limit
  /\ MaxChildren \in Nat

VARIABLES
  size,         \* the number of buckets
  table,        \* the chain of each bucket
  array,        \* the elements of ordered_array in use, ordered_size of them
  capacity,     \* ordered_capacity
  overrun       \* the array was written beyond its end

ChildrenVars == <<size, table, array, capacity, overrun>>

ChildrenInit ==
  /\ size = InitSize
  /\ table = [b \in 0 .. InitSize - 1 |-> {}]
  /\ array = <<>>
  /\ capacity = Capacity
  /\ overrun = FALSE

Bucket(n, s) == Hash[n] % s

Entries(t, s) == UNION {t[b] : b \in 0 .. s - 1}

\* search_hashtable looks in one chain only.
Found(n) == n \in table[Bucket(n, size)]

\* insert_hashtable
Inserted(t, s, n) == [t EXCEPT ![Bucket(n, s)] = @ \cup {n}]

\* Mutant: resize_hashtable moves the chains and does not hash again.
RehashedNot(t, s, new) == [b \in 0 .. new - 1 |-> IF b < s THEN t[b] ELSE {}]

\* resize_hashtable
Rehashed(t, s, new) ==
  [b \in 0 .. new - 1 |-> {n \in Entries(t, s) : Bucket(n, new) = b}]

\* calculate_load_factor: more than three quarters.
Loaded(t, s) == 4 * Cardinality(Entries(t, s)) > 3 * s

\* Mutant: the array is never embiggened.
ResizedNever == capacity

\* resize_ordered_array: the new capacity is an 8-bit number.
Resized ==
  IF Len(array) >= capacity THEN (capacity + Capacity) % Limit ELSE capacity

\* insert_item, insert_code_item and set_item look before they make.
Absent(n) == ~Found(n)

\* make_item: the table, its size, then the array.
MakeItem(n) ==
  LET t == Inserted(table, size, n) IN
  /\ ~overrun
  /\ Len(array) < MaxChildren
  /\ Absent(n)
  /\ IF Loaded(t, size)
     THEN size' = 2 * size + 1 /\ table' = Rehashed(t, size, 2 * size + 1)
     ELSE size' = size /\ table' = t
  /\ capacity' = Resized
  /\ overrun' = (Len(array) >= Resized)
  /\ array' = Append(array, n)

\* Mutant: the last takes the place of the one that goes.
WithoutByLast(i) ==
  [k \in 1 .. Len(array) - 1 |-> IF k = i THEN array[Len(array)] ELSE array[k]]

\* The elements behind the first that is found are shifted.
Without(i) ==
  [k \in 1 .. Len(array) - 1 |-> IF k < i THEN array[k] ELSE array[k + 1]]

\* delete_item, with the child out of use: the chain, then the array.
DeleteItem(n) ==
  /\ ~overrun
  /\ Found(n)
  /\ table' = [table EXCEPT ![Bucket(n, size)] = @ \ {n}]
  /\ IF \E i \in 1 .. Len(array) : array[i] = n
     THEN \E i \in 1 .. Len(array) :
            /\ array[i] = n
            /\ \A j \in 1 .. i - 1 : array[j] # n
            /\ array' = Without(i)
     ELSE array' = array
  /\ UNCHANGED <<size, capacity, overrun>>

ChildrenNext == \E n \in Name : MakeItem(n) \/ DeleteItem(n)

ChildrenSpec == ChildrenInit /\ [][ChildrenNext]_ChildrenVars

-----------------------------------------------------------------------------
(* Properties.                                                             *)

TypeOK ==
  /\ size \in Nat \ {0}
  /\ table \in [0 .. size - 1 -> SUBSET Name]
  /\ array \in Seq(Name)
  /\ capacity \in 0 .. Limit - 1
  /\ overrun \in BOOLEAN

\* What search_hashtable finds is what find_item_by_index numbers, and an
\* entry is in the chain where it is looked for, at every size of the table
\* (make_item, delete_item, resize_hashtable).
SameChildren ==
  /\ \A b \in 0 .. size - 1 : \A n \in table[b] : Bucket(n, size) = b
  /\ \A n \in Name : Found(n) <=> \E i \in 1 .. Len(array) : array[i] = n
  /\ \A i, j \in 1 .. Len(array) : array[i] = array[j] => i = j

\* The ordered array is never written beyond its end (resize_ordered_array).
NoOverrun == ~overrun

\* The table and the array are one list of children in the order they were
\* made: the abstract specification ChildList.
List == INSTANCE ChildList WITH list <- array
ListSpec == List!Spec

=============================================================================
