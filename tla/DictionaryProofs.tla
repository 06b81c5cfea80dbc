-------------------------- MODULE DictionaryProofs --------------------------
(***************************************************************************)
(* Theorems about the dictionary, for any keys, values, hashes and sizes:  *)
(* the invariant behind SlotLeft and OneSlot (lemmas *Inv, one for each    *)
(* way a call can end), and that the table implements DictionaryMap.  For  *)
(* the second a table is described by TableMap, which names its size and   *)
(* its arrays, so that the one before and the one after a step, and the    *)
(* one that was doubled in between, can be compared.                       *)
(***************************************************************************)
EXTENDS Dictionary, FiniteSetTheorems, WellFoundedInduction, TLAPS

(* The order of the natural numbers as a set, and the minimum of a set.    *)
LessThan == {p \in Nat \X Nat : p[1] < p[2]}

LEMMA LessThanPairs ==
    ASSUME NEW y \in Nat, NEW x \in Nat, y < x
    PROVE  <<y, x>> \in LessThan
<1> DEFINE p == <<y, x>>
<1>1. p \in Nat \X Nat
  OBVIOUS
<1>2. p[1] < p[2]
  OBVIOUS
<1> HIDE DEF p
<1>3. p \in LessThan
  BY <1>1, <1>2 DEF LessThan
<1> QED BY <1>3 DEF p

LEMMA MinExists ==
    ASSUME NEW S, S \subseteq Nat, S # {}
    PROVE  Min(S) \in S /\ \A y \in S : Min(S) <= y
<1>0. OpToRel(<, Nat) = LessThan
  BY Zenon DEF OpToRel, LessThan
<1>1. PICK x \in S : \A y \in S : ~ (<<y, x>> \in LessThan)
  BY <1>0, NatLessThanWellFounded, WFMin, Zenon
<1>2. ASSUME NEW y \in S PROVE x <= y
  <2>1. y \in Nat /\ x \in Nat
    OBVIOUS
  <2>2. CASE y < x
    <3>1. <<y, x>> \in LessThan
      BY <2>1, <2>2, LessThanPairs
    <3> QED BY <1>1, <3>1, Zenon
  <2> QED BY <2>1, <2>2
<1> QED BY <1>2 DEF Min

-----------------------------------------------------------------------------
(* Nothing is allocated yet.                                               *)
LEMMA InitInv == DictInit => DictInv
<1> SUFFICES ASSUME DictInit PROVE DictInv
  OBVIOUS
<1>1. Slots = {}
  BY DEF DictInit, Slots
<1>2. UsedSlots = {}
  BY <1>1 DEF UsedSlots
<1>3. DictTypeOK
  BY <1>1 DEF DictInit, DictTypeOK
<1>4. CountInv
  BY <1>2, FS_EmptySet DEF DictInit, CountInv
<1>5. HashInv /\ OneSlot
  BY <1>2 DEF HashInv, OneSlot
<1> QED BY <1>3, <1>4, <1>5 DEF DictInv

(* A new table is empty.                                                   *)
LEMMA NewInv == dictionary_new => DictInv'
<1> SUFFICES ASSUME dictionary_new PROVE DictInv'
  OBVIOUS
<1> USE DictAssumption
<1>1. Slots' = 0..DICTMINSZ-1
  BY DEF dictionary_new, Slots
<1>2. UsedSlots' = {}
  BY <1>1 DEF UsedSlots, dictionary_new
<1>3. DictTypeOK'
  BY <1>1 DEF dictionary_new, DictTypeOK
<1>4. CountInv'
  BY <1>2, FS_EmptySet DEF dictionary_new, CountInv
<1>5. HashInv' /\ OneSlot'
  BY <1>2 DEF HashInv, OneSlot
<1> QED BY <1>3, <1>4, <1>5 DEF DictInv

(* A deleted one has no slots.                                             *)
LEMMA DelInv == dictionary_del => DictInv'
<1> SUFFICES ASSUME dictionary_del PROVE DictInv'
  OBVIOUS
<1>1. Slots' = {}
  BY DEF dictionary_del, Slots
<1>2. UsedSlots' = {}
  BY <1>1 DEF UsedSlots
<1>3. DictTypeOK'
  BY <1>1 DEF dictionary_del, DictTypeOK
<1>4. CountInv'
  BY <1>2, FS_EmptySet DEF dictionary_del, CountInv
<1>5. HashInv' /\ OneSlot'
  BY <1>2 DEF HashInv, OneSlot
<1> QED BY <1>3, <1>4, <1>5 DEF DictInv

(* How many slots there are.                                               *)
LEMMA SlotsFinite ==
    ASSUME NEW sz \in Nat
    PROVE  IsFiniteSet(0..sz-1) /\ Cardinality(0..sz-1) = sz
<1>1. 0 \in Int /\ sz - 1 \in Int
  OBVIOUS
<1>2. Cardinality(0..sz-1) = IF 0 > sz - 1 THEN 0 ELSE (sz - 1) - 0 + 1
  BY <1>1, FS_Interval
<1>3. IsFiniteSet(0..sz-1)
  BY <1>1, FS_Interval
<1> QED BY <1>2, <1>3

(* The used ones can be counted.                                           *)
LEMMA UsedFinite ==
    ASSUME DictTypeOK
    PROVE  IsFiniteSet(UsedSlots) /\ Cardinality(UsedSlots) \in Nat
<1>1. IsFiniteSet(Slots)
  BY SlotsFinite DEF DictTypeOK, Slots
<1>2. UsedSlots \in SUBSET Slots
  BY DEF UsedSlots
<1>3. IsFiniteSet(UsedSlots)
  BY <1>1, <1>2, FS_Subset
<1> QED BY <1>3, FS_CardinalityType

(* A slot that the loops stop at is the one slot of its key.               *)
LEMMA EntryUsed ==
    ASSUME DictInv, NEW k \in Keys, Matches(k) # {}
    PROVE  Entry(k) \in UsedSlots /\ key[Entry(k)] = k
<1>1. Matches(k) \subseteq Nat
  BY DEF DictInv, DictTypeOK, Matches, Slots
<1>2. Entry(k) \in Matches(k)
  BY <1>1, MinExists DEF Entry
<1>3. k # NULL
  BY DictAssumption
<1> QED BY <1>2, <1>3 DEF Matches, UsedSlots

(* A value that changes touches no key and no count.                       *)
LEMMA ModifyInv ==
    ASSUME DictInv, NEW k \in Keys, NEW v \in Values \cup {NULL}, SetModify(k, v)
    PROVE  DictInv'
<1>1. PICK copy \in xstrdup(v) : val' = [val EXCEPT ![Entry(k)] = copy]
  BY DEF SetModify
<1>2. copy \in Values \cup {NULL}
  BY <1>1 DEF xstrdup
<1>3. Slots' = Slots /\ UsedSlots' = UsedSlots
  BY DEF SetModify, Slots, UsedSlots
<1>4. DictTypeOK'
  BY <1>1, <1>2, <1>3 DEF DictInv, DictTypeOK, SetModify
<1>5. CountInv'
  BY <1>3 DEF DictInv, CountInv, SetModify
<1>6. HashInv' /\ OneSlot'
  BY <1>3 DEF DictInv, HashInv, OneSlot, SetModify
<1> QED BY <1>4, <1>5, <1>6 DEF DictInv

(* unset frees the one slot of its key, and counts one less.               *)
LEMMA UnsetInv ==
    ASSUME DictInv, NEW k \in Keys, dictionary_unset(k)
    PROVE  DictInv'
<1> DEFINE i == Entry(k)
<1>1. i \in UsedSlots /\ key[i] = k
  BY EntryUsed DEF dictionary_unset
<1>2. i \in Slots
  BY <1>1 DEF UsedSlots
<1> HIDE DEF i
<1>3. /\ key' = [key EXCEPT ![i] = NULL]
      /\ val' = [val EXCEPT ![i] = NULL]
      /\ hash' = [hash EXCEPT ![i] = 0]
      /\ n' = n - 1 /\ size' = size /\ heap' = heap
  BY DEF dictionary_unset, i
<1>4. Slots' = Slots
  BY <1>3 DEF Slots
<1>5. UsedSlots' = UsedSlots \ {i}
  BY <1>2, <1>3, <1>4 DEF UsedSlots, DictInv, DictTypeOK
<1>6. Cardinality(UsedSlots') = Cardinality(UsedSlots) - 1
  BY <1>1, <1>5, UsedFinite, FS_RemoveElement DEF DictInv
<1>7. Cardinality(UsedSlots') \in Nat
  BY <1>5, UsedFinite, FS_RemoveElement, FS_CardinalityType DEF DictInv
<1>8. n' \in Nat
  BY <1>3, <1>6, <1>7, UsedFinite DEF DictInv, DictTypeOK, CountInv
<1>9. DictTypeOK'
  BY <1>3, <1>4, <1>8 DEF DictInv, DictTypeOK
<1>10. CountInv'
  BY <1>3, <1>6, UsedFinite DEF DictInv, DictTypeOK, CountInv
<1>11. HashInv'
  BY <1>3, <1>5 DEF DictInv, DictTypeOK, HashInv, UsedSlots
<1>12. OneSlot'
  BY <1>3, <1>5 DEF DictInv, DictTypeOK, OneSlot, UsedSlots
<1> QED BY <1>9, <1>10, <1>11, <1>12 DEF DictInv

(* Growth that fails changes nothing that is counted.                      *)
LEMMA FailsInv ==
    ASSUME DictInv, heap = "usable", NEW k \in Keys, SetGrowFails(k)
    PROVE  DictInv'
<1>0. heap # "none" /\ heap' # "none"
  BY DEF SetGrowFails
<1>1. Slots' = Slots /\ UsedSlots' = UsedSlots
  BY DEF SetGrowFails, Slots, UsedSlots
<1>2. DictTypeOK'
  BY <1>1 DEF DictInv, DictTypeOK, SetGrowFails
<1>3. CountInv'
  BY <1>0, <1>1 DEF DictInv, CountInv, SetGrowFails
<1>4. HashInv' /\ OneSlot'
  BY <1>1 DEF DictInv, HashInv, OneSlot, SetGrowFails
<1> QED BY <1>2, <1>3, <1>4 DEF DictInv

(* The entries of a table of sz slots.                                     *)
Occupied(sz, keys) == {i \in 0..sz-1 : keys[i] # NULL}

(* What dictionary_set relies on when it adds an entry to a table, the one *)
(* it has or the one it has just doubled.                                  *)
Insertable(k, sz, keys, vals, hashes) ==
    /\ keys \in [0..sz-1 -> Keys \cup {NULL}]
    /\ vals \in [0..sz-1 -> Values \cup {NULL}]
    /\ hashes \in [0..sz-1 -> Nat]
    /\ Cardinality(Occupied(sz, keys)) <= n
    /\ n < sz
    /\ \A i \in Occupied(sz, keys) : hashes[i] = Hash[keys[i]]
    /\ \A i, j \in Occupied(sz, keys) : keys[i] = keys[j] => i = j
    /\ \A i \in 0..sz-1 : keys[i] # k

(* Since fewer entries are counted than there are slots, one is empty.     *)
LEMMA EmptySlot ==
    ASSUME n \in Nat, NEW sz \in Nat, NEW k, NEW keys, NEW vals, NEW hashes,
           Insertable(k, sz, keys, vals, hashes)
    PROVE  FirstEmpty(keys) \in 0..sz-1 /\ keys[FirstEmpty(keys)] = NULL
<1> DEFINE empties == {i \in DOMAIN keys : keys[i] = NULL}
<1>1. DOMAIN keys = 0..sz-1
  BY DEF Insertable
<1>2. Occupied(sz, keys) # 0..sz-1
  <2>1. Cardinality(Occupied(sz, keys)) # sz
    <3>1. Occupied(sz, keys) \in SUBSET (0..sz-1)
      BY DEF Occupied
    <3>2. Cardinality(Occupied(sz, keys)) \in Nat
      BY <3>1, SlotsFinite, FS_Subset, FS_CardinalityType
    <3>3. Cardinality(Occupied(sz, keys)) <= n /\ n < sz
      BY DEF Insertable
    <3> QED BY <3>2, <3>3
  <2> QED BY <2>1, SlotsFinite
<1>3. empties # {}
  BY <1>1, <1>2 DEF Occupied
<1>4. empties \subseteq Nat
  BY <1>1
<1>5. Min(empties) \in empties
  BY <1>3, <1>4, MinExists
<1> QED BY <1>1, <1>5 DEF FirstEmpty

(* The first empty slot may take the entry.                                *)
LEMMA InsertInv ==
    ASSUME n \in Nat, NEW sz \in Nat, NEW k \in Keys, NEW v \in Values \cup {NULL},
           NEW keys, NEW vals, NEW hashes,
           Insertable(k, sz, keys, vals, hashes),
           Insert(k, v, keys, vals, hashes),
           heap = "usable", heap' = heap, size' = sz
    PROVE  DictInv'
<1> DEFINE i == FirstEmpty(keys)
<1>1. i \in 0..sz-1 /\ keys[i] = NULL
  BY EmptySlot
<1>2. PICK kcopy \in xstrdup(k) : key' = [keys EXCEPT ![i] = kcopy]
  BY DEF Insert
<1>3. PICK vcopy \in xstrdup(v) : val' = [vals EXCEPT ![i] = vcopy]
  BY DEF Insert
<1>4. hash' = [hashes EXCEPT ![i] = Hash[k]] /\ n' = n + 1
  BY DEF Insert
<1> HIDE DEF i
<1>5. kcopy \in {k, NULL} /\ vcopy \in Values \cup {NULL}
  BY <1>2, <1>3 DEF xstrdup
<1>6. Slots' = 0..sz-1
  BY DEF Slots
<1>7. Hash[k] \in Nat
  BY DictAssumption
<1>8. DictTypeOK'
  <2>1. key' \in [Slots' -> Keys \cup {NULL}]
    BY <1>2, <1>5, <1>6 DEF Insertable
  <2>2. val' \in [Slots' -> Values \cup {NULL}]
    BY <1>3, <1>5, <1>6 DEF Insertable
  <2>3. hash' \in [Slots' -> Nat]
    BY <1>4, <1>6, <1>7 DEF Insertable
  <2>4. n' \in Nat /\ size' \in Nat /\ heap' = "usable"
    BY <1>4
  <2> QED BY <2>1, <2>2, <2>3, <2>4 DEF DictTypeOK
<1> DEFINE occ == Occupied(sz, keys)
<1>9. UsedSlots' \in {occ, occ \cup {i}}
  BY <1>1, <1>2, <1>5, <1>6 DEF UsedSlots, Occupied, Insertable
<1>10. IsFiniteSet(occ)
  <2>1. occ \in SUBSET (0..sz-1)
    BY DEF Occupied
  <2> QED BY <2>1, SlotsFinite, FS_Subset
<1>11. Cardinality(occ) \in Nat
  BY <1>10, FS_CardinalityType
<1>12. Cardinality(occ \cup {i}) <= Cardinality(occ) + 1
  BY <1>10, <1>11, FS_AddElement
<1>13. Cardinality(UsedSlots') <= Cardinality(occ) + 1
  BY <1>9, <1>11, <1>12
<1>14. Cardinality(UsedSlots') \in Nat
  BY <1>9, <1>10, <1>11, FS_AddElement, FS_CardinalityType
<1>15. Cardinality(occ) <= n /\ n < sz
  BY DEF Insertable
<1>16. CountInv'
  BY <1>4, <1>11, <1>13, <1>14, <1>15 DEF CountInv
<1>17. ASSUME NEW j \in UsedSlots'
       PROVE  /\ hash'[j] = Hash[key'[j]]
              /\ \/ j = i /\ key'[j] = k
                 \/ j # i /\ j \in occ /\ key'[j] = keys[j]
  <2>1. j \in 0..sz-1 /\ key'[j] # NULL
    BY <1>6, <1>17 DEF UsedSlots
  <2>2. CASE j = i
    <3>1. key'[j] = k
      BY <1>2, <1>5, <2>1, <2>2 DEF Insertable
    <3>2. hash'[j] = Hash[k]
      BY <1>4, <2>1, <2>2 DEF Insertable
    <3> QED BY <2>2, <3>1, <3>2
  <2>3. CASE j # i
    <3>1. key'[j] = keys[j] /\ j \in occ
      BY <1>2, <2>1, <2>3 DEF Insertable, Occupied
    <3>2. hash'[j] = hashes[j]
      BY <1>4, <2>1, <2>3 DEF Insertable
    <3> QED BY <2>3, <3>1, <3>2 DEF Insertable
  <2> QED BY <2>2, <2>3
<1>18. HashInv'
  BY <1>17 DEF HashInv
<1>19. ASSUME NEW j \in UsedSlots', NEW l \in UsedSlots', key'[j] = key'[l]
       PROVE  j = l
  <2>1. \A m \in occ : m \in 0..sz-1
    BY DEF Occupied
  <2> QED BY <1>17, <1>19, <2>1 DEF Insertable
<1>20. OneSlot'
  BY <1>19 DEF OneSlot
<1> QED BY <1>8, <1>16, <1>18, <1>20 DEF DictInv

(* A key that dictionary_set does not find is not there.                   *)
LEMMA NotFound ==
    ASSUME DictInv, NEW k \in Keys, ~Found(k)
    PROVE  \A i \in Slots : key[i] # k
<1>1. k # NULL
  BY DictAssumption
<1>2. CASE n = 0
  <2>1. Cardinality(UsedSlots) = 0
    BY <1>2, UsedFinite DEF DictInv, CountInv
  <2>2. UsedSlots = {}
    BY <2>1, UsedFinite, FS_EmptySet DEF DictInv
  <2> QED BY <1>1, <2>2 DEF UsedSlots
<1>3. CASE n > 0
  <2>1. Matches(k) = {}
    BY <1>3 DEF Found
  <2>2. ASSUME NEW i \in Slots, key[i] = k PROVE FALSE
    <3>1. i \in UsedSlots
      BY <1>1, <2>2 DEF UsedSlots
    <3>2. hash[i] = Hash[k]
      BY <2>2, <3>1 DEF DictInv, HashInv
    <3> QED BY <2>1, <2>2, <3>2 DEF Matches
  <2> QED BY <2>2
<1> QED BY <1>2, <1>3 DEF DictInv, DictTypeOK

(* A table that is not full can take a new entry.                          *)
LEMMA AddInsertable ==
    ASSUME DictInv, NEW k \in Keys, NEW v \in Values \cup {NULL}, SetAdd(k, v)
    PROVE  Insertable(k, size, key, val, hash)
<1>1. \A i \in Slots : key[i] # k
  BY NotFound DEF SetAdd
<1>2. Occupied(size, key) = UsedSlots
  BY DEF Occupied, UsedSlots, Slots
<1>3. n < size
  BY DEF SetAdd, MustGrow, DictInv, DictTypeOK, CountInv
<1> QED BY <1>1, <1>2, <1>3 DEF Insertable, DictInv, DictTypeOK, CountInv, HashInv,
                                OneSlot, Slots

LEMMA AddInv ==
    ASSUME DictInv, NEW k \in Keys, NEW v \in Values \cup {NULL},
           heap = "usable", SetAdd(k, v)
    PROVE  DictInv'
<1>1. Insertable(k, size, key, val, hash)
  BY AddInsertable
<1>2. Insert(k, v, key, val, hash) /\ heap' = heap /\ size' = size
  BY DEF SetAdd
<1>3. n \in Nat /\ size \in Nat
  BY DEF DictInv, DictTypeOK
<1> QED BY <1>1, <1>2, <1>3, InsertInv

(* A doubled array has the old contents and zeroes after them.             *)
LEMMA Doubling ==
    ASSUME NEW S, NEW zero \in S, NEW array \in [Slots -> S], size \in Nat
    PROVE  /\ mem_double(array, zero) \in [0..2*size-1 -> S]
           /\ \A i \in 0..2*size-1 :
                 mem_double(array, zero)[i] = IF i < size THEN array[i] ELSE zero
           /\ \A i \in Slots : i < size /\ i \in 0..2*size-1
<1>1. \A i \in 0..2*size-1 : i < size => i \in Slots
  BY DEF Slots
<1>2. \A i \in Slots : i < size /\ i \in 0..2*size-1
  BY DEF Slots
<1> QED BY <1>1, <1>2 DEF mem_double

LEMMA DoubleOccupied ==
    ASSUME DictInv
    PROVE  Occupied(2 * size, mem_double(key, NULL)) = UsedSlots
<1>1. size \in Nat /\ key \in [Slots -> Keys \cup {NULL}]
  BY DEF DictInv, DictTypeOK
<1>2. \A i \in 0..2*size-1 :
          mem_double(key, NULL)[i] = IF i < size THEN key[i] ELSE NULL
  BY <1>1, Doubling
<1>3. \A i \in Slots : i < size /\ i \in 0..2*size-1
  BY <1>1 DEF Slots
<1>4. \A i \in 0..2*size-1 : i < size => i \in Slots
  BY <1>1 DEF Slots
<1> QED BY <1>2, <1>3, <1>4 DEF Occupied, UsedSlots

(* A table that was full can take a new entry once it is doubled.          *)
LEMMA GrowInsertable ==
    ASSUME DictInv, NEW k \in Keys, NEW v \in Values \cup {NULL},
           heap = "usable", SetGrow(k, v)
    PROVE  Insertable(k, 2 * size, mem_double(key, NULL), mem_double(val, NULL),
                      mem_double(hash, 0))
<1> DEFINE keys == mem_double(key, NULL)
           vals == mem_double(val, NULL)
           hashes == mem_double(hash, 0)
<1>1. size \in Nat /\ n \in Nat /\ n = size /\ size > 0
  BY DEF DictInv, DictTypeOK, CountInv, SetGrow, MustGrow
<1>2. /\ key \in [Slots -> Keys \cup {NULL}]
      /\ val \in [Slots -> Values \cup {NULL}]
      /\ hash \in [Slots -> Nat]
  BY DEF DictInv, DictTypeOK
<1>3. \A i \in Slots : key[i] # k
  BY NotFound DEF SetGrow
<1>4. k # NULL
  BY DictAssumption
<1>5. \A i \in 0..2*size-1 : i < size => i \in Slots
  BY <1>1 DEF Slots
<1>6. \A i \in Slots : i < size /\ i \in 0..2*size-1
  BY <1>1 DEF Slots
<1>7. /\ keys \in [0..2*size-1 -> Keys \cup {NULL}]
      /\ \A i \in 0..2*size-1 : keys[i] = IF i < size THEN key[i] ELSE NULL
  <2>1. NULL \in Keys \cup {NULL}
    OBVIOUS
  <2> QED BY <1>1, <1>2, <1>5, <2>1 DEF mem_double
<1>8. vals \in [0..2*size-1 -> Values \cup {NULL}]
  BY <1>1, <1>2, Doubling
<1>9. /\ hashes \in [0..2*size-1 -> Nat]
      /\ \A i \in 0..2*size-1 : hashes[i] = IF i < size THEN hash[i] ELSE 0
  <2>1. 0 \in Nat
    OBVIOUS
  <2> QED BY <1>1, <1>2, <1>5, <2>1 DEF mem_double
<1>10. Occupied(2 * size, keys) = UsedSlots
  BY DoubleOccupied
<1> HIDE DEF keys, vals, hashes
<1>11. \A i \in UsedSlots : keys[i] = key[i] /\ hashes[i] = hash[i]
  BY <1>6, <1>7, <1>9 DEF UsedSlots
<1>12. \A i \in 0..2*size-1 : keys[i] # k
  BY <1>3, <1>4, <1>5, <1>7
<1>13. Cardinality(UsedSlots) <= n
  BY DEF DictInv, CountInv
<1>14. n < 2 * size
  BY <1>1
<1>15. \A i \in UsedSlots : hashes[i] = Hash[keys[i]]
  BY <1>11 DEF DictInv, HashInv
<1>16. \A i, j \in UsedSlots : keys[i] = keys[j] => i = j
  BY <1>11 DEF DictInv, OneSlot
<1>17. Insertable(k, 2 * size, keys, vals, hashes)
  BY <1>7, <1>8, <1>9, <1>10, <1>12, <1>13, <1>14, <1>15, <1>16 DEF Insertable
<1> QED BY <1>17 DEF keys, vals, hashes

LEMMA GrowInv ==
    ASSUME DictInv, NEW k \in Keys, NEW v \in Values \cup {NULL},
           heap = "usable", SetGrow(k, v)
    PROVE  DictInv'
<1>1. Insertable(k, 2 * size, mem_double(key, NULL), mem_double(val, NULL),
                 mem_double(hash, 0))
  BY GrowInsertable
<1>2. /\ Insert(k, v, mem_double(key, NULL), mem_double(val, NULL), mem_double(hash, 0))
      /\ heap' = heap /\ size' = 2 * size
  BY DEF SetGrow, Doubled
<1>3. n \in Nat /\ 2 * size \in Nat
  BY DEF DictInv, DictTypeOK
<1> QED BY <1>1, <1>2, <1>3, InsertInv

(* Every step keeps the invariant.                                         *)
LEMMA DictNextInv == DictInv /\ [DictNext]_dictionaryVars => DictInv'
<1> SUFFICES ASSUME DictInv, [DictNext]_dictionaryVars PROVE DictInv'
  OBVIOUS
<1>1. CASE dictionary_new
  BY <1>1, NewInv
<1>2. CASE dictionary_del
  BY <1>2, DelInv
<1>3. ASSUME NEW k \in Keys, NEW v \in Values \cup {NULL}, dictionary_set(k, v)
      PROVE  DictInv'
  BY <1>3, ModifyInv, AddInv, GrowInv, FailsInv DEF dictionary_set
<1>4. ASSUME NEW k \in Keys, dictionary_unset(k) PROVE DictInv'
  BY <1>4, UnsetInv
<1>5. CASE UNCHANGED dictionaryVars
  <2>1. /\ heap' = heap /\ n' = n /\ size' = size
        /\ key' = key /\ val' = val /\ hash' = hash
    BY <1>5 DEF dictionaryVars
  <2>2. Slots' = Slots /\ UsedSlots' = UsedSlots
    BY <2>1 DEF Slots, UsedSlots
  <2> QED BY <2>1, <2>2 DEF DictInv, DictTypeOK, CountInv, HashInv, OneSlot
<1> QED BY <1>1, <1>2, <1>3, <1>4, <1>5 DEF DictNext

(* The count, the hashes and the slots agree, whatever is allocated.       *)
THEOREM DictInvariant == DictSpec => []DictInv
<1> QED BY InitInv, DictNextInv, PTL DEF DictSpec

(* A table that does not grow has an empty slot for a new entry.           *)
THEOREM SlotAlwaysLeft == DictSpec => []SlotLeft
<1>1. ASSUME DictInv PROVE SlotLeft
  <2>1. Cardinality(UsedSlots) \in Nat
    BY <1>1, UsedFinite DEF DictInv
  <2>2. Cardinality(Slots) = size /\ size \in Nat /\ n \in Nat
    BY <1>1, SlotsFinite DEF DictInv, DictTypeOK, Slots
  <2> QED BY <1>1, <2>1, <2>2 DEF SlotLeft, MustGrow, DictInv, CountInv
<1> QED BY <1>1, DictInvariant, PTL

(* A key has at most one slot.                                             *)
THEOREM OneSlotForAKey == DictSpec => []OneSlot
<1>1. DictInv => OneSlot
  BY DEF DictInv
<1> QED BY <1>1, DictInvariant, PTL

-----------------------------------------------------------------------------
(* The map that a table is, when no key has two slots.                     *)
TableMap(sz, keys, vals) ==
    [k \in {keys[i] : i \in Occupied(sz, keys)} |->
        vals[CHOOSE i \in Occupied(sz, keys) : keys[i] = k]]

NoTwins(sz, keys) ==
    \A i, j \in Occupied(sz, keys) : keys[i] = keys[j] => i = j

(* What the map of a table has under the key of a slot.                    *)
LEMMA TableValue ==
    ASSUME NEW sz, NEW keys, NEW vals, NoTwins(sz, keys),
           NEW i \in Occupied(sz, keys)
    PROVE  /\ keys[i] \in DOMAIN TableMap(sz, keys, vals)
           /\ TableMap(sz, keys, vals)[keys[i]] = vals[i]
<1> DEFINE c == CHOOSE j \in Occupied(sz, keys) : keys[j] = keys[i]
<1>1. c \in Occupied(sz, keys) /\ keys[c] = keys[i]
  OBVIOUS
<1>2. c = i
  BY <1>1 DEF NoTwins
<1> QED BY <1>2 DEF TableMap

(* A function with the keys and values of a table is its map.              *)
LEMMA TableIs ==
    ASSUME NEW sz, NEW keys, NEW vals, NoTwins(sz, keys), NEW D, NEW f,
           f = [k \in D |-> f[k]],
           \A i \in Occupied(sz, keys) : keys[i] \in D /\ f[keys[i]] = vals[i],
           \A k \in D : \E i \in Occupied(sz, keys) : keys[i] = k
    PROVE  f = TableMap(sz, keys, vals)
<1> DEFINE T == TableMap(sz, keys, vals)
<1>1. DOMAIN T = D
  <2>1. DOMAIN T = {keys[i] : i \in Occupied(sz, keys)}
    BY DEF TableMap
  <2>2. D = {keys[i] : i \in Occupied(sz, keys)}
    OBVIOUS
  <2> QED BY <2>1, <2>2, Zenon
<1>2. ASSUME NEW k \in D PROVE T[k] = f[k]
  <2>1. PICK i \in Occupied(sz, keys) : keys[i] = k
    BY <1>2
  <2>2. T[keys[i]] = vals[i]
    BY <2>1, TableValue
  <2>3. f[keys[i]] = vals[i]
    BY <2>1
  <2> QED BY <2>1, <2>2, <2>3, Zenon
<1>3. T = [k \in DOMAIN T |-> T[k]]
  BY DEF TableMap
<1> HIDE DEF T
<1>4. T = [k \in D |-> T[k]]
  BY <1>1, <1>3, Zenon
<1>5. [k \in D |-> T[k]] = [k \in D |-> f[k]]
  BY <1>2, Zenon
<1>6. T = f
  BY <1>4, <1>5, Zenon
<1> QED BY <1>6 DEF T

MatchesIn(k, sz, keys, hashes) ==
    {i \in 0..sz-1 : keys[i] = k /\ hashes[i] = Hash[k]}

(* Looking a key up by hash and first match reads the map of the table.    *)
LEMMA TableContents ==
    ASSUME NEW sz \in Nat, NEW keys \in [0..sz-1 -> Keys \cup {NULL}],
           NEW vals, NEW hashes,
           NoTwins(sz, keys),
           \A i \in Occupied(sz, keys) : hashes[i] = Hash[keys[i]]
    PROVE  [k \in {k \in Keys : MatchesIn(k, sz, keys, hashes) # {}} |->
               IF MatchesIn(k, sz, keys, hashes) = {} THEN NULL
               ELSE vals[Min(MatchesIn(k, sz, keys, hashes))]]
           = TableMap(sz, keys, vals)
<1> DEFINE D == {k \in Keys : MatchesIn(k, sz, keys, hashes) # {}}
           f == [k \in D |->
                   IF MatchesIn(k, sz, keys, hashes) = {} THEN NULL
                   ELSE vals[Min(MatchesIn(k, sz, keys, hashes))]]
<1>1. ASSUME NEW k \in Keys, NEW i \in MatchesIn(k, sz, keys, hashes)
      PROVE  i \in Occupied(sz, keys) /\ keys[i] = k
  BY DictAssumption DEF MatchesIn, Occupied
<1>2. ASSUME NEW i \in Occupied(sz, keys)
      PROVE  keys[i] \in D /\ f[keys[i]] = vals[i]
  <2> DEFINE M == MatchesIn(keys[i], sz, keys, hashes)
  <2>1. keys[i] \in Keys /\ i \in 0..sz-1
    BY DEF Occupied
  <2>2. i \in M
    BY <2>1 DEF MatchesIn
  <2>3. M \subseteq Nat
    BY DEF MatchesIn
  <2>4. Min(M) \in M
    BY <2>2, <2>3, MinExists
  <2>5. Min(M) \in Occupied(sz, keys) /\ keys[Min(M)] = keys[i]
    BY <1>1, <2>1, <2>4
  <2>6. Min(M) = i
    BY <2>5 DEF NoTwins
  <2>7. keys[i] \in D
    BY <2>1, <2>2
  <2>8. f[keys[i]] = vals[Min(M)]
    BY <2>2, <2>7
  <2> QED BY <2>6, <2>7, <2>8
<1>3. ASSUME NEW k \in D
      PROVE  \E i \in Occupied(sz, keys) : keys[i] = k
  BY <1>1
<1>4. f = [k \in D |-> f[k]]
  OBVIOUS
<1> HIDE DEF f, D
<1>5. f = TableMap(sz, keys, vals)
  BY <1>2, <1>3, <1>4, TableIs
<1> QED BY <1>5 DEF f, D

(* A map with one entry put in, over an old one of its key or not.         *)
PutIn(T, k, v) == [o \in DOMAIN T \cup {k} |-> IF o = k THEN v ELSE T[o]]

LEMMA PutTable ==
    ASSUME NEW sz, NEW keys, NEW vals, NoTwins(sz, keys),
           NEW sz2, NEW keys2, NEW vals2, NoTwins(sz2, keys2),
           NEW k, NEW i, NEW c,
           Occupied(sz2, keys2) = Occupied(sz, keys) \cup {i},
           keys2[i] = k, vals2[i] = c,
           i \in Occupied(sz, keys) => keys[i] = k,
           \A j \in Occupied(sz, keys) :
               j # i => keys2[j] = keys[j] /\ vals2[j] = vals[j]
    PROVE  PutIn(TableMap(sz, keys, vals), k, c) = TableMap(sz2, keys2, vals2)
<1> DEFINE T == TableMap(sz, keys, vals)
           D == DOMAIN T \cup {k}
           f == [o \in D |-> IF o = k THEN c ELSE T[o]]
<1>1. ASSUME NEW j \in Occupied(sz2, keys2)
      PROVE  keys2[j] \in D /\ f[keys2[j]] = vals2[j]
  <2>1. CASE j = i
    BY <2>1
  <2>2. CASE j # i
    <3>1. j \in Occupied(sz, keys) /\ keys2[j] = keys[j] /\ vals2[j] = vals[j]
      BY <2>2
    <3>2. keys[j] \in DOMAIN T /\ T[keys[j]] = vals[j]
      BY <3>1, TableValue
    <3>3. keys2[j] # k
      BY <2>2 DEF NoTwins
    <3> QED BY <3>1, <3>2, <3>3
  <2> QED BY <2>1, <2>2
<1>2. ASSUME NEW o \in D
      PROVE  \E j \in Occupied(sz2, keys2) : keys2[j] = o
  <2>1. CASE o = k
    BY <2>1
  <2>2. CASE o # k
    <3>1. DOMAIN T = {keys[j] : j \in Occupied(sz, keys)}
      BY DEF TableMap
    <3>2. PICK j \in Occupied(sz, keys) : keys[j] = o
      BY <2>2, <3>1
    <3> QED BY <2>2, <3>2
  <2> QED BY <2>1, <2>2
<1>3. f = [o \in D |-> f[o]]
  OBVIOUS
<1> HIDE DEF f, D
<1>4. f = TableMap(sz2, keys2, vals2)
  BY <1>1, <1>2, <1>3, TableIs
<1> QED BY <1>4 DEF f, D, PutIn

(* A table without one of its entries.                                     *)
LEMMA CutTable ==
    ASSUME NEW sz, NEW keys, NEW vals, NoTwins(sz, keys),
           NEW keys2, NEW vals2, NoTwins(sz, keys2),
           NEW i \in Occupied(sz, keys),
           Occupied(sz, keys2) = Occupied(sz, keys) \ {i},
           \A j \in Occupied(sz, keys) :
               j # i => keys2[j] = keys[j] /\ vals2[j] = vals[j]
    PROVE  Restrict(TableMap(sz, keys, vals),
                    DOMAIN TableMap(sz, keys, vals) \ {keys[i]})
           = TableMap(sz, keys2, vals2)
<1> DEFINE T == TableMap(sz, keys, vals)
           D == DOMAIN T \ {keys[i]}
           f == Restrict(T, D)
<1>1. ASSUME NEW j \in Occupied(sz, keys2)
      PROVE  keys2[j] \in D /\ f[keys2[j]] = vals2[j]
  <2>1. j \in Occupied(sz, keys) /\ j # i /\ keys2[j] = keys[j] /\ vals2[j] = vals[j]
    OBVIOUS
  <2>2. keys[j] \in DOMAIN T /\ T[keys[j]] = vals[j]
    BY <2>1, TableValue
  <2>3. keys2[j] # keys[i]
    BY <2>1 DEF NoTwins
  <2>4. keys2[j] \in D
    BY <2>1, <2>2, <2>3
  <2>5. f[keys2[j]] = T[keys2[j]]
    BY <2>4 DEF Restrict
  <2> QED BY <2>1, <2>2, <2>4, <2>5
<1>2. ASSUME NEW o \in D
      PROVE  \E j \in Occupied(sz, keys2) : keys2[j] = o
  <2>1. DOMAIN T = {keys[j] : j \in Occupied(sz, keys)}
    BY DEF TableMap
  <2>2. PICK j \in Occupied(sz, keys) : keys[j] = o
    BY <2>1
  <2>3. j # i
    BY <2>2
  <2> QED BY <2>2, <2>3
<1>3. f = [o \in D |-> f[o]]
  BY DEF Restrict
<1> HIDE DEF f, D
<1>4. f = TableMap(sz, keys2, vals2)
  BY <1>1, <1>2, <1>3, TableIs
<1> QED BY <1>4 DEF f, D

(* Two tables with the same entries are the same map.                      *)
LEMMA SameTable ==
    ASSUME NEW sz, NEW keys, NEW vals, NoTwins(sz, keys),
           NEW sz2, NEW keys2, NEW vals2, NoTwins(sz2, keys2),
           Occupied(sz2, keys2) = Occupied(sz, keys),
           \A j \in Occupied(sz, keys) :
               keys2[j] = keys[j] /\ vals2[j] = vals[j]
    PROVE  TableMap(sz2, keys2, vals2) = TableMap(sz, keys, vals)
<1> DEFINE T == TableMap(sz, keys, vals)
           D == DOMAIN T
<1>1. ASSUME NEW j \in Occupied(sz2, keys2)
      PROVE  keys2[j] \in D /\ T[keys2[j]] = vals2[j]
  BY TableValue
<1>2. ASSUME NEW o \in D
      PROVE  \E j \in Occupied(sz2, keys2) : keys2[j] = o
  BY DEF TableMap
<1>3. T = [o \in D |-> T[o]]
  BY DEF TableMap
<1> HIDE DEF T, D
<1>4. T = TableMap(sz2, keys2, vals2)
  BY <1>1, <1>2, <1>3, TableIs
<1> QED BY <1>4 DEF T

(* So does what the callers can get, before a step ...                     *)
LEMMA ContentsIsTable ==
    ASSUME DictInv, heap = "usable"
    PROVE  Contents = TableMap(size, key, val) /\ NoTwins(size, key)
<1>1. size \in Nat /\ key \in [0..size-1 -> Keys \cup {NULL}]
  BY DEF DictInv, DictTypeOK, Slots
<1>2. Occupied(size, key) = UsedSlots
  BY DEF Occupied, UsedSlots, Slots
<1>3. NoTwins(size, key) /\ \A i \in Occupied(size, key) : hash[i] = Hash[key[i]]
  BY <1>2 DEF DictInv, OneSlot, HashInv, NoTwins
<1>4. [k \in {k \in Keys : MatchesIn(k, size, key, hash) # {}} |->
               IF MatchesIn(k, size, key, hash) = {} THEN NULL
               ELSE val[Min(MatchesIn(k, size, key, hash))]]
      = TableMap(size, key, val)
  BY <1>1, <1>3, TableContents
<1>5. \A k : MatchesIn(k, size, key, hash) = Matches(k)
  BY DEF MatchesIn, Matches, Slots
<1>6. Contents = [k \in {k \in Keys : Matches(k) # {}} |->
               IF Matches(k) = {} THEN NULL ELSE val[Min(Matches(k))]]
  BY DEF Contents, dictionary_get, Entry
<1> QED BY <1>3, <1>4, <1>5, <1>6, Zenon

(* ... and after it.                                                       *)
LEMMA ContentsIsTableNext ==
    ASSUME DictInv', heap' = "usable"
    PROVE  Contents' = TableMap(size', key', val') /\ NoTwins(size', key')
<1>1. size' \in Nat /\ key' \in [0..size'-1 -> Keys \cup {NULL}]
  BY DEF DictInv, DictTypeOK, Slots
<1>2. Occupied(size', key') = UsedSlots'
  BY DEF Occupied, UsedSlots, Slots
<1>3. NoTwins(size', key') /\ \A i \in Occupied(size', key') : hash'[i] = Hash[key'[i]]
  BY <1>2 DEF DictInv, OneSlot, HashInv, NoTwins
<1>4. [k \in {k \in Keys : MatchesIn(k, size', key', hash') # {}} |->
               IF MatchesIn(k, size', key', hash') = {} THEN NULL
               ELSE val'[Min(MatchesIn(k, size', key', hash'))]]
      = TableMap(size', key', val')
  BY <1>1, <1>3, TableContents
<1>5. \A k : MatchesIn(k, size', key', hash') = Matches(k)'
  BY DEF MatchesIn, Matches, Slots
<1>6. Contents' = [k \in {k \in Keys : Matches(k)' # {}} |->
               IF Matches(k)' = {} THEN NULL ELSE val'[Min(Matches(k)')]]
  BY DEF Contents, dictionary_get, Entry
<1> QED BY <1>3, <1>4, <1>5, <1>6, Zenon

-----------------------------------------------------------------------------
(* dictionary_set puts what it could copy under its key, and nothing else. *)
Put(k, v) == Contents' = PutIn(Contents, k, v)

LEMMA ModifyPuts ==
    ASSUME DictInv, heap = "usable", NEW k \in Keys, NEW v \in Values \cup {NULL},
           SetModify(k, v)
    PROVE  Put(k, v) \/ Put(k, NULL)
<1> DEFINE i == Entry(k)
<1>1. i \in UsedSlots /\ key[i] = k
  BY EntryUsed DEF SetModify, Found
<1>2. PICK c \in {v, NULL} : val' = [val EXCEPT ![i] = c]
  BY DEF SetModify, xstrdup
<1> HIDE DEF i
<1>3. size' = size /\ key' = key /\ heap' = "usable"
  BY DEF SetModify
<1>4. Occupied(size, key) = UsedSlots
  BY DEF Occupied, UsedSlots, Slots
<1>5. val \in [Slots -> Values \cup {NULL}] /\ i \in Slots
  BY <1>1 DEF DictInv, DictTypeOK, UsedSlots
<1>6. Contents = TableMap(size, key, val) /\ NoTwins(size, key)
  BY ContentsIsTable
<1>7. DictInv'
  BY ModifyInv
<1>8. Contents' = TableMap(size', key', val')
  BY <1>3, <1>7, ContentsIsTableNext
<1>9. Contents' = TableMap(size, key, val')
  BY <1>3, <1>8
<1>10. val'[i] = c
  BY <1>2, <1>5
<1>11. \A j \in Occupied(size, key) : j # i => val'[j] = val[j]
  BY <1>2, <1>4, <1>5 DEF UsedSlots
<1>12. Occupied(size, key) = Occupied(size, key) \cup {i}
  BY <1>1, <1>4
<1>13. PutIn(TableMap(size, key, val), k, c) = TableMap(size, key, val')
  BY <1>1, <1>6, <1>10, <1>11, <1>12, PutTable
<1>14. Put(k, c)
  BY <1>6, <1>9, <1>13, Zenon DEF Put
<1> QED BY <1>2, <1>14

LEMMA InsertPuts ==
    ASSUME n \in Nat, NEW sz \in Nat, NEW k \in Keys, NEW v \in Values \cup {NULL},
           NEW keys, NEW vals, NEW hashes,
           Insertable(k, sz, keys, vals, hashes),
           Insert(k, v, keys, vals, hashes),
           Contents = TableMap(sz, keys, vals),
           heap' = "usable", size' = sz, DictInv'
    PROVE  Put(k, v) \/ Put(k, NULL) \/ Contents' = Contents
<1> DEFINE i == FirstEmpty(keys)
<1>1. i \in 0..sz-1 /\ keys[i] = NULL
  BY EmptySlot
<1>2. PICK kcopy \in {k, NULL} : key' = [keys EXCEPT ![i] = kcopy]
  BY DEF Insert, xstrdup
<1>3. PICK c \in {v, NULL} : val' = [vals EXCEPT ![i] = c]
  BY DEF Insert, xstrdup
<1> HIDE DEF i
<1>4. /\ keys \in [0..sz-1 -> Keys \cup {NULL}]
      /\ vals \in [0..sz-1 -> Values \cup {NULL}]
      /\ NoTwins(sz, keys)
  BY DEF Insertable, NoTwins
<1>5. Contents' = TableMap(size', key', val') /\ NoTwins(size', key')
  BY ContentsIsTableNext
<1>6. Contents' = TableMap(sz, key', val') /\ NoTwins(sz, key')
  BY <1>5
<1>7. key'[i] = kcopy /\ val'[i] = c
  BY <1>1, <1>2, <1>3, <1>4
<1>8. i \notin Occupied(sz, keys)
  BY <1>1 DEF Occupied
<1>9. \A j \in Occupied(sz, keys) : key'[j] = keys[j] /\ val'[j] = vals[j]
  BY <1>2, <1>3, <1>4, <1>8 DEF Occupied
<1>10. CASE kcopy = k
  <2>1. k # NULL
    BY DictAssumption
  <2>2. Occupied(sz, key') = Occupied(sz, keys) \cup {i}
    BY <1>1, <1>2, <1>4, <1>10, <2>1 DEF Occupied
  <2>3. PutIn(TableMap(sz, keys, vals), k, c) = TableMap(sz, key', val')
    BY <1>4, <1>6, <1>7, <1>8, <1>9, <1>10, <2>2, PutTable
  <2>4. Put(k, c)
    BY <1>6, <2>3, Zenon DEF Put
  <2> QED BY <1>3, <2>4
<1>11. CASE kcopy = NULL
  <2>1. Occupied(sz, key') = Occupied(sz, keys)
    BY <1>1, <1>2, <1>4, <1>11 DEF Occupied
  <2>2. TableMap(sz, key', val') = TableMap(sz, keys, vals)
    BY <1>4, <1>6, <1>9, <2>1, SameTable
  <2> QED BY <1>6, <2>2
<1> QED BY <1>2, <1>10, <1>11

LEMMA AddPuts ==
    ASSUME DictInv, heap = "usable", NEW k \in Keys, NEW v \in Values \cup {NULL},
           SetAdd(k, v)
    PROVE  Put(k, v) \/ Put(k, NULL) \/ Contents' = Contents
<1>1. n \in Nat /\ size \in Nat
  BY DEF DictInv, DictTypeOK
<1>2. Insertable(k, size, key, val, hash)
  BY AddInsertable
<1>3. Insert(k, v, key, val, hash) /\ heap' = "usable" /\ size' = size
  BY DEF SetAdd
<1>4. Contents = TableMap(size, key, val)
  BY ContentsIsTable
<1>5. DictInv'
  BY AddInv
<1> QED BY <1>1, <1>2, <1>3, <1>4, <1>5, InsertPuts

(* Doubling changes no entry.                                              *)
LEMMA DoubleTable ==
    ASSUME DictInv, heap = "usable"
    PROVE  TableMap(2 * size, mem_double(key, NULL), mem_double(val, NULL)) = Contents
<1> DEFINE keys == mem_double(key, NULL)
           vals == mem_double(val, NULL)
<1>1. size \in Nat
  BY DEF DictInv, DictTypeOK
<1>2. Occupied(2 * size, keys) = UsedSlots
  BY DoubleOccupied
<1>3. Occupied(size, key) = UsedSlots
  BY DEF Occupied, UsedSlots, Slots
<1>4. \A i \in UsedSlots : keys[i] = key[i] /\ vals[i] = val[i]
  <2>1. \A i \in UsedSlots : i \in 0..2*size-1 /\ i < size
    BY <1>1 DEF UsedSlots, Slots
  <2> QED BY <2>1 DEF mem_double
<1>5. Contents = TableMap(size, key, val) /\ NoTwins(size, key)
  BY ContentsIsTable
<1> HIDE DEF keys, vals
<1>6. NoTwins(2 * size, keys)
  BY <1>2, <1>3, <1>4, <1>5 DEF NoTwins
<1>7. TableMap(2 * size, keys, vals) = TableMap(size, key, val)
  BY <1>2, <1>3, <1>4, <1>5, <1>6, SameTable
<1> QED BY <1>5, <1>7 DEF keys, vals

LEMMA GrowPuts ==
    ASSUME DictInv, heap = "usable", NEW k \in Keys, NEW v \in Values \cup {NULL},
           SetGrow(k, v)
    PROVE  Put(k, v) \/ Put(k, NULL) \/ Contents' = Contents
<1>1. n \in Nat /\ 2 * size \in Nat
  BY DEF DictInv, DictTypeOK
<1>2. Insertable(k, 2 * size, mem_double(key, NULL), mem_double(val, NULL),
                 mem_double(hash, 0))
  BY GrowInsertable
<1>3. /\ Insert(k, v, mem_double(key, NULL), mem_double(val, NULL), mem_double(hash, 0))
      /\ heap' = "usable" /\ size' = 2 * size
  BY DEF SetGrow, Doubled
<1>4. Contents = TableMap(2 * size, mem_double(key, NULL), mem_double(val, NULL))
  BY DoubleTable
<1>5. DictInv'
  BY GrowInv
<1> QED BY <1>1, <1>2, <1>3, <1>4, <1>5, InsertPuts

(* dictionary_unset removes its key, and nothing else.                     *)
LEMMA UnsetCuts ==
    ASSUME DictInv, NEW k \in Keys, dictionary_unset(k)
    PROVE  /\ k \in DOMAIN Contents
           /\ Contents' = Restrict(Contents, DOMAIN Contents \ {k})
<1> DEFINE i == Entry(k)
<1>1. i \in UsedSlots /\ key[i] = k
  BY EntryUsed DEF dictionary_unset
<1> HIDE DEF i
<1>2. /\ key' = [key EXCEPT ![i] = NULL]
      /\ val' = [val EXCEPT ![i] = NULL]
      /\ size' = size /\ heap' = heap /\ heap = "usable"
  BY DEF dictionary_unset, i
<1>3. Occupied(size, key) = UsedSlots
  BY DEF Occupied, UsedSlots, Slots
<1>4. /\ key \in [0..size-1 -> Keys \cup {NULL}]
      /\ val \in [0..size-1 -> Values \cup {NULL}]
  BY DEF DictInv, DictTypeOK, Slots
<1>5. Contents = TableMap(size, key, val) /\ NoTwins(size, key)
  BY <1>2, ContentsIsTable
<1>6. DictInv'
  BY UnsetInv
<1>7. Contents' = TableMap(size', key', val') /\ NoTwins(size', key')
  BY <1>2, <1>6, ContentsIsTableNext
<1>8. Contents' = TableMap(size, key', val') /\ NoTwins(size, key')
  BY <1>2, <1>7
<1>9. Occupied(size, key') = Occupied(size, key) \ {i}
  BY <1>2, <1>4 DEF Occupied
<1>10. \A j \in Occupied(size, key) : j # i => key'[j] = key[j] /\ val'[j] = val[j]
  BY <1>2, <1>4 DEF Occupied
<1>11. i \in Occupied(size, key)
  BY <1>1, <1>3
<1>12. Restrict(TableMap(size, key, val), DOMAIN TableMap(size, key, val) \ {key[i]})
       = TableMap(size, key', val')
  BY <1>5, <1>8, <1>9, <1>10, <1>11, CutTable
<1>13. key[i] \in DOMAIN TableMap(size, key, val)
  BY <1>5, <1>11, TableValue
<1> QED BY <1>1, <1>5, <1>8, <1>12, <1>13, Zenon

(* Each call is a step of the map, or changes nothing in it.               *)
LEMMA SetMaps ==
    ASSUME DictInv, NEW k \in Keys, NEW v \in Values \cup {NULL}, dictionary_set(k, v)
    PROVE  [Map!MapNext]_(Map!mapVars)
<1>1. heap = "usable"
  BY DEF dictionary_set
<1>2. CASE SetGrowFails(k)
  <2>1. heap' # "usable"
    BY <1>2 DEF SetGrowFails
  <2>2. Contents' = [x \in {} |-> NULL]
    BY <2>1 DEF Contents
  <2>3. Map!Drop
    BY <1>1, <2>1, <2>2 DEF Map!Drop, Map!Nothing
  <2> QED BY <2>3 DEF Map!MapNext
<1>3. CASE SetModify(k, v) \/ SetAdd(k, v) \/ SetGrow(k, v)
  <2>1. heap' = heap
    BY <1>3 DEF SetModify, SetAdd, SetGrow
  <2>2. Put(k, v) \/ Put(k, NULL) \/ Contents' = Contents
    BY <1>1, <1>3, ModifyPuts, AddPuts, GrowPuts
  <2>3. CASE Put(k, v) \/ Put(k, NULL)
    <3>1. Contents' \in {Map!With(k, v), Map!With(k, NULL)}
      BY <2>3 DEF Put, PutIn, Map!With
    <3>2. Map!Set(k, v)
      BY <1>1, <2>1, <3>1 DEF Map!Set
    <3> QED BY <3>2 DEF Map!MapNext
  <2>4. CASE Contents' = Contents
    BY <2>1, <2>4 DEF Map!mapVars
  <2> QED BY <2>2, <2>3, <2>4
<1> QED BY <1>2, <1>3 DEF dictionary_set

(* A new dictionary has nothing in it.                                     *)
LEMMA NewEmpty ==
    ASSUME dictionary_new
    PROVE  Contents' = [x \in {} |-> NULL]
<1>1. DictInv'
  BY NewInv
<1>2. CASE heap' = "usable"
  <2>1. Contents' = TableMap(size', key', val')
    BY <1>1, <1>2, ContentsIsTableNext
  <2>2. Occupied(size', key') = {}
    BY DictAssumption DEF dictionary_new, Occupied
  <2> QED BY <2>1, <2>2 DEF TableMap
<1>3. CASE heap' # "usable"
  BY <1>3 DEF Contents
<1> QED BY <1>2, <1>3 DEF dictionary_new

LEMMA NewMaps ==
    ASSUME dictionary_new
    PROVE  [Map!MapNext]_(Map!mapVars)
<1>1. heap = "none" /\ Contents = [x \in {} |-> NULL]
  BY DEF dictionary_new, Contents
<1>2. Contents' = [x \in {} |-> NULL]
  BY NewEmpty
<1>3. CASE heap' = "usable"
  <2>1. Map!New
    BY <1>1, <1>2, <1>3 DEF Map!New, Map!Nothing
  <2> QED BY <2>1 DEF Map!MapNext
<1>4. CASE heap' # "usable"
  BY <1>1, <1>2, <1>4 DEF Map!mapVars
<1> QED BY <1>3, <1>4 DEF dictionary_new

LEMMA DictNextMaps ==
    DictInv /\ [DictNext]_dictionaryVars => [Map!MapNext]_(Map!mapVars)
<1> SUFFICES ASSUME DictInv, [DictNext]_dictionaryVars
             PROVE  [Map!MapNext]_(Map!mapVars)
  OBVIOUS
<1>1. CASE dictionary_new
  BY <1>1, NewMaps
<1>2. CASE dictionary_del
  <2>1. heap' = "none"
    BY <1>2 DEF dictionary_del
  <2>2. Contents' = [x \in {} |-> NULL]
    BY <2>1 DEF Contents
  <2>3. CASE heap = "usable"
    <3>1. Map!Drop
      BY <2>1, <2>2, <2>3 DEF Map!Drop, Map!Nothing
    <3> QED BY <3>1 DEF Map!MapNext
  <2>4. CASE heap # "usable"
    <3>1. Contents = [x \in {} |-> NULL]
      BY <2>4 DEF Contents
    <3> QED BY <2>1, <2>2, <2>4, <3>1 DEF Map!mapVars
  <2> QED BY <2>3, <2>4
<1>3. ASSUME NEW k \in Keys, NEW v \in Values \cup {NULL}, dictionary_set(k, v)
      PROVE  [Map!MapNext]_(Map!mapVars)
  BY <1>3, SetMaps
<1>4. ASSUME NEW k \in Keys, dictionary_unset(k)
      PROVE  [Map!MapNext]_(Map!mapVars)
  <2>1. heap = "usable" /\ heap' = "usable"
    BY <1>4 DEF dictionary_unset
  <2>2. k \in DOMAIN Contents /\ Contents' = Restrict(Contents, DOMAIN Contents \ {k})
    BY <1>4, UnsetCuts
  <2>3. Map!Unset(k)
    BY <2>1, <2>2 DEF Map!Unset, Restrict, Map!Restrict
  <2> QED BY <2>3 DEF Map!MapNext
<1>5. CASE UNCHANGED dictionaryVars
  BY <1>5 DEF dictionaryVars, Map!mapVars, Contents, Matches, dictionary_get, Entry, Slots
<1> QED BY <1>1, <1>2, <1>3, <1>4, <1>5 DEF DictNext

(* The table is a map for its callers: every call changes the key it is    *)
(* given or nothing, whatever the slots, the hashes and the memory.        *)
THEOREM TableIsAMap == DictSpec => MapImplemented
<1>1. DictInit => Map!MapInit
  <2>1. DictInit => heap = "none" /\ Contents = [x \in {} |-> NULL]
    BY DEF DictInit, Contents
  <2> QED BY <2>1 DEF Map!MapInit, Map!Nothing
<1>2. DictInv /\ [DictNext]_dictionaryVars => [Map!MapNext]_(Map!mapVars)
  BY DictNextMaps
<1> QED BY <1>1, <1>2, DictInvariant, PTL DEF DictSpec, MapImplemented, Map!MapSpec

=============================================================================
